------------------------------ MODULE Network ------------------------------
(***************************************************************************)
(* network.c: joining the saved network, the SoftAP for setting up and     *)
(* recovery, and the timer that tries the saved network again.  Four tasks *)
(* share the flags without a lock: main (network_init), sys_evt (on_wifi,  *)
(* on_ip), esp_timer (sta_retry_timer_cb) and, when network_init is        *)
(* through, httpd.  The Wi-Fi driver and the networks in the air are the   *)
(* environment.  A step of a task is one write or one call, together with  *)
(* the conditions just before it.                                          *)
(***************************************************************************)
EXTENDS Sequences, Integers

CONSTANTS
    Networks,               \* names of networks
    NoSsid,                 \* the empty wifi_ssid
    FailBeforeAp,           \* WIFI_STA_FAIL_BEFORE_AP
    MaxEvents               \* bound: what waits in the event queue when the
                            \* radio reports something

ASSUME NetworkAssumption ==
    /\ NoSsid \notin Networks
    /\ Networks \cap {"down", "joining"} = {}      \* the other values of link
    /\ FailBeforeAp \in Nat /\ MaxEvents \in Nat

VARIABLES
    flash, wifi_ssid,       \* the saved network: in flash, in s_settings
    s_sta_connected, s_ap_active, s_want_sta, s_retry,
    s_sta_retry_timer,      \* 0, or the number of the timer
    running,                \* the timers that run; one may be lost
    joined_bit,             \* WIFI_CONNECTED_BIT
    setup_open,             \* s_setup_activity_us is recent
    s_running,              \* of captive_dns.c
    pc,                     \* where each task is
    mode, target, link,     \* driver: mode, configured network, what it is on
    events,                 \* posted and not yet handled
    air                     \* the networks that would let the device in

saved == <<flash, wifi_ssid>>
flags == <<s_sta_connected, s_ap_active, s_want_sta, s_retry>>
timer == <<s_sta_retry_timer, running>>
driver == <<mode, target, link, events>>
misc == <<joined_bit, setup_open, s_running>>
vars == <<flash, wifi_ssid, s_sta_connected, s_ap_active, s_want_sta, s_retry,
          s_sta_retry_timer, running, joined_bit, setup_open, s_running, pc, mode,
          target, link, events, air>>

Tasks == {"main", "sys_evt", "esp_timer", "httpd"}
Timers == {1, 2}

Saved == wifi_ssid # NoSsid         \* has_saved_ssid

Init ==
    /\ flash \in Networks \cup {NoSsid}
    /\ wifi_ssid = flash
    /\ s_sta_connected = FALSE
    /\ s_ap_active = FALSE
    /\ s_want_sta = FALSE
    /\ s_retry = 0
    /\ s_sta_retry_timer = 0
    /\ running = {}
    /\ joined_bit = FALSE
    /\ setup_open = FALSE
    /\ s_running = FALSE
    /\ pc = [t \in Tasks |-> IF t = "main" THEN "init" ELSE "idle"]
    /\ mode = "null"
    /\ target = NoSsid
    /\ link = "down"
    /\ events = <<>>
    /\ air \in SUBSET Networks

(* Power loss, or the abort of an ESP_ERROR_CHECK.                         *)
Restart ==
    /\ wifi_ssid' = flash
    /\ s_sta_connected' = FALSE
    /\ s_ap_active' = FALSE
    /\ s_want_sta' = FALSE
    /\ s_retry' = 0
    /\ s_sta_retry_timer' = 0
    /\ running' = {}
    /\ joined_bit' = FALSE
    /\ setup_open' = FALSE
    /\ s_running' = FALSE
    /\ pc' = [t \in Tasks |-> IF t = "main" THEN "init" ELSE "idle"]
    /\ mode' = "null"
    /\ target' = NoSsid
    /\ link' = "down"
    /\ events' = <<>>
    /\ UNCHANGED <<flash, air>>

Goto(t, next) == pc' = [pc EXCEPT ![t] = next]

At(t, here, next) == pc[t] = here /\ Goto(t, next)

Jump(t, here, next) ==
    At(t, here, next) /\ UNCHANGED <<saved, flags, timer, misc, driver, air>>

----------------------------------------------------------------------------
(* The Wi-Fi driver.                                                       *)

Post(event) == events' = Append(events, event)

(* esp_wifi_set_mode, and esp_wifi_start the first time.                   *)
SetMode(new) ==
    /\ mode' = new
    /\ events' =
         events \o (CASE mode = "null"                   -> <<"STA_START", "AP_START">>
                     [] mode = "sta" /\ new = "apsta" -> <<"AP_START">>
                     [] mode = "apsta" /\ new = "sta" -> <<"AP_STOP">>
                     [] OTHER                         -> <<>>)
    /\ UNCHANGED <<target, link>>

(* esp_wifi_connect is refused when the device is on a network or joining. *)
Connect == link' = IF link = "down" THEN "joining" ELSE link

CallSetMode(t, here, next, new) ==
    /\ At(t, here, next)
    /\ SetMode(new)
    /\ UNCHANGED <<saved, flags, timer, misc, air>>

CallConnect(t) ==
    /\ At(t, "connect", "idle")
    /\ Connect
    /\ UNCHANGED <<saved, flags, timer, misc, mode, target, events, air>>

JoinEnds ==
    /\ link = "joining"
    /\ Len(events) < MaxEvents
    /\ IF target \in air
         THEN link' = target /\ Post("GOT_IP")
         ELSE link' = "down" /\ Post("DISCONNECTED")
    /\ UNCHANGED <<saved, flags, timer, misc, pc, mode, target, air>>

LinkLost ==
    /\ link \in Networks \ air
    /\ Len(events) < MaxEvents
    /\ link' = "down"
    /\ Post("DISCONNECTED")
    /\ UNCHANGED <<saved, flags, timer, misc, pc, mode, target, air>>

AirChanges(n) ==
    /\ air' = IF n \in air THEN air \ {n} ELSE air \cup {n}
    /\ UNCHANGED <<saved, flags, timer, misc, pc, driver>>

----------------------------------------------------------------------------
(* start_ap, on main or sys_evt.                                           *)

ApActive(t) ==
    /\ At(t, "ap_active", "ap_connected")
    /\ s_ap_active' = TRUE
    /\ UNCHANGED <<saved, s_sta_connected, s_want_sta, s_retry, timer, misc, driver, air>>

ApConnected(t) ==
    /\ At(t, "ap_connected", "ap_want")
    /\ s_sta_connected' = FALSE
    /\ UNCHANGED <<saved, s_ap_active, s_want_sta, s_retry, timer, misc, driver, air>>

ApWant(t) ==
    /\ At(t, "ap_want", "ap_mode")
    /\ s_want_sta' = Saved
    /\ UNCHANGED <<saved, s_sta_connected, s_ap_active, s_retry, timer, misc, driver, air>>

End(t) == IF t = "main" THEN "done" ELSE "idle"

ApDns(t) ==
    /\ At(t, "ap_dns", IF s_want_sta /\ Saved THEN "ap_timer" ELSE End(t))
    /\ s_running' \in {~Saved, FALSE}
    /\ UNCHANGED <<saved, flags, timer, joined_bit, setup_open, driver, air>>

(* start_sta_retry_timer: the test for NULL, the creation, the start.      *)
ApTimer(t) ==
    Jump(t, "ap_timer", IF s_sta_retry_timer = 0 THEN "ap_create" ELSE "ap_start")

ApCreate(t) ==
    /\ At(t, "ap_create", "ap_start")
    /\ s_sta_retry_timer' = s_sta_retry_timer + 1
    /\ UNCHANGED <<saved, flags, running, misc, driver, air>>

ApStart(t) ==
    /\ At(t, "ap_start", End(t))
    /\ running' = running \cup {s_sta_retry_timer}
    /\ UNCHANGED <<saved, flags, s_sta_retry_timer, misc, driver, air>>

StartAp(t) ==
    \/ ApActive(t) \/ ApConnected(t) \/ ApWant(t)
    \/ CallSetMode(t, "ap_mode", "ap_dns", "apsta")
    \/ ApDns(t) \/ ApTimer(t) \/ ApCreate(t) \/ ApStart(t)

----------------------------------------------------------------------------
(* network_init.  Nothing else runs before start_sta has started the       *)
(* driver, so start_sta is one step.                                       *)

BootSta ==
    /\ At("main", "init", "wait")
    /\ Saved
    /\ s_ap_active' = FALSE
    /\ s_want_sta' = TRUE
    /\ s_retry' = 0
    /\ joined_bit' = FALSE
    /\ mode' = "sta"
    /\ target' = wifi_ssid
    /\ Post("STA_START")
    /\ UNCHANGED <<saved, s_sta_connected, timer, setup_open, s_running, link, air>>

BootAp == ~Saved /\ Jump("main", "init", "ap_active")

(* The wait of 25 s ends with the bit, or at any time.                     *)
BootWait == Jump("main", "wait", IF joined_bit THEN "done" ELSE "ap_active")

----------------------------------------------------------------------------
(* on_wifi and on_ip.                                                      *)

Take(event, next) ==
    /\ events # <<>> /\ Head(events) = event
    /\ events' = Tail(events)
    /\ At("sys_evt", "idle", next)
    /\ UNCHANGED <<mode, target, link>>

OnStaStart ==
    /\ Take("STA_START", IF s_want_sta /\ ~s_ap_active THEN "connect" ELSE "idle")
    /\ UNCHANGED <<saved, flags, timer, misc, air>>

OnDisconnected ==
    /\ Take("DISCONNECTED", "lost")
    /\ s_sta_connected' = FALSE
    /\ UNCHANGED <<saved, s_ap_active, s_want_sta, s_retry, timer, misc, air>>

Ignore == (~s_want_sta \/ s_ap_active) /\ Jump("sys_evt", "lost", "idle")

(* Slip: it never gives up.                                                *)
ReconnectForever ==
    /\ s_want_sta /\ ~s_ap_active
    /\ s_retry' = s_retry + 1
    /\ At("sys_evt", "lost", "connect")
    /\ UNCHANGED <<saved, s_sta_connected, s_ap_active, s_want_sta, timer, misc, driver,
                   air>>

Reconnect ==
    /\ s_want_sta /\ ~s_ap_active
    /\ s_retry < FailBeforeAp
    /\ s_retry' = s_retry + 1
    /\ At("sys_evt", "lost", "connect")
    /\ UNCHANGED <<saved, s_sta_connected, s_ap_active, s_want_sta, timer, misc, driver,
                   air>>

GiveUp ==
    /\ s_want_sta /\ ~s_ap_active
    /\ s_retry >= FailBeforeAp
    /\ Jump("sys_evt", "lost", "ap_active")

(* Slip: that the SoftAP has started is not noted.                         *)
OnApStartIgnored ==
    /\ Take("AP_START", "idle")
    /\ UNCHANGED <<saved, flags, timer, misc, air>>

OnApStart ==
    /\ Take("AP_START", "idle")
    /\ s_ap_active' = TRUE
    /\ UNCHANGED <<saved, s_sta_connected, s_want_sta, s_retry, timer, misc, air>>

OnApStop ==
    /\ Take("AP_STOP", "idle")
    /\ s_ap_active' = FALSE
    /\ UNCHANGED <<saved, s_sta_connected, s_want_sta, s_retry, timer, misc, air>>

OnGotIp ==
    /\ Take("GOT_IP", "ip_connected")
    /\ s_retry' = 0
    /\ UNCHANGED <<saved, s_sta_connected, s_ap_active, s_want_sta, timer, misc, air>>

IpConnected ==
    /\ At("sys_evt", "ip_connected", "ip_timer")
    /\ s_sta_connected' = TRUE
    /\ UNCHANGED <<saved, s_ap_active, s_want_sta, s_retry, timer, misc, driver, air>>

(* stop_sta_retry_timer and captive_dns_stop.                              *)
StopTimer == running' = running \ {s_sta_retry_timer} /\ UNCHANGED s_sta_retry_timer

StopTimerAt(t, here, next) ==
    /\ At(t, here, next)
    /\ StopTimer
    /\ UNCHANGED <<saved, flags, misc, driver, air>>

StopDnsAt(t, here, next) ==
    /\ At(t, here, next)
    /\ s_running' = FALSE
    /\ UNCHANGED <<saved, flags, timer, joined_bit, setup_open, driver, air>>

LeaveAp(t, here, next) ==
    /\ At(t, here, next)
    /\ s_ap_active' = FALSE
    /\ UNCHANGED <<saved, s_sta_connected, s_want_sta, s_retry, timer, misc, driver, air>>

IpBit ==
    /\ At("sys_evt", "ip_bit", "idle")
    /\ joined_bit' = TRUE
    /\ UNCHANGED <<saved, flags, timer, setup_open, s_running, driver, air>>

OnIp ==
    \/ IpConnected
    \/ StopTimerAt("sys_evt", "ip_timer", "ip_dns")
    \/ StopDnsAt("sys_evt", "ip_dns", "ip_active")
    \/ LeaveAp("sys_evt", "ip_active", "ip_mode")
    \/ CallSetMode("sys_evt", "ip_mode", "ip_bit", "sta")
    \/ IpBit

----------------------------------------------------------------------------
(* sta_retry_timer_cb.                                                     *)

RetryConnected ==
    /\ running # {} /\ s_sta_connected
    /\ At("esp_timer", "idle", "idle")
    /\ StopTimer
    /\ UNCHANGED <<saved, flags, misc, driver, air>>

(* Slip: no retry while the SoftAP is on, as in on_wifi.                   *)
RetryDueWithoutAp ==
    /\ running # {} /\ ~s_sta_connected /\ s_want_sta /\ Saved /\ ~setup_open
    /\ ~s_ap_active
    /\ Jump("esp_timer", "idle", "connect")

RetryDue ==
    /\ running # {} /\ ~s_sta_connected /\ s_want_sta /\ Saved /\ ~setup_open
    /\ Jump("esp_timer", "idle", "connect")

----------------------------------------------------------------------------
(* The HTTP handlers.  A request comes in over the joined network or the   *)
(* SoftAP.                                                                 *)

Request ==
    /\ pc["main"] = "done" /\ pc["httpd"] = "idle"
    /\ link \in Networks \/ mode = "apsta"

(* network_note_setup_activity; the status page polls it.                  *)
NoteActivity == setup_open' = (setup_open \/ (s_ap_active /\ ~s_sta_connected))

Poll ==
    /\ Request
    /\ NoteActivity
    /\ UNCHANGED <<saved, flags, timer, joined_bit, s_running, pc, driver, air>>

(* WIFI_SETUP_PAGE_OPEN_MS after the last of them.                         *)
PageClosed ==
    /\ setup_open
    /\ setup_open' = FALSE
    /\ UNCHANGED <<saved, flags, timer, joined_bit, s_running, pc, driver, air>>

(* handle_config_post, which may fail to save.                             *)
ImportConfig(ssid) ==
    /\ Request
    /\ wifi_ssid' = ssid
    /\ flash' \in {flash, ssid}
    /\ UNCHANGED <<flags, timer, misc, pc, driver, air>>

(* handle_wifi_connect with network_save_and_connect.                      *)
SaveFails(ssid) ==
    /\ Request
    /\ NoteActivity
    /\ wifi_ssid' = ssid
    /\ UNCHANGED <<flash, flags, timer, joined_bit, s_running, pc, driver, air>>

SaveAndConnect(ssid) ==
    /\ Request
    /\ NoteActivity
    /\ wifi_ssid' = ssid
    /\ flash' = ssid
    /\ s_retry' = 0
    /\ s_want_sta' = TRUE
    /\ Goto("httpd", "save_timer")
    /\ UNCHANGED <<s_sta_connected, s_ap_active, timer, joined_bit, s_running, driver, air>>

Configure(here, next) ==
    /\ At("httpd", here, next)
    /\ target' = wifi_ssid
    /\ UNCHANGED <<saved, flags, timer, misc, mode, link, events, air>>

(* handle_wifi_retry with network_retry_saved_sta.                         *)
RetrySaved ==
    /\ Request
    /\ NoteActivity
    /\ Saved
    /\ s_want_sta' = TRUE
    /\ s_retry' = 0
    /\ Goto("httpd", IF s_ap_active THEN "retry_mode" ELSE "retry_config")
    /\ UNCHANGED <<saved, s_sta_connected, s_ap_active, timer, joined_bit, s_running,
                   driver, air>>

Handler ==
    \/ StopTimerAt("httpd", "save_timer", "save_dns")
    \/ StopDnsAt("httpd", "save_dns", "save_mode")
    \/ CallSetMode("httpd", "save_mode", "save_config", "sta")
    \/ Configure("save_config", "save_active")
    \/ LeaveAp("httpd", "save_active", "connect")
    \/ CallSetMode("httpd", "retry_mode", "retry_config", "apsta")
    \/ Configure("retry_config", "connect")

----------------------------------------------------------------------------
Main == BootSta \/ BootAp \/ BootWait \/ StartAp("main")

SysEvt ==
    \/ OnStaStart \/ OnDisconnected \/ Ignore \/ Reconnect \/ GiveUp
    \/ OnApStart \/ OnApStop \/ OnGotIp \/ OnIp
    \/ StartAp("sys_evt") \/ CallConnect("sys_evt")

EspTimer == RetryConnected \/ RetryDue \/ CallConnect("esp_timer")

Httpd == Handler \/ CallConnect("httpd")

Requests ==
    \/ Poll \/ RetrySaved
    \/ \E ssid \in Networks : SaveFails(ssid) \/ SaveAndConnect(ssid)
    \/ \E ssid \in Networks \cup {NoSsid} : ImportConfig(ssid)

Radio == JoinEnds \/ LinkLost

Next ==
    \/ Main \/ SysEvt \/ EspTimer \/ Httpd \/ Requests \/ Radio \/ PageClosed \/ Restart
    \/ \E n \in Networks : AirChanges(n)

Fairness ==
    /\ WF_vars(Main) /\ WF_vars(SysEvt) /\ WF_vars(EspTimer) /\ WF_vars(Httpd)
    /\ WF_vars(Radio)

Spec == Init /\ [][Next]_vars /\ Fairness
SafetySpec == Init /\ [][Next]_vars

----------------------------------------------------------------------------
(* Properties.                                                             *)

(* The variables keep to their ranges: attempts are counted up to          *)
(* WIFI_STA_FAIL_BEFORE_AP, and no more than two timers are ever created.  *)
TypeOK ==
    /\ {flash, wifi_ssid, target} \subseteq Networks \cup {NoSsid}
    /\ {s_sta_connected, s_ap_active, s_want_sta, joined_bit, setup_open, s_running}
         \subseteq BOOLEAN
    /\ s_retry \in 0..FailBeforeAp
    /\ s_sta_retry_timer \in {0} \cup Timers
    /\ running \subseteq Timers
    /\ mode \in {"null", "sta", "apsta"}
    /\ link \in {"down", "joining"} \cup Networks
    /\ events \in Seq({"STA_START", "AP_START", "AP_STOP", "GOT_IP", "DISCONNECTED"})

Settled ==
    /\ events = <<>>
    /\ link # "joining"
    /\ \A t \in Tasks : pc[t] \in {"idle", "done"}

(* When all is handled, the flags say what the driver does, whichever task *)
(* has written them last: the API's "setup mode" and the captive portal    *)
(* exist only with the SoftAP.                                             *)
ApFlagAgrees ==
    Settled => (s_ap_active <=> mode = "apsta") /\ (s_running => s_ap_active)

(* The SoftAP is on with its retry timer, and the network of the station   *)
(* would let the device in.                                                *)
Hoping ==
    /\ mode = "apsta" /\ running # {}
    /\ s_want_sta /\ Saved /\ target \in air
    /\ ~setup_open

(* "the board retries home Wi-Fi every 30 seconds unless the setup page is *)
(* open" (README.md:60): a device does not stay in the SoftAP, hoping, for *)
(* ever.                                                                   *)
Rejoins == <>[]Hoping => []<>(link \in Networks)

(* "If STA Wi-Fi fails repeatedly, SoftAP opens again for recovery         *)
(* (important once the board is sealed in a PC)" (README.md:60): a device  *)
(* that is on no network and tries none has the SoftAP on.                 *)
Reachable == Settled => link \in Networks \/ mode = "apsta"
============================================================================
