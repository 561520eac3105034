---------------------------- MODULE NetworkProofs ----------------------------
(***************************************************************************)
(* Proofs about Network, for every set of networks, every number of        *)
(* attempts before the SoftAP and every length of the event queue.         *)
(***************************************************************************)
EXTENDS Network, TLAPS

----------------------------------------------------------------------------
(* Type correctness.  main and sys_evt may both find that there is no      *)
(* timer and both create one, but then neither looks again.                *)

Ssid == Networks \cup {NoSsid}
Event == {"STA_START", "AP_START", "AP_STOP", "GOT_IP", "DISCONNECTED"}

ApEarly == {"ap_connected", "ap_want", "ap_mode"}
ApLabel == {"ap_active", "ap_dns", "ap_timer", "ap_create", "ap_start"} \cup ApEarly
IpEarly == {"ip_connected", "ip_timer", "ip_dns"}
IpLabel == {"ip_active", "ip_mode", "ip_bit"} \cup IpEarly
SaveLate == {"save_config", "save_active"}

MainLabel == {"init", "wait", "done"} \cup ApLabel
SysEvtLabel == {"idle", "connect", "lost"} \cup ApLabel \cup IpLabel
EspTimerLabel == {"idle", "connect"}
HttpdLabel == {"idle", "save_timer", "save_dns", "save_mode", "retry_mode",
               "retry_config", "connect"} \cup SaveLate

Label == MainLabel \cup SysEvtLabel \cup EspTimerLabel \cup HttpdLabel

ApTask == {"main", "sys_evt"}

FlagType ==
    /\ s_sta_connected \in BOOLEAN /\ s_ap_active \in BOOLEAN
    /\ s_want_sta \in BOOLEAN
    /\ joined_bit \in BOOLEAN /\ setup_open \in BOOLEAN /\ s_running \in BOOLEAN

DriverType ==
    /\ flash \in Ssid /\ wifi_ssid \in Ssid /\ target \in Ssid
    /\ mode \in {"null", "sta", "apsta"}
    /\ link \in {"down", "joining"} \cup Networks
    /\ events \in Seq(Event)
    /\ air \subseteq Networks

RetryType == s_retry \in 0 .. FailBeforeAp

PcType ==
    /\ pc \in [Tasks -> Label]
    /\ pc["main"] \in MainLabel
    /\ pc["sys_evt"] \in SysEvtLabel
    /\ pc["esp_timer"] \in EspTimerLabel
    /\ pc["httpd"] \in HttpdLabel

TimerType ==
    /\ s_sta_retry_timer \in {0, 1, 2}
    /\ running \subseteq {1, 2}
    /\ \A t \in ApTask : /\ pc[t] = "ap_start" => s_sta_retry_timer # 0
                         /\ pc[t] = "ap_create" => s_sta_retry_timer # 2
    /\ s_sta_retry_timer = 1 =>
           ~(pc["main"] = "ap_create" /\ pc["sys_evt"] = "ap_create")

TypeInv == FlagType /\ RetryType /\ DriverType /\ PcType /\ TimerType

LEMMA BootPc ==
  ASSUME pc' = [t \in Tasks |-> IF t = "main" THEN "init" ELSE "idle"]
  PROVE  /\ pc' \in [Tasks -> Label]
         /\ pc'["main"] = "init"
         /\ \A t \in {"sys_evt", "esp_timer", "httpd"} : pc'[t] = "idle"
  BY DEF Tasks, Label, MainLabel, SysEvtLabel

LEMMA GotoType ==
  ASSUME PcType, NEW t \in Tasks, NEW next \in Label, Goto(t, next)
  PROVE  /\ pc' \in [Tasks -> Label] /\ pc'[t] = next
         /\ \A u \in Tasks : u # t => pc'[u] = pc[u]
  BY DEF PcType, Goto

LEMMA InitType == Init => TypeInv
  <1> SUFFICES ASSUME Init PROVE TypeInv
    OBVIOUS
  <1>1. FlagType
    BY DEF Init, FlagType
  <1>2. DriverType
    BY DEF Init, DriverType, Ssid
  <1>3. PcType /\ TimerType
    BY DEF Init, PcType, TimerType, Tasks, ApTask, Label, MainLabel, SysEvtLabel,
           EspTimerLabel, HttpdLabel
  <1>4. RetryType
    BY NetworkAssumption DEF Init, RetryType
  <1>5. QED
    BY <1>1, <1>2, <1>3, <1>4 DEF TypeInv

LEMMA RestartType == ASSUME TypeInv, Restart PROVE TypeInv'
  <1>1. FlagType'
    BY DEF Restart, FlagType
  <1>2. DriverType'
    BY DEF Restart, TypeInv, DriverType, Ssid
  <1>3. PcType' /\ TimerType'
    BY BootPc
    DEF Restart, PcType, TimerType, Tasks, ApTask, MainLabel, SysEvtLabel,
        EspTimerLabel, HttpdLabel
  <1>4. RetryType'
    BY NetworkAssumption DEF Restart, RetryType
  <1>5. QED
    BY <1>1, <1>2, <1>3, <1>4 DEF TypeInv

LEMMA SetModeType ==
  ASSUME TypeInv, NEW new \in {"sta", "apsta"}, SetMode(new)
  PROVE  mode' = new /\ events' \in Seq(Event) /\ UNCHANGED <<target, link>>
  <1>1. events \in Seq(Event)
    BY DEF TypeInv, DriverType
  <1>2. mode = "null" => events' = events \o <<"STA_START", "AP_START">>
    BY DEF SetMode
  <1>3. mode = "sta" /\ new = "apsta" => events' = events \o <<"AP_START">>
    BY DEF SetMode
  <1>4. mode = "apsta" /\ new = "sta" => events' = events \o <<"AP_STOP">>
    BY DEF SetMode
  <1>5. mode # "null" /\ mode = new => events' = events \o <<>>
    BY DEF SetMode
  <1>6. {<<"STA_START", "AP_START">>, <<"AP_START">>, <<"AP_STOP">>, <<>>}
          \subseteq Seq(Event)
    BY DEF Event
  <1>7. mode \in {"null", "sta", "apsta"}
    BY DEF TypeInv, DriverType
  <1>8. QED
    BY <1>1, <1>2, <1>3, <1>4, <1>5, <1>6, <1>7 DEF SetMode

LEMMA PostType ==
  ASSUME TypeInv, NEW event \in Event, Post(event)
  PROVE  events' \in Seq(Event)
  BY DEF Post, TypeInv, DriverType

LEMMA StartApType ==
  ASSUME TypeInv, NEW t \in ApTask, StartAp(t)
  PROVE  TypeInv'
  <1>1. t \in Tasks /\ pc[t] \in ApLabel
    BY DEF ApTask, Tasks, StartAp, ApActive, ApConnected, ApWant, CallSetMode,
           ApDns, ApTimer, ApCreate, ApStart, Jump, At, ApLabel, ApEarly
  <1>2. FlagType'
    BY DEF TypeInv, FlagType, StartAp, ApActive, ApConnected, ApWant, CallSetMode,
           ApDns, ApTimer, ApCreate, ApStart, Jump, Saved, flags, misc
  <1>3. DriverType'
    BY SetModeType
    DEF TypeInv, DriverType, StartAp, ApActive, ApConnected, ApWant, CallSetMode,
        ApDns, ApTimer, ApCreate, ApStart, Jump, saved, driver
  <1>4. PcType' /\ TimerType'
    <2>1. \A u \in ApTask : u \in Tasks
      BY DEF ApTask, Tasks
    <2>2. CASE \/ ApActive(t) \/ ApConnected(t) \/ ApWant(t) \/ ApDns(t)
               \/ CallSetMode(t, "ap_mode", "ap_dns", "apsta")
      <3>1. PICK next \in {"ap_connected", "ap_want", "ap_mode", "ap_dns",
                          "ap_timer", End(t)} : Goto(t, next)
        BY <2>2 DEF ApActive, ApConnected, ApWant, ApDns, CallSetMode, At
      <3>2. UNCHANGED timer
        BY <2>2 DEF ApActive, ApConnected, ApWant, ApDns, CallSetMode
      <3>3. QED
        BY <1>1, <3>1, <3>2, GotoType
        DEF TypeInv, PcType, TimerType, ApTask, Tasks, End, timer, Label,
            MainLabel, SysEvtLabel, ApLabel, ApEarly
    <2>3. ASSUME NEW next \in {"ap_create", "ap_start", End(t)}, Goto(t, next)
          PROVE  /\ PcType' /\ pc'[t] = next
                 /\ \A u \in ApTask : u # t => pc'[u] = pc[u]
      BY <1>1, <2>1, <2>3, GotoType
      DEF TypeInv, PcType, ApTask, Tasks, End, Label, MainLabel, SysEvtLabel,
          ApLabel, ApEarly
    <2>4. CASE ApTimer(t)
      <3>1. /\ pc[t] = "ap_timer" /\ UNCHANGED timer
            /\ Goto(t, IF s_sta_retry_timer = 0 THEN "ap_create" ELSE "ap_start")
        BY <2>4 DEF ApTimer, Jump, At
      <3>2. QED
        BY <2>3, <3>1 DEF TypeInv, TimerType, ApTask, timer
    <2>5. CASE ApCreate(t)
      <3>1. /\ pc[t] = "ap_create" /\ Goto(t, "ap_start") /\ UNCHANGED running
            /\ s_sta_retry_timer' = s_sta_retry_timer + 1
        BY <2>5 DEF ApCreate, At
      <3>2. QED
        BY <2>3, <3>1 DEF TypeInv, TimerType, ApTask
    <2>6. CASE ApStart(t)
      <3>1. /\ pc[t] = "ap_start" /\ Goto(t, End(t)) /\ UNCHANGED s_sta_retry_timer
            /\ running' = running \cup {s_sta_retry_timer}
        BY <2>6 DEF ApStart, At
      <3>2. QED
        BY <2>3, <3>1 DEF TypeInv, TimerType, ApTask, End
    <2>7. QED
      BY <2>2, <2>4, <2>5, <2>6 DEF StartAp
  <1>5. RetryType'
    BY DEF TypeInv, RetryType, StartAp, ApActive, ApConnected, ApWant, CallSetMode,
           ApDns, ApTimer, ApCreate, ApStart, Jump, flags
  <1>6. QED
    BY <1>2, <1>3, <1>4, <1>5 DEF TypeInv

(* A step that leaves the timer alone and goes to no label of the timer.   *)
LEMMA PlainType ==
  ASSUME TypeInv, NEW t \in Tasks, NEW next, Goto(t, next),
         next \notin {"ap_create", "ap_start"}, timer' = timer \/ StopTimer,
         \/ t = "main" /\ next \in MainLabel
         \/ t = "sys_evt" /\ next \in SysEvtLabel
         \/ t = "esp_timer" /\ next \in EspTimerLabel
         \/ t = "httpd" /\ next \in HttpdLabel
  PROVE  PcType' /\ TimerType'
  <1>1. /\ pc' \in [Tasks -> Label] /\ pc'[t] = next
        /\ \A u \in Tasks : u # t => pc'[u] = pc[u]
    BY GotoType DEF TypeInv, Label
  <1>2. PcType'
    BY <1>1 DEF TypeInv, PcType, Tasks
  <1>3. TimerType'
    BY <1>1 DEF TypeInv, TimerType, StopTimer, timer, Tasks, ApTask
  <1>4. QED
    BY <1>2, <1>3

(* A step of no task, or one that ends where it began.                     *)
LEMMA StillType ==
  ASSUME TypeInv, UNCHANGED <<pc, timer>>
  PROVE  PcType' /\ TimerType'
  BY DEF TypeInv, PcType, TimerType, timer

LEMMA BootType ==
  ASSUME TypeInv, BootSta \/ BootAp \/ BootWait
  PROVE  TypeInv'
  <1>1. FlagType'
    BY DEF TypeInv, FlagType, BootSta, BootAp, BootWait, Jump, flags, misc
  <1>2. RetryType'
    BY NetworkAssumption
    DEF TypeInv, RetryType, BootSta, BootAp, BootWait, Jump, flags
  <1>3. DriverType'
    BY PostType DEF TypeInv, DriverType, BootSta, BootAp, BootWait, Jump, saved,
                    driver, Event
  <1>4. PICK next \in {"wait", "ap_active", "done"} : Goto("main", next)
    BY DEF BootSta, BootAp, BootWait, Jump, At
  <1>5. UNCHANGED timer
    BY DEF BootSta, BootAp, BootWait, Jump
  <1>6. PcType' /\ TimerType'
    BY <1>4, <1>5, PlainType DEF Tasks, MainLabel, ApLabel
  <1>7. QED
    BY <1>1, <1>2, <1>3, <1>6 DEF TypeInv

SysEvtOwn ==
    \/ OnStaStart \/ OnDisconnected \/ Ignore \/ Reconnect \/ GiveUp
    \/ OnApStart \/ OnApStop \/ OnGotIp \/ OnIp \/ CallConnect("sys_evt")

LEMMA SysEvtType ==
  ASSUME TypeInv, SysEvtOwn
  PROVE  TypeInv'
  <1>1. FlagType'
    BY DEF TypeInv, FlagType, SysEvtOwn, OnStaStart, OnDisconnected, Ignore,
           Reconnect, GiveUp, OnApStart, OnApStop, OnGotIp, OnIp, CallConnect,
           IpConnected, StopTimerAt, StopDnsAt, LeaveAp, CallSetMode, IpBit, Jump,
           flags, misc
  <1>2. RetryType'
    BY NetworkAssumption
    DEF TypeInv, RetryType, SysEvtOwn, OnStaStart, OnDisconnected, Ignore,
        Reconnect, GiveUp, OnApStart, OnApStop, OnGotIp, OnIp, CallConnect,
        IpConnected, StopTimerAt, StopDnsAt, LeaveAp, CallSetMode, IpBit, Jump,
        flags
  <1>3. DriverType'
    <2>1. CASE CallSetMode("sys_evt", "ip_mode", "ip_bit", "sta")
      BY <2>1, SetModeType DEF CallSetMode, TypeInv, DriverType, saved
    <2>2. CASE events # <<>> /\ events' = Tail(events)
               /\ UNCHANGED <<mode, target, link, saved, air>>
      BY <2>2 DEF TypeInv, DriverType, saved
    <2>3. CASE link' \in {"joining", link}
               /\ UNCHANGED <<mode, target, events, saved, air>>
      BY <2>3 DEF TypeInv, DriverType, saved
    <2>4. QED
      BY <2>1, <2>2, <2>3
      DEF SysEvtOwn, OnStaStart, OnDisconnected, Ignore, Reconnect, GiveUp,
          OnApStart, OnApStop, OnGotIp, OnIp, CallConnect, Connect, IpConnected,
          StopTimerAt, StopDnsAt, LeaveAp, IpBit, Jump, Take, driver
  <1>4. PICK next \in SysEvtLabel \ {"ap_create", "ap_start"} :
            Goto("sys_evt", next)
    BY DEF SysEvtOwn, OnStaStart, OnDisconnected, Ignore, Reconnect, GiveUp,
           OnApStart, OnApStop, OnGotIp, OnIp, CallConnect, IpConnected,
           StopTimerAt, StopDnsAt, LeaveAp, CallSetMode, IpBit, Jump, Take, At,
           SysEvtLabel, ApLabel, IpLabel, IpEarly
  <1>5. timer' = timer \/ StopTimer
    BY DEF SysEvtOwn, OnStaStart, OnDisconnected, Ignore, Reconnect, GiveUp,
           OnApStart, OnApStop, OnGotIp, OnIp, CallConnect, IpConnected,
           StopTimerAt, StopDnsAt, LeaveAp, CallSetMode, IpBit, Jump
  <1>6. PcType' /\ TimerType'
    BY <1>4, <1>5, PlainType DEF Tasks
  <1>7. QED
    BY <1>1, <1>2, <1>3, <1>6 DEF TypeInv

LEMMA EspTimerType ==
  ASSUME TypeInv, EspTimer
  PROVE  TypeInv'
  <1>1. FlagType' /\ RetryType'
    BY DEF TypeInv, FlagType, RetryType, EspTimer, RetryConnected, RetryDue,
           CallConnect, Jump, flags, misc
  <1>2. DriverType'
    BY DEF TypeInv, DriverType, EspTimer, RetryConnected, RetryDue, CallConnect,
           Connect, Jump, saved, driver
  <1>3. PICK next \in {"idle", "connect"} : Goto("esp_timer", next)
    BY DEF EspTimer, RetryConnected, RetryDue, CallConnect, Jump, At
  <1>4. timer' = timer \/ StopTimer
    BY DEF EspTimer, RetryConnected, RetryDue, CallConnect, Jump
  <1>5. PcType' /\ TimerType'
    BY <1>3, <1>4, PlainType DEF Tasks, EspTimerLabel
  <1>6. QED
    BY <1>1, <1>2, <1>5 DEF TypeInv

LEMMA HttpdType ==
  ASSUME TypeInv, Httpd
  PROVE  TypeInv'
  <1>1. FlagType' /\ RetryType'
    BY DEF TypeInv, FlagType, RetryType, Httpd, Handler, CallConnect, StopTimerAt,
           StopDnsAt, CallSetMode, Configure, LeaveAp, flags, misc
  <1>2. DriverType'
    <2>1. CASE \/ CallSetMode("httpd", "save_mode", "save_config", "sta")
               \/ CallSetMode("httpd", "retry_mode", "retry_config", "apsta")
      BY <2>1, SetModeType DEF CallSetMode, TypeInv, DriverType, saved
    <2>2. CASE ~(\/ CallSetMode("httpd", "save_mode", "save_config", "sta")
                 \/ CallSetMode("httpd", "retry_mode", "retry_config", "apsta"))
      BY <2>2
      DEF TypeInv, DriverType, Httpd, Handler, CallConnect, Connect, StopTimerAt,
          StopDnsAt, Configure, LeaveAp, saved, driver
    <2>3. QED
      BY <2>1, <2>2
  <1>3. PICK next \in HttpdLabel : Goto("httpd", next)
    BY DEF Httpd, Handler, CallConnect, StopTimerAt, StopDnsAt, CallSetMode,
           Configure, LeaveAp, At, HttpdLabel, SaveLate
  <1>4. timer' = timer \/ StopTimer
    BY DEF Httpd, Handler, CallConnect, StopTimerAt, StopDnsAt, CallSetMode,
           Configure, LeaveAp
  <1>5. PcType' /\ TimerType'
    BY <1>3, <1>4, PlainType DEF Tasks, HttpdLabel, SaveLate
  <1>6. QED
    BY <1>1, <1>2, <1>5 DEF TypeInv

LEMMA RequestsType ==
  ASSUME TypeInv, Requests
  PROVE  TypeInv'
  <1>1. FlagType'
    BY DEF TypeInv, FlagType, Requests, Poll, RetrySaved, SaveFails,
           SaveAndConnect, ImportConfig, NoteActivity, flags, misc
  <1>2. RetryType'
    BY NetworkAssumption
    DEF TypeInv, RetryType, Requests, Poll, RetrySaved, SaveFails, SaveAndConnect,
        ImportConfig, flags
  <1>3. DriverType'
    BY DEF TypeInv, DriverType, Requests, Poll, RetrySaved, SaveFails,
           SaveAndConnect, ImportConfig, Ssid, saved, driver
  <1>4. UNCHANGED timer
    BY DEF Requests, Poll, RetrySaved, SaveFails, SaveAndConnect, ImportConfig
  <1>5. UNCHANGED pc \/ \E next \in {"save_timer", "retry_mode", "retry_config"} :
                            Goto("httpd", next)
    BY DEF Requests, Poll, RetrySaved, SaveFails, SaveAndConnect, ImportConfig
  <1>6. PcType' /\ TimerType'
    BY <1>4, <1>5, StillType, PlainType DEF Tasks, HttpdLabel
  <1>7. QED
    BY <1>1, <1>2, <1>3, <1>6 DEF TypeInv

LEMMA AirType ==
  ASSUME TypeInv, Radio \/ PageClosed \/ \E n \in Networks : AirChanges(n)
  PROVE  TypeInv'
  <1>1. FlagType' /\ RetryType'
    BY DEF TypeInv, FlagType, RetryType, Radio, JoinEnds, LinkLost, PageClosed,
           AirChanges, flags, misc
  <1>2. DriverType'
    <2>1. CASE JoinEnds
      BY <2>1, PostType DEF JoinEnds, TypeInv, DriverType, Event, saved
    <2>2. CASE LinkLost
      BY <2>2, PostType DEF LinkLost, TypeInv, DriverType, Event, saved
    <2>3. CASE PageClosed \/ \E n \in Networks : AirChanges(n)
      BY <2>3 DEF PageClosed, AirChanges, TypeInv, DriverType, saved, driver
    <2>4. QED
      BY <2>1, <2>2, <2>3 DEF Radio
  <1>3. PcType' /\ TimerType'
    BY StillType DEF Radio, JoinEnds, LinkLost, PageClosed, AirChanges
  <1>4. QED
    BY <1>1, <1>2, <1>3 DEF TypeInv

LEMMA TypeInvCorrect == SafetySpec => []TypeInv
  <1>1. TypeInv /\ [Next]_vars => TypeInv'
    <2> SUFFICES ASSUME TypeInv, [Next]_vars PROVE TypeInv'
      OBVIOUS
    <2>1. CASE UNCHANGED vars
      BY <2>1 DEF vars, TypeInv, FlagType, RetryType, DriverType, PcType, TimerType
    <2>2. CASE Main
      BY <2>2, BootType, StartApType DEF Main, ApTask
    <2>3. CASE SysEvt
      BY <2>3, SysEvtType, StartApType DEF SysEvt, SysEvtOwn, ApTask
    <2>4. QED
      BY <2>1, <2>2, <2>3, EspTimerType, HttpdType, RequestsType, AirType,
         RestartType DEF Next
  <1>2. QED
    BY <1>1, InitType, PTL DEF SafetySpec

(* Every variable keeps to its range: attempts are not counted beyond      *)
(* WIFI_STA_FAIL_BEFORE_AP, and however the two tasks that run start_ap    *)
(* interleave, no third timer is created.                                  *)
THEOREM TypeCorrect == SafetySpec => []TypeOK
  <1>1. TypeInv => TypeOK
    BY DEF TypeInv, FlagType, RetryType, DriverType, TimerType, TypeOK, Timers, Ssid,
           Event
  <1>2. QED
    BY <1>1, TypeInvCorrect, PTL

----------------------------------------------------------------------------
(* The event queue.  What matters about it is which events are in it, and  *)
(* that one is followed by another that makes up for it.                   *)

Pending(s, e) == \E i \in DOMAIN s : s[i] = e

Followed(s, e, f) ==
    \A i \in DOMAIN s : s[i] = e => \E j \in DOMAIN s : i < j /\ s[j] = f

LEMMA TailQueue ==
  ASSUME NEW s \in Seq(Event), s # <<>>
  PROVE  /\ Pending(s, Head(s))
         /\ \A e \in Event : Pending(Tail(s), e) => Pending(s, e)
         /\ \A e \in Event : e # Head(s) /\ Pending(s, e) => Pending(Tail(s), e)
         /\ \A e, f \in Event : Followed(s, e, f) => Followed(Tail(s), e, f)
         /\ \A f \in Event : Followed(s, Head(s), f) => Pending(Tail(s), f)
  <1>1. /\ Len(s) \in Nat \ {0} /\ DOMAIN s = 1 .. Len(s)
        /\ Tail(s) \in Seq(Event) /\ Len(Tail(s)) = Len(s) - 1
        /\ DOMAIN Tail(s) = 1 .. Len(s) - 1
        /\ \A i \in 1 .. Len(s) - 1 : Tail(s)[i] = s[i + 1]
        /\ Head(s) = s[1]
    OBVIOUS
  <1>2. \A i \in DOMAIN s : i # 1 => i - 1 \in DOMAIN Tail(s) /\ Tail(s)[i - 1] = s[i]
    BY <1>1
  <1>3. \A i \in DOMAIN Tail(s) : i + 1 \in DOMAIN s /\ Tail(s)[i] = s[i + 1]
    BY <1>1
  <1>4. Pending(s, Head(s))
    BY <1>1 DEF Pending
  <1>5. ASSUME NEW e \in Event, Pending(Tail(s), e) PROVE Pending(s, e)
    BY <1>3, <1>5 DEF Pending
  <1>6. ASSUME NEW e \in Event, e # Head(s), Pending(s, e) PROVE Pending(Tail(s), e)
    BY <1>1, <1>2, <1>6 DEF Pending
  <1>7. ASSUME NEW e \in Event, NEW f \in Event, Followed(s, e, f)
        PROVE  Followed(Tail(s), e, f)
    <2> SUFFICES ASSUME NEW i \in DOMAIN Tail(s), Tail(s)[i] = e
                 PROVE  \E j \in DOMAIN Tail(s) : i < j /\ Tail(s)[j] = f
      BY DEF Followed
    <2>1. i + 1 \in DOMAIN s /\ s[i + 1] = e /\ i \in Nat
      BY <1>1, <1>3
    <2>2. PICK j \in DOMAIN s : i + 1 < j /\ s[j] = f
      BY <1>7, <2>1 DEF Followed
    <2>3. j - 1 \in DOMAIN Tail(s) /\ Tail(s)[j - 1] = f /\ i < j - 1
      BY <1>1, <1>2, <2>1, <2>2
    <2>4. QED
      BY <2>3
  <1>8. ASSUME NEW f \in Event, Followed(s, Head(s), f) PROVE Pending(Tail(s), f)
    <2>1. 1 \in DOMAIN s /\ s[1] = Head(s)
      BY <1>1
    <2>2. PICK j \in DOMAIN s : 1 < j /\ s[j] = f
      BY <1>8, <2>1 DEF Followed
    <2>3. j - 1 \in DOMAIN Tail(s) /\ Tail(s)[j - 1] = f
      BY <1>2, <2>2
    <2>4. QED
      BY <2>3 DEF Pending
  <1>9. QED
    BY <1>4, <1>5, <1>6, <1>7, <1>8

LEMMA AppendQueue ==
  ASSUME NEW s \in Seq(Event), NEW x \in Event
  PROVE  /\ \A e \in Event : Pending(Append(s, x), e) <=> Pending(s, e) \/ e = x
         /\ \A e, f \in Event :
               e # x /\ Followed(s, e, f) => Followed(Append(s, x), e, f)
         /\ \A e \in Event : e # x => Followed(Append(s, x), e, x)
  <1>1. /\ Len(s) \in Nat /\ DOMAIN s = 1 .. Len(s)
        /\ DOMAIN Append(s, x) = 1 .. Len(s) + 1
        /\ \A i \in 1 .. Len(s) : Append(s, x)[i] = s[i]
        /\ Append(s, x)[Len(s) + 1] = x
    OBVIOUS
  <1>2. QED
    BY <1>1 DEF Pending, Followed

LEMMA EmptyQueue ==
  ASSUME NEW s, s = <<>>
  PROVE  \A e, f : ~Pending(s, e) /\ Followed(s, e, f)
  BY DEF Pending, Followed

LEMMA TakeStep ==
  ASSUME TypeInv, NEW e \in Event, NEW next, Take(e, next)
  PROVE  /\ Pending(events, e)
         /\ \A f \in Event : Pending(events, f)' => Pending(events, f)
         /\ \A f \in Event : f # e /\ Pending(events, f) => Pending(events, f)'
         /\ \A f, g \in Event : Followed(events, f, g) => Followed(events, f, g)'
         /\ \A g \in Event : Followed(events, e, g) => Pending(events, g)'
         /\ events # <<>> /\ UNCHANGED <<mode, target, link>>
         /\ pc["sys_evt"] = "idle" /\ Goto("sys_evt", next)
  <1>1. /\ events \in Seq(Event) /\ events # <<>> /\ Head(events) = e
        /\ events' = Tail(events)
        /\ UNCHANGED <<mode, target, link>>
        /\ pc["sys_evt"] = "idle" /\ Goto("sys_evt", next)
    BY DEF Take, At, TypeInv, DriverType
  <1>2. QED
    BY <1>1, TailQueue

LEMMA PostStep ==
  ASSUME TypeInv, NEW x \in Event, Post(x)
  PROVE  /\ \A f \in Event : Pending(events, f)' <=> Pending(events, f) \/ f = x
         /\ \A f, g \in Event :
               f # x /\ Followed(events, f, g) => Followed(events, f, g)'
         /\ \A f \in Event : f # x => Followed(events, f, x)'
  <1>1. events \in Seq(Event) /\ events' = Append(events, x)
    BY DEF Post, TypeInv, DriverType
  <1>2. QED
    BY <1>1, AppendQueue

(* A change of the driver's mode is reported; asking for the present mode  *)
(* changes nothing.                                                        *)
LEMMA SetModeStep ==
  ASSUME TypeInv, mode # "null", NEW new \in {"sta", "apsta"}, SetMode(new)
  PROVE  /\ mode' = new /\ UNCHANGED <<target, link>>
         /\ mode = new => UNCHANGED events
         /\ mode # new => Post(IF new = "apsta" THEN "AP_START" ELSE "AP_STOP")
  <1>1. events \in Seq(Event) /\ mode \in {"sta", "apsta"}
    BY DEF TypeInv, DriverType
  <1>2. mode = "sta" /\ new = "apsta" => events' = events \o <<"AP_START">>
    BY DEF SetMode
  <1>3. mode = "apsta" /\ new = "sta" => events' = events \o <<"AP_STOP">>
    BY DEF SetMode
  <1>4. mode = new => events' = events \o <<>>
    BY DEF SetMode
  <1>5. /\ events \o <<"AP_START">> = Append(events, "AP_START")
        /\ events \o <<"AP_STOP">> = Append(events, "AP_STOP")
        /\ events \o <<>> = events
    BY <1>1 DEF Event
  <1>6. QED
    BY <1>1, <1>2, <1>3, <1>4, <1>5 DEF SetMode, Post

LEMMA GotoPc ==
  ASSUME TypeInv, NEW t \in Tasks, NEW next, Goto(t, next)
  PROVE  pc'[t] = next /\ \A u \in Tasks : u # t => pc'[u] = pc[u]
  BY DEF TypeInv, PcType, Goto

----------------------------------------------------------------------------
(* The start.  Until network_init has started the driver nothing else      *)
(* happens, and until it is through there are no handlers of httpd.        *)

BootInv ==
    /\ pc["main"] = "init" => mode = "null"
    /\ mode = "null" =>
          /\ events = <<>> /\ link = "down" /\ running = {} /\ ~s_running
          /\ pc["sys_evt"] = "idle" /\ pc["esp_timer"] = "idle"
          /\ pc["main"] \in {"init", "ap_active"} \cup ApEarly
    /\ pc["httpd"] # "idle" => pc["main"] = "done" /\ Saved /\ s_want_sta

(* A step that leaves main, httpd, the saved network and s_want_sta alone, *)
(* and the driver started.                                                 *)
LEMMA BootFrame ==
  ASSUME BootInv, mode # "null", mode' # "null", UNCHANGED <<wifi_ssid, s_want_sta>>,
         pc'["main"] = pc["main"], pc'["httpd"] = pc["httpd"]
  PROVE  BootInv'
  BY DEF BootInv, Saved

LEMMA SysEvtRuns ==
  ASSUME TypeInv, BootInv, SysEvtOwn \/ StartAp("sys_evt")
  PROVE  mode # "null" /\ \E next : Goto("sys_evt", next)
  <1>1. \/ events # <<>> \/ pc["sys_evt"] # "idle"
    BY DEF SysEvtOwn, OnStaStart, OnDisconnected, Ignore, Reconnect, GiveUp,
           OnApStart, OnApStop, OnGotIp, OnIp, CallConnect, IpConnected,
           StopTimerAt, StopDnsAt, LeaveAp, CallSetMode, IpBit, Jump, Take, At,
           StartAp, ApActive, ApConnected, ApWant, ApDns, ApTimer, ApCreate,
           ApStart
  <1>2. \E next : Goto("sys_evt", next)
    BY DEF SysEvtOwn, OnStaStart, OnDisconnected, Ignore, Reconnect, GiveUp,
           OnApStart, OnApStop, OnGotIp, OnIp, CallConnect, IpConnected,
           StopTimerAt, StopDnsAt, LeaveAp, CallSetMode, IpBit, Jump, Take, At,
           StartAp, ApActive, ApConnected, ApWant, ApDns, ApTimer, ApCreate,
           ApStart
  <1>3. QED
    BY <1>1, <1>2 DEF BootInv

LEMMA SysEvtBoot ==
  ASSUME TypeInv, BootInv, SysEvtOwn \/ StartAp("sys_evt")
  PROVE  BootInv'
  <1>1. mode # "null" /\ pc'["main"] = pc["main"] /\ pc'["httpd"] = pc["httpd"]
    BY SysEvtRuns, GotoPc DEF Tasks
  <1>2. mode' # "null"
    BY <1>1
    DEF SysEvtOwn, OnStaStart, OnDisconnected, Ignore, Reconnect, GiveUp,
        OnApStart, OnApStop, OnGotIp, OnIp, CallConnect, IpConnected,
        StopTimerAt, StopDnsAt, LeaveAp, CallSetMode, IpBit, Jump, Take,
        StartAp, ApActive, ApConnected, ApWant, ApDns, ApTimer, ApCreate,
        ApStart, SetMode, driver
  <1>3. /\ UNCHANGED wifi_ssid
        /\ UNCHANGED s_want_sta \/ s_want_sta' = Saved
    BY DEF SysEvtOwn, OnStaStart, OnDisconnected, Ignore, Reconnect, GiveUp,
           OnApStart, OnApStop, OnGotIp, OnIp, CallConnect, IpConnected,
           StopTimerAt, StopDnsAt, LeaveAp, CallSetMode, IpBit, Jump,
           StartAp, ApActive, ApConnected, ApWant, ApDns, ApTimer, ApCreate,
           ApStart, saved, flags
  <1>4. QED
    BY <1>1, <1>2, <1>3 DEF BootInv, Saved

LEMMA MainBoot ==
  ASSUME TypeInv, BootInv, Main
  PROVE  BootInv'
  <1>1. PICK next \in MainLabel \ {"init"} : Goto("main", next)
    BY DEF Main, BootSta, BootAp, BootWait, Jump, At, StartAp, ApActive,
           ApConnected, ApWant, CallSetMode, ApDns, ApTimer, ApCreate, ApStart, End,
           MainLabel, ApLabel, ApEarly
  <1>2. /\ pc'["main"] = next
        /\ \A t \in {"sys_evt", "esp_timer", "httpd"} : pc'[t] = pc[t]
    BY <1>1, GotoPc DEF Tasks
  <1>3. pc["main"] # "done"
    BY DEF Main, BootSta, BootAp, BootWait, Jump, At, StartAp, ApActive,
           ApConnected, ApWant, CallSetMode, ApDns, ApTimer, ApCreate, ApStart
  <1>4. pc["httpd"] = "idle"
    BY <1>3 DEF BootInv
  <1>5. \/ mode' # "null"
        \/ /\ UNCHANGED <<mode, events, link, running, s_running>>
           /\ mode = "null" => pc'["main"] \in {"ap_active"} \cup ApEarly
    <2>1. CASE BootSta \/ CallSetMode("main", "ap_mode", "ap_dns", "apsta")
      BY <2>1 DEF BootSta, CallSetMode, SetMode
    <2>2. CASE BootAp \/ ApActive("main") \/ ApConnected("main") \/ ApWant("main")
      <3>1. next \in {"ap_active"} \cup ApEarly
        BY <1>2, <2>2, GotoPc
        DEF BootAp, ApActive, ApConnected, ApWant, Jump, At, ApEarly, Tasks
      <3>2. QED
        BY <1>2, <2>2, <3>1
        DEF BootAp, ApActive, ApConnected, ApWant, Jump, timer, misc, driver
    <2>3. CASE BootWait \/ ApDns("main") \/ ApTimer("main") \/ ApCreate("main")
               \/ ApStart("main")
      <3>1. pc["main"] \in {"wait", "ap_dns", "ap_timer", "ap_create", "ap_start"}
        BY <2>3 DEF BootWait, ApDns, ApTimer, ApCreate, ApStart, Jump, At
      <3>2. mode # "null" /\ mode' = mode
        BY <2>3, <3>1
        DEF BootInv, ApEarly, BootWait, ApDns, ApTimer, ApCreate, ApStart, Jump,
            driver
      <3>3. QED
        BY <3>2
    <2>4. QED
      BY <2>1, <2>2, <2>3 DEF Main, StartAp
  <1>6. QED
    BY <1>2, <1>4, <1>5 DEF BootInv, MainLabel

LEMMA HandlerBoot ==
  ASSUME TypeInv, BootInv, Httpd \/ Requests
  PROVE  BootInv'
  <1>1. pc["main"] = "done"
    BY DEF BootInv, Httpd, Handler, CallConnect, StopTimerAt, StopDnsAt,
           CallSetMode, Configure, LeaveAp, At, Requests, Poll, RetrySaved,
           SaveFails, SaveAndConnect, ImportConfig, Request
  <1>2. mode # "null"
    BY <1>1 DEF BootInv, ApEarly
  <1>3. UNCHANGED pc \/ \E next : Goto("httpd", next)
    BY DEF Httpd, Handler, CallConnect, StopTimerAt, StopDnsAt, CallSetMode,
           Configure, LeaveAp, At, Requests, Poll, RetrySaved, SaveFails,
           SaveAndConnect, ImportConfig
  <1>4. pc'["main"] = pc["main"]
    BY <1>3, GotoPc DEF Tasks
  <1>5. mode' # "null"
    BY <1>2 DEF Httpd, Handler, CallConnect, StopTimerAt, StopDnsAt,
           CallSetMode, SetMode, Configure, LeaveAp, Requests, Poll, RetrySaved,
           SaveFails, SaveAndConnect, ImportConfig, driver
  <1>6. \/ pc["httpd"] # "idle" /\ UNCHANGED <<wifi_ssid, s_want_sta>>
        \/ pc["httpd"] = "idle" /\ UNCHANGED pc
        \/ Saved' /\ s_want_sta'
    BY NetworkAssumption
    DEF Httpd, Handler, CallConnect, StopTimerAt, StopDnsAt, CallSetMode,
        Configure, LeaveAp, At, Requests, Poll, RetrySaved, SaveFails,
        SaveAndConnect, ImportConfig, Request, Saved, saved, flags
  <1>7. QED
    BY <1>1, <1>4, <1>5, <1>6 DEF BootInv, Saved

LEMMA OthersBoot ==
  ASSUME TypeInv, BootInv,
         EspTimer \/ Radio \/ PageClosed \/ \E n \in Networks : AirChanges(n)
  PROVE  BootInv'
  <1>1. CASE EspTimer
    <2>1. mode # "null"
      BY <1>1 DEF BootInv, EspTimer, RetryConnected, RetryDue, CallConnect, At
    <2>2. PICK next : Goto("esp_timer", next)
      BY <1>1 DEF EspTimer, RetryConnected, RetryDue, CallConnect, Jump, At
    <2>3. UNCHANGED <<wifi_ssid, s_want_sta, mode>>
      BY <1>1 DEF EspTimer, RetryConnected, RetryDue, CallConnect, Jump, saved,
                  flags, driver
    <2>4. QED
      BY <2>1, <2>2, <2>3, BootFrame, GotoPc DEF Tasks
  <1>2. CASE Radio
    <2>1. link # "down"
      BY <1>2, NetworkAssumption DEF Radio, JoinEnds, LinkLost
    <2>2. QED
      BY <1>2, <2>1, BootFrame DEF BootInv, Radio, JoinEnds, LinkLost, saved, flags
  <1>3. CASE PageClosed \/ \E n \in Networks : AirChanges(n)
    BY <1>3 DEF BootInv, PageClosed, AirChanges, Saved, saved, flags, timer, misc,
                driver
  <1>4. QED
    BY <1>1, <1>2, <1>3

LEMMA BootCorrect == SafetySpec => []BootInv
  <1>1. Init => BootInv
    BY DEF Init, BootInv, Tasks
  <1>2. TypeInv /\ BootInv /\ [Next]_vars => BootInv'
    <2> SUFFICES ASSUME TypeInv, BootInv, [Next]_vars PROVE BootInv'
      OBVIOUS
    <2>1. CASE UNCHANGED vars
      BY <2>1 DEF vars, BootInv, Saved
    <2>2. CASE Restart
      BY <2>2, BootPc DEF Restart, BootInv
    <2>3. QED
      BY <2>1, <2>2, MainBoot, SysEvtBoot, HandlerBoot, OthersBoot
      DEF Next, SysEvt, SysEvtOwn
  <1>3. QED
    BY <1>1, <1>2, TypeInvCorrect, PTL DEF SafetySpec

(* While network_init runs, a device without a saved network gets no       *)
(* address.                                                                *)
OfflineInv ==
    pc["main"] # "done" /\ ~Saved =>
        /\ target = NoSsid /\ link \notin Networks /\ ~Pending(events, "GOT_IP")
        /\ pc["sys_evt"] \notin IpLabel

LEMMA BootPosts ==
  ASSUME TypeInv, BootInv,
         \/ BootSta
         \/ mode = "null" /\ CallSetMode("main", "ap_mode", "ap_dns", "apsta")
  PROVE  /\ \A e \in {"GOT_IP", "DISCONNECTED", "AP_STOP"} : ~Pending(events, e)'
         /\ BootSta => ~Pending(events, "AP_START")'
  <1>1. mode = "null" /\ events = <<>>
    BY DEF BootInv, BootSta, At
  <1>2. CASE BootSta
    <2>1. events' = <<"STA_START">>
      BY <1>1, <1>2 DEF BootSta, Post
    <2>2. QED
      BY <2>1 DEF Pending
  <1>3. CASE mode = "null" /\ CallSetMode("main", "ap_mode", "ap_dns", "apsta")
    <2>1. events' = <<>> \o <<"STA_START", "AP_START">> /\ pc["main"] = "ap_mode"
      BY <1>1, <1>3 DEF CallSetMode, SetMode, At
    <2>2. events' = <<"STA_START", "AP_START">>
      BY <2>1
    <2>3. ~BootSta
      BY <2>1 DEF BootSta, At
    <2>4. QED
      BY <2>2, <2>3 DEF Pending
  <1>4. QED
    BY <1>2, <1>3

LEMMA OfflineCorrect == SafetySpec => []OfflineInv
  <1>1. Init => OfflineInv
    BY NetworkAssumption, EmptyQueue DEF Init, OfflineInv, Tasks, IpLabel, IpEarly
  <1>2. TypeInv /\ BootInv /\ OfflineInv /\ BootInv' /\ [Next]_vars => OfflineInv'
    <2> SUFFICES ASSUME TypeInv, BootInv, OfflineInv, BootInv', [Next]_vars,
                        pc'["main"] # "done", ~Saved'
                 PROVE  /\ target' = NoSsid /\ link' \notin Networks
                        /\ ~Pending(events, "GOT_IP")'
                        /\ pc'["sys_evt"] \notin IpLabel
      BY DEF OfflineInv
    <2>1. {"GOT_IP", "AP_START", "AP_STOP", "STA_START", "DISCONNECTED"} \subseteq Event
      BY DEF Event
    <2>2. \A t \in {"main", "sys_evt", "esp_timer", "httpd"} : t \in Tasks
      BY DEF Tasks
    <2> DEFINE Kept == pc["main"] # "done" /\ ~Saved
    <2> DEFINE Same == UNCHANGED <<target, link, events>>
    <2>3. CASE Restart
      BY <2>3, BootPc, NetworkAssumption, EmptyQueue
      DEF Restart, IpLabel, IpEarly
    <2>4. CASE UNCHANGED vars
      BY <2>4 DEF vars, OfflineInv, Saved
    <2>5. CASE Main
      <3>1. pc["main"] # "done" /\ UNCHANGED wifi_ssid
        BY <2>5
        DEF Main, BootSta, BootAp, BootWait, Jump, At, StartAp, ApActive,
            ApConnected, ApWant, CallSetMode, ApDns, ApTimer, ApCreate, ApStart,
            saved
      <3>2. Kept
        BY <3>1 DEF Saved
      <3>3. \E next : Goto("main", next)
        BY <2>5
        DEF Main, BootSta, BootAp, BootWait, Jump, At, StartAp, ApActive,
            ApConnected, ApWant, CallSetMode, ApDns, ApTimer, ApCreate, ApStart
      <3>4. pc'["sys_evt"] = pc["sys_evt"]
        BY <2>2, <3>3, GotoPc
      <3>5. CASE CallSetMode("main", "ap_mode", "ap_dns", "apsta")
        <4>1. UNCHANGED <<target, link>> /\ SetMode("apsta")
          BY <3>5 DEF CallSetMode, SetMode
        <4>2. ~Pending(events, "GOT_IP")'
          <5>1. CASE mode = "null"
            BY <3>5, <5>1, BootPosts
          <5>2. CASE mode # "null" /\ mode = "apsta"
            BY <3>2, <4>1, <5>2, SetModeStep DEF OfflineInv
          <5>3. CASE mode # "null" /\ mode # "apsta"
            BY <2>1, <3>2, <4>1, <5>3, SetModeStep, PostStep DEF OfflineInv
          <5>4. QED
            BY <5>1, <5>2, <5>3
        <4>3. QED
          BY <3>2, <3>4, <4>1, <4>2 DEF OfflineInv
      <3>6. CASE ~CallSetMode("main", "ap_mode", "ap_dns", "apsta")
        <4>1. Same
          BY <2>5, <3>2, <3>6
          DEF Main, BootSta, BootAp, BootWait, Jump, StartAp, ApActive,
              ApConnected, ApWant, ApDns, ApTimer, ApCreate, ApStart, driver
        <4>2. QED
          BY <3>2, <3>4, <4>1 DEF OfflineInv
      <3>7. QED
        BY <3>5, <3>6
    <2>6. CASE SysEvt
      <3>1. SysEvtOwn \/ StartAp("sys_evt")
        BY <2>6 DEF SysEvt, SysEvtOwn
      <3>2. mode # "null" /\ pc'["main"] = pc["main"]
        BY <2>2, <3>1, SysEvtRuns, GotoPc
      <3>3. UNCHANGED wifi_ssid
        BY <3>1
        DEF SysEvtOwn, OnStaStart, OnDisconnected, Ignore, Reconnect, GiveUp,
            OnApStart, OnApStop, OnGotIp, OnIp, CallConnect, IpConnected,
            StopTimerAt, StopDnsAt, LeaveAp, CallSetMode, IpBit, Jump,
            StartAp, ApActive, ApConnected, ApWant, ApDns, ApTimer, ApCreate,
            ApStart, saved
      <3>4. Kept
        BY <3>2, <3>3 DEF Saved
      <3>5. ~Pending(events, "GOT_IP") /\ pc["sys_evt"] \notin IpLabel
        BY <3>4 DEF OfflineInv
      <3>6. ASSUME NEW e \in Event, NEW next \in {"connect", "idle", "lost"},
                   Take(e, next)
            PROVE  /\ target' = NoSsid /\ link' \notin Networks
                   /\ ~Pending(events, "GOT_IP")'
                   /\ pc'["sys_evt"] \notin IpLabel
        BY <2>1, <2>2, <3>4, <3>6, TakeStep, GotoPc DEF OfflineInv, IpLabel, IpEarly
      <3>7. CASE OnStaStart \/ OnDisconnected \/ OnApStart \/ OnApStop
        BY <2>1, <3>6, <3>7 DEF OnStaStart, OnDisconnected, OnApStart, OnApStop
      <3>8. ~OnGotIp
        BY <2>1, <3>5, TakeStep DEF OnGotIp
      <3>9. ~OnIp
        BY <3>5 DEF OnIp, IpConnected, StopTimerAt, StopDnsAt, LeaveAp, CallSetMode,
                    IpBit, At, IpLabel, IpEarly
      <3>10. CASE CallSetMode("sys_evt", "ap_mode", "ap_dns", "apsta")
        <4>1. UNCHANGED <<target, link>> /\ SetMode("apsta") /\ Goto("sys_evt", "ap_dns")
          BY <3>10 DEF CallSetMode, SetMode, At
        <4>2. ~Pending(events, "GOT_IP")'
          <5>1. CASE mode = "apsta"
            BY <3>2, <3>5, <4>1, <5>1, SetModeStep
          <5>2. CASE mode # "apsta"
            BY <2>1, <3>2, <3>5, <4>1, <5>2, SetModeStep, PostStep
          <5>3. QED
            BY <5>1, <5>2
        <4>3. QED
          BY <2>2, <3>4, <4>1, <4>2, GotoPc DEF OfflineInv, IpLabel, IpEarly
      <3>11. CASE \/ Ignore \/ Reconnect \/ GiveUp \/ CallConnect("sys_evt")
                  \/ /\ StartAp("sys_evt")
                     /\ ~CallSetMode("sys_evt", "ap_mode", "ap_dns", "apsta")
        <4>1. PICK next \in {"idle", "connect"} \cup ApLabel : Goto("sys_evt", next)
          BY <3>11
          DEF Ignore, Reconnect, GiveUp, CallConnect, Jump, At, StartAp, ApActive,
              ApConnected, ApWant, ApDns, ApTimer, ApCreate, ApStart, End, ApLabel,
              ApEarly
        <4>2. UNCHANGED <<target, events>> /\ link' \in {"joining", link}
          BY <3>11
          DEF Ignore, Reconnect, GiveUp, CallConnect, Connect, Jump, StartAp,
              ApActive, ApConnected, ApWant, ApDns, ApTimer, ApCreate, ApStart,
              driver
        <4>3. pc'["sys_evt"] \notin IpLabel
          BY <2>2, <4>1, GotoPc DEF IpLabel, IpEarly, ApLabel, ApEarly
        <4>4. QED
          BY <3>4, <4>2, <4>3, NetworkAssumption DEF OfflineInv
      <3>12. QED
        BY <3>1, <3>7, <3>8, <3>9, <3>10, <3>11 DEF SysEvtOwn
    <2>7. CASE Httpd \/ Requests
      <3>1. pc["main"] = "done"
        BY <2>7
        DEF BootInv, Httpd, Handler, CallConnect, StopTimerAt, StopDnsAt,
            CallSetMode, Configure, LeaveAp, At, Requests, Poll, RetrySaved,
            SaveFails, SaveAndConnect, ImportConfig, Request
      <3>2. UNCHANGED pc \/ \E next : Goto("httpd", next)
        BY <2>7
        DEF Httpd, Handler, CallConnect, StopTimerAt, StopDnsAt, CallSetMode,
            Configure, LeaveAp, At, Requests, Poll, RetrySaved, SaveFails,
            SaveAndConnect, ImportConfig
      <3>3. QED
        BY <2>2, <3>1, <3>2, GotoPc
    <2>8. CASE EspTimer
      <3>1. PICK next : Goto("esp_timer", next)
        BY <2>8 DEF EspTimer, RetryConnected, RetryDue, CallConnect, Jump, At
      <3>2. /\ UNCHANGED <<target, events, wifi_ssid>> /\ link' \in {"joining", link}
            /\ pc'["main"] = pc["main"] /\ pc'["sys_evt"] = pc["sys_evt"]
        BY <2>2, <2>8, <3>1, GotoPc
        DEF EspTimer, RetryConnected, RetryDue, CallConnect, Connect, Jump, saved,
            driver
      <3>3. QED
        BY <3>2, NetworkAssumption DEF OfflineInv, Saved
    <2>9. CASE Radio
      <3>1. UNCHANGED <<target, pc, wifi_ssid>>
        BY <2>9 DEF Radio, JoinEnds, LinkLost, saved
      <3>2. target = NoSsid /\ link \notin Networks /\ ~Pending(events, "GOT_IP")
        BY <3>1 DEF OfflineInv, Saved
      <3>3. NoSsid \notin air
        BY NetworkAssumption DEF TypeInv, DriverType
      <3>4. link' = "down" /\ Post("DISCONNECTED")
        BY <2>9, <3>2, <3>3 DEF Radio, JoinEnds, LinkLost
      <3>5. QED
        BY <2>1, <3>1, <3>2, <3>4, PostStep, NetworkAssumption DEF OfflineInv, Saved
    <2>10. CASE PageClosed \/ \E n \in Networks : AirChanges(n)
      BY <2>10 DEF PageClosed, AirChanges, OfflineInv, Saved, saved, driver
    <2>11. QED
      BY <2>3, <2>4, <2>5, <2>6, <2>7, <2>8, <2>9, <2>10 DEF Next
  <1>3. QED
    BY <1>1, <1>2, TypeInvCorrect, BootCorrect, PTL DEF SafetySpec

----------------------------------------------------------------------------
(* What is in the queue makes up for what it is late with: the last report *)
(* about the SoftAP agrees with the mode of the driver, and a station that *)
(* is on a network has reported so after the last loss.                    *)

Falling == {"lost"} \cup ApLabel     \* sys_evt, from a loss to the end of start_ap

QueueInv ==
    /\ mode = "apsta" => Followed(events, "AP_STOP", "AP_START")
    /\ mode # "apsta" => Followed(events, "AP_START", "AP_STOP")
    /\ link \in Networks => Followed(events, "DISCONNECTED", "GOT_IP")
    /\ pc["sys_evt"] \in Falling /\ link \in Networks => Pending(events, "GOT_IP")

LEMMA QueueFrame ==
  ASSUME QueueInv, UNCHANGED <<events, mode>>, link' \in Networks => link' = link,
         pc'["sys_evt"] \in Falling => pc["sys_evt"] \in Falling
  PROVE  QueueInv'
  BY DEF QueueInv

LEMMA QueueSetMode ==
  ASSUME TypeInv, QueueInv, mode # "null", NEW new \in {"sta", "apsta"}, SetMode(new),
         pc'["sys_evt"] \in Falling => pc["sys_evt"] \in Falling
  PROVE  QueueInv'
  <1>1. mode \in {"sta", "apsta"}
    BY DEF TypeInv, DriverType
  <1>2. CASE mode = new
    BY <1>2, SetModeStep, QueueFrame
  <1>3. CASE mode # new
    BY <1>1, <1>3, SetModeStep, PostStep DEF QueueInv, Event
  <1>4. QED
    BY <1>2, <1>3

LEMMA QueueTake ==
  ASSUME TypeInv, QueueInv, NEW e \in Event, NEW next, Take(e, next),
         next \in Falling => e = "DISCONNECTED"
  PROVE  QueueInv'
  <1>1. pc'["sys_evt"] = next
    BY TakeStep, GotoPc DEF Tasks
  <1>2. QED
    BY <1>1, TakeStep DEF QueueInv, Event

LEMMA StartApQueue ==
  ASSUME TypeInv, BootInv, QueueInv, NEW t \in ApTask, StartAp(t)
  PROVE  QueueInv'
  <1>1. PICK next \in ApLabel \cup {End(t)} : Goto(t, next) /\ pc[t] \in ApLabel
    BY DEF StartAp, ApActive, ApConnected, ApWant, CallSetMode, ApDns, ApTimer,
           ApCreate, ApStart, Jump, At, ApLabel, ApEarly
  <1>2. pc'["sys_evt"] \in Falling => pc["sys_evt"] \in Falling
    BY <1>1, GotoPc DEF ApTask, Tasks, Falling
  <1>3. CASE CallSetMode(t, "ap_mode", "ap_dns", "apsta") /\ mode # "null"
    BY <1>2, <1>3, QueueSetMode DEF CallSetMode
  <1>4. CASE CallSetMode(t, "ap_mode", "ap_dns", "apsta") /\ mode = "null"
    <2>1. t = "main"
      BY <1>1, <1>4 DEF BootInv, ApTask, ApLabel, ApEarly
    <2>2. ~Pending(events, "AP_STOP")'
      BY <1>4, <2>1, BootPosts
    <2>3. mode' = "apsta" /\ link' = "down"
      BY <1>4 DEF CallSetMode, SetMode, BootInv
    <2>4. QED
      BY <2>2, <2>3, NetworkAssumption DEF QueueInv, Pending, Followed
  <1>5. CASE ~CallSetMode(t, "ap_mode", "ap_dns", "apsta")
    BY <1>2, <1>5, QueueFrame
    DEF StartAp, ApActive, ApConnected, ApWant, ApDns, ApTimer, ApCreate, ApStart,
        Jump, driver
  <1>6. QED
    BY <1>3, <1>4, <1>5

LEMMA SysEvtQueue ==
  ASSUME TypeInv, BootInv, QueueInv, SysEvtOwn
  PROVE  QueueInv'
  <1>1. CASE OnStaStart \/ OnDisconnected \/ OnApStart \/ OnApStop \/ OnGotIp
    BY <1>1, QueueTake
    DEF OnStaStart, OnDisconnected, OnApStart, OnApStop, OnGotIp, Event, Falling,
        ApLabel, ApEarly
  <1>2. CASE CallSetMode("sys_evt", "ip_mode", "ip_bit", "sta")
    <2>1. mode # "null"
      BY SysEvtRuns
    <2>2. pc'["sys_evt"] = "ip_bit"
      BY <1>2, GotoPc DEF CallSetMode, At, Tasks
    <2>3. QED
      BY <1>2, <2>1, <2>2, QueueSetMode DEF CallSetMode, Falling, ApLabel, ApEarly
  <1>3. CASE \/ Ignore \/ Reconnect \/ GiveUp \/ CallConnect("sys_evt") \/ IpConnected
             \/ StopTimerAt("sys_evt", "ip_timer", "ip_dns")
             \/ StopDnsAt("sys_evt", "ip_dns", "ip_active")
             \/ LeaveAp("sys_evt", "ip_active", "ip_mode") \/ IpBit
    <2>1. PICK next \in SysEvtLabel :
              Goto("sys_evt", next) /\ (next \in Falling => pc["sys_evt"] \in Falling)
      BY <1>3
      DEF Ignore, Reconnect, GiveUp, CallConnect, IpConnected, StopTimerAt,
          StopDnsAt, LeaveAp, IpBit, Jump, At, SysEvtLabel, Falling, ApLabel,
          ApEarly, IpLabel, IpEarly
    <2>2. UNCHANGED <<events, mode>> /\ link' \in {"joining", link}
      BY <1>3
      DEF Ignore, Reconnect, GiveUp, CallConnect, Connect, IpConnected, StopTimerAt,
          StopDnsAt, LeaveAp, IpBit, Jump, driver
    <2>3. QED
      BY <2>1, <2>2, QueueFrame, GotoPc, NetworkAssumption DEF Tasks
  <1>4. QED
    BY <1>1, <1>2, <1>3 DEF SysEvtOwn, OnIp

LEMMA OthersQueue ==
  ASSUME TypeInv, BootInv, QueueInv,
         BootAp \/ BootWait \/ EspTimer \/ Httpd \/ Requests \/ PageClosed
         \/ \E n \in Networks : AirChanges(n)
  PROVE  QueueInv'
  <1>1. UNCHANGED pc \/ \E t \in Tasks \ {"sys_evt"} : \E next : Goto(t, next)
    BY DEF BootAp, BootWait, EspTimer, RetryConnected, RetryDue, Httpd, Handler,
           CallConnect, StopTimerAt, StopDnsAt, CallSetMode, Configure, LeaveAp,
           Jump, At, Requests, Poll, RetrySaved, SaveFails, SaveAndConnect,
           ImportConfig, PageClosed, AirChanges, Tasks
  <1>2. pc'["sys_evt"] = pc["sys_evt"]
    BY <1>1, GotoPc DEF Tasks
  <1>3. CASE \/ CallSetMode("httpd", "save_mode", "save_config", "sta")
             \/ CallSetMode("httpd", "retry_mode", "retry_config", "apsta")
    <2>1. mode # "null"
      BY <1>3 DEF BootInv, CallSetMode, At, ApEarly
    <2>2. QED
      BY <1>2, <1>3, <2>1, QueueSetMode DEF CallSetMode
  <1>4. CASE ~(\/ CallSetMode("httpd", "save_mode", "save_config", "sta")
               \/ CallSetMode("httpd", "retry_mode", "retry_config", "apsta"))
    <2>1. UNCHANGED <<events, mode>> /\ link' \in {"joining", link}
      BY <1>4
      DEF BootAp, BootWait, EspTimer, RetryConnected, RetryDue, Httpd, Handler,
          CallConnect, Connect, StopTimerAt, StopDnsAt, Configure, LeaveAp, Jump,
          Requests, Poll, RetrySaved, SaveFails, SaveAndConnect, ImportConfig,
          PageClosed, AirChanges, driver
    <2>2. QED
      BY <1>2, <2>1, QueueFrame, NetworkAssumption
  <1>5. QED
    BY <1>3, <1>4

LEMMA RadioQueue ==
  ASSUME TypeInv, QueueInv, Radio
  PROVE  QueueInv'
  <1>1. CASE JoinEnds /\ target \in air
    BY <1>1, PostStep, NetworkAssumption DEF JoinEnds, QueueInv, Event
  <1>2. CASE LinkLost \/ (JoinEnds /\ target \notin air)
    <2>1. Post("DISCONNECTED") /\ UNCHANGED <<mode, pc>> /\ link' = "down"
      BY <1>2 DEF JoinEnds, LinkLost
    <2>2. link' \notin Networks
      BY <2>1, NetworkAssumption
    <2>3. QED
      BY <2>1, <2>2, PostStep DEF QueueInv, Event
  <1>3. QED
    BY <1>1, <1>2 DEF Radio

LEMMA QueueCorrect == SafetySpec => []QueueInv
  <1>1. Init => QueueInv
    BY EmptyQueue, NetworkAssumption
    DEF Init, QueueInv, Tasks, Falling, ApLabel, ApEarly
  <1>2. TypeInv /\ BootInv /\ QueueInv /\ [Next]_vars => QueueInv'
    <2> SUFFICES ASSUME TypeInv, BootInv, QueueInv, [Next]_vars PROVE QueueInv'
      OBVIOUS
    <2>1. CASE UNCHANGED vars
      BY <2>1 DEF vars, QueueInv
    <2>2. CASE Restart
      <3>1. pc'["sys_evt"] = "idle" /\ events' = <<>>
        BY <2>2, BootPc DEF Restart
      <3>2. link' \notin Networks
        BY <2>2, NetworkAssumption DEF Restart
      <3>3. \A e, f : Followed(events, e, f)'
        BY <3>1 DEF Followed
      <3>4. QED
        BY <3>1, <3>2, <3>3 DEF QueueInv, Falling, ApLabel, ApEarly
    <2>3. CASE BootSta
      <3>1. ~Pending(events, "AP_START")' /\ ~Pending(events, "DISCONNECTED")'
        BY <2>3, BootPosts
      <3>2. mode' = "sta" /\ pc'["sys_evt"] = "idle"
        BY <2>3, GotoPc DEF BootSta, At, BootInv, Tasks
      <3>3. QED
        BY <3>1, <3>2 DEF QueueInv, Pending, Followed, Falling, ApLabel, ApEarly
    <2>4. QED
      BY <2>1, <2>2, <2>3, StartApQueue, SysEvtQueue, OthersQueue, RadioQueue
      DEF Next, Main, SysEvt, SysEvtOwn, ApTask
  <1>3. QED
    BY <1>1, <1>2, TypeInvCorrect, BootCorrect, PTL DEF SafetySpec

----------------------------------------------------------------------------
(* The flag of the SoftAP.  When it does not say what the driver does,     *)
(* something is under way that will set it right.                          *)

Landing ==
    link \in Networks =>
        \/ Pending(events, "GOT_IP")
        \/ pc["sys_evt"] \in {"ip_active", "ip_mode"} \cup IpEarly

Trying ==
    \/ link = "joining" \/ pc["httpd"] = "connect"
    \/ Pending(events, "GOT_IP") \/ Pending(events, "DISCONNECTED")
    \/ pc["sys_evt"] \in {"lost", "connect", "ap_active", "ip_active"} \cup IpEarly

(* The SoftAP is on behind the flag's back: network_save_and_connect has   *)
(* lowered it after start_ap had changed the mode.  The outcome of the     *)
(* attempt to join either ends the SoftAP or raises the flag.              *)
Recovering ==
    /\ pc["main"] = "done" /\ s_want_sta
    /\ Landing /\ Trying
    /\ pc["sys_evt"] \notin ApEarly

Early == \E t \in ApTask : pc[t] \in ApEarly

(* The flag is up, or will be, when network_save_and_connect is about to   *)
(* lower it; and if start_ap is about to raise it, AP_START comes later.   *)
Raised ==
    \/ Pending(events, "AP_START") \/ pc["sys_evt"] = "ip_mode"
    \/ s_ap_active /\ pc["sys_evt"] \notin {"ap_active"} \cup ApEarly

FlagInv ==
    /\ s_ap_active /\ mode # "apsta" => Pending(events, "AP_STOP") \/ Early
    /\ ~s_ap_active /\ mode = "apsta" =>
           Pending(events, "AP_START") \/ pc["sys_evt"] = "ip_mode" \/ Recovering
    /\ pc["httpd"] \in SaveLate /\ mode = "apsta" => Landing /\ Raised

(* Steps that leave the flag, the driver and the handlers alone.           *)
LEMMA FlagFrame ==
  ASSUME FlagInv, UNCHANGED <<s_ap_active, mode, events, link>>,
         pc'["httpd"] = pc["httpd"],
         Early => Early', Landing => Landing',
         pc["sys_evt"] = "ip_mode" => pc'["sys_evt"] = "ip_mode",
         Recovering => Recovering',
         pc["httpd"] \in SaveLate /\ Raised => Raised'
  PROVE  FlagInv'
  BY DEF FlagInv

(* esp_wifi_set_mode, whose callers have nothing to do with the flag.      *)
LEMMA FlagToSta ==
  ASSUME TypeInv, FlagInv, mode # "null", SetMode("sta"), UNCHANGED s_ap_active,
         Early => Early'
  PROVE  FlagInv'
  <1>1. mode \in {"sta", "apsta"}
    BY DEF TypeInv, DriverType
  <1>2. CASE mode = "sta"
    BY <1>2, SetModeStep DEF FlagInv
  <1>3. CASE mode = "apsta"
    BY <1>3, SetModeStep, PostStep DEF FlagInv, Event
  <1>4. QED
    BY <1>1, <1>2, <1>3

LEMMA StartApFlag ==
  ASSUME TypeInv, BootInv, QueueInv, FlagInv, NEW t \in ApTask, StartAp(t)
  PROVE  FlagInv'
  <1>1. PICK next \in ApLabel \cup {End(t)} : Goto(t, next) /\ pc[t] \in ApLabel
    BY DEF StartAp, ApActive, ApConnected, ApWant, CallSetMode, ApDns, ApTimer,
           ApCreate, ApStart, Jump, At, ApLabel, ApEarly
  <1>2. /\ t \in Tasks /\ pc'[t] = next /\ \A u \in Tasks : u # t => pc'[u] = pc[u]
        /\ {"main", "sys_evt", "httpd"} \subseteq Tasks /\ ApTask \subseteq Tasks
    BY <1>1, GotoPc DEF ApTask, Tasks
  <1>3. /\ pc'["httpd"] = pc["httpd"]
        /\ t = "main" => pc["main"] # "done" /\ pc["httpd"] \notin SaveLate
    BY <1>1, <1>2 DEF ApTask, ApLabel, ApEarly, BootInv, SaveLate
  <1>4. t = "main" \/ t = "sys_evt"
    BY DEF ApTask
  <1>5. CASE ApActive(t)
    <2>1. /\ pc[t] = "ap_active" /\ pc'[t] = "ap_connected" /\ s_ap_active'
          /\ UNCHANGED <<mode, events, link>>
      BY <1>2, <1>5, GotoPc DEF ApActive, At, driver
    <2>2. Early'
      BY <2>1 DEF Early, ApEarly
    <2>3. pc["httpd"] \in SaveLate => t = "sys_evt"
      BY <1>3, <1>4
    <2>4. pc["httpd"] \in SaveLate /\ Raised => Raised'
      BY <2>1, <2>3 DEF Raised
    <2>5. Landing => Landing'
      BY <1>2, <1>4, <2>1 DEF Landing, IpEarly
    <2>6. QED
      BY <1>3, <2>1, <2>2, <2>4, <2>5 DEF FlagInv
  <1>6. CASE ApConnected(t) \/ ApWant(t)
    <2>1. /\ pc[t] \in ApEarly /\ pc'[t] \in ApEarly
          /\ UNCHANGED <<s_ap_active, mode, events, link>>
      BY <1>2, <1>6, GotoPc DEF ApConnected, ApWant, At, ApEarly, driver
    <2>2. Early'
      BY <2>1 DEF Early
    <2>3. ~Recovering
      BY <1>3, <1>4, <2>1 DEF Recovering
    <2>4. pc["sys_evt"] = "ip_mode" => pc'["sys_evt"] = "ip_mode"
      BY <1>2, <1>4, <2>1 DEF ApEarly
    <2>5. Landing => Landing'
      BY <1>2, <1>4, <2>1 DEF Landing, ApEarly, IpEarly
    <2>6. pc["httpd"] \in SaveLate /\ Raised => Raised'
      BY <1>3, <1>4, <2>1 DEF Raised, ApEarly
    <2>7. QED
      BY <1>3, <2>1, <2>2, <2>3, <2>4, <2>5, <2>6, FlagFrame
  <1>7. CASE CallSetMode(t, "ap_mode", "ap_dns", "apsta")
    <2>1. /\ pc[t] = "ap_mode" /\ pc'[t] = "ap_dns" /\ mode' = "apsta"
          /\ SetMode("apsta") /\ UNCHANGED <<s_ap_active, link>>
      BY <1>2, <1>7, GotoPc DEF CallSetMode, At, SetMode, flags
    <2>2. mode # "apsta" => Pending(events, "AP_START")'
      <3>1. CASE mode = "null"
        <4>1. events' = <<>> \o <<"STA_START", "AP_START">>
          BY <2>1, <3>1 DEF SetMode, BootInv
        <4>2. events' = <<"STA_START", "AP_START">>
          BY <4>1
        <4>3. QED
          BY <4>2 DEF Pending
      <3>2. CASE mode # "null"
        BY <2>1, <3>2, SetModeStep, PostStep DEF Event
      <3>3. QED
        BY <3>1, <3>2
    <2>3. mode = "apsta" => UNCHANGED events
      BY <2>1, SetModeStep
    <2>4. ~Recovering
      BY <1>3, <1>4, <2>1 DEF Recovering, ApEarly
    <2>5. pc["sys_evt"] = "ip_mode" => pc'["sys_evt"] = "ip_mode"
      BY <1>2, <1>4, <2>1
    <2>6. ~s_ap_active' =>
              Pending(events, "AP_START")' \/ pc'["sys_evt"] = "ip_mode"
      BY <2>1, <2>2, <2>3, <2>4, <2>5 DEF FlagInv
    <2>7. ASSUME pc["httpd"] \in SaveLate
          PROVE  Landing' /\ Raised'
      <3>1. t = "sys_evt"
        BY <1>3, <1>4, <2>7
      <3>2. link \in Networks => Pending(events, "GOT_IP")
        BY <2>1, <3>1 DEF QueueInv, Falling, ApLabel, ApEarly
      <3>3. mode # "null"
        BY <2>7 DEF BootInv, SaveLate, ApEarly
      <3>4. Pending(events, "GOT_IP") => Pending(events, "GOT_IP")'
        BY <2>1, <2>3, <3>3, SetModeStep, PostStep DEF Event
      <3>5. mode = "apsta" => Pending(events, "AP_START")
        BY <2>1, <2>7, <3>1 DEF FlagInv, Raised, ApEarly
      <3>6. QED
        BY <2>1, <2>2, <2>3, <3>1, <3>2, <3>4, <3>5 DEF Landing, Raised, ApEarly
    <2>8. QED
      BY <1>3, <2>1, <2>6, <2>7 DEF FlagInv
  <1>8. CASE ApDns(t) \/ ApTimer(t) \/ ApCreate(t) \/ ApStart(t)
    <2>1. /\ pc[t] \in {"ap_dns", "ap_timer", "ap_create", "ap_start"}
          /\ pc'[t] \in {"ap_timer", "ap_create", "ap_start", End(t)}
          /\ UNCHANGED <<s_ap_active, s_want_sta, mode, events, link>>
      BY <1>2, <1>8, GotoPc
      DEF ApDns, ApTimer, ApCreate, ApStart, Jump, At, flags, driver
    <2>2. /\ Early => Early'
          /\ pc["sys_evt"] \notin {"ap_active"} \cup ApEarly
                => pc'["sys_evt"] \notin {"ap_active"} \cup ApEarly
      BY <1>2, <1>4, <2>1 DEF Early, ApEarly, ApTask, End
    <2>3. pc["sys_evt"] = "ip_mode" => pc'["sys_evt"] = "ip_mode"
      BY <1>2, <1>4, <2>1
    <2>4. Landing => Landing'
      BY <1>2, <1>4, <2>1 DEF Landing, IpEarly
    <2>5. Trying => Trying'
      BY <1>2, <1>3, <1>4, <2>1 DEF Trying, IpEarly
    <2>6. Recovering => Recovering'
      BY <1>2, <1>3, <1>4, <2>1, <2>2, <2>4, <2>5 DEF Recovering, End, ApEarly
    <2>7. pc["httpd"] \in SaveLate /\ Raised => Raised'
      BY <2>1, <2>2, <2>3 DEF Raised
    <2>8. QED
      BY <1>3, <2>1, <2>2, <2>3, <2>4, <2>6, <2>7, FlagFrame
  <1>9. QED
    BY <1>5, <1>6, <1>7, <1>8 DEF StartAp

(* esp_wifi_connect, of any task: the attempt that it starts, or the join  *)
(* that refuses it, keeps the device trying.                               *)
LEMMA ConnectFlag ==
  ASSUME TypeInv, FlagInv, NEW t \in {"sys_evt", "esp_timer", "httpd"}, CallConnect(t)
  PROVE  FlagInv'
  <1>1. /\ pc[t] = "connect" /\ pc'[t] = "idle" /\ t \in Tasks
        /\ \A u \in Tasks : u # t => pc'[u] = pc[u]
        /\ UNCHANGED <<s_ap_active, s_want_sta, mode, events>>
        /\ link' = IF link = "down" THEN "joining" ELSE link
    BY GotoPc DEF CallConnect, Connect, At, Tasks, flags
  <1>2. \A u \in {"main", "sys_evt", "httpd"} :
            pc'[u] = pc[u] \/ (pc[u] = "connect" /\ pc'[u] = "idle")
    BY <1>1 DEF Tasks
  <1>3. pc'["main"] = pc["main"]
    BY <1>1 DEF Tasks
  <1>4. link' \in Networks => link' = link
    BY <1>1, NetworkAssumption
  <1>5. link \in {"down", "joining"} \cup Networks
    BY DEF TypeInv, DriverType
  <1>6. Landing => Landing'
    BY <1>1, <1>2, <1>4 DEF Landing, IpEarly
  <1>7. Landing /\ pc["sys_evt"] # "ip_mode" => Trying'
    <2> SUFFICES ASSUME Landing, pc["sys_evt"] # "ip_mode", link' # "joining"
                 PROVE  Trying'
      BY DEF Trying
    <2>1. link \in Networks /\ UNCHANGED link
      BY <1>1, <1>5
    <2>2. Pending(events, "GOT_IP") \/ pc["sys_evt"] \in {"ip_active"} \cup IpEarly
      BY <2>1 DEF Landing
    <2>3. QED
      BY <1>1, <1>2, <2>1, <2>2 DEF Trying, IpEarly
  <1>8. QED
    BY <1>1, <1>2, <1>3, <1>6, <1>7
    DEF FlagInv, Raised, Recovering, Early, ApTask, ApEarly, SaveLate

LEMMA FlagTake ==
  ASSUME TypeInv, QueueInv, FlagInv,
         OnStaStart \/ OnDisconnected \/ OnApStart \/ OnApStop \/ OnGotIp
  PROVE  FlagInv'
  <1>1. ASSUME NEW e \in Event, NEW next, Take(e, next)
        PROVE  /\ pc["sys_evt"] = "idle" /\ pc'["sys_evt"] = next
               /\ pc'["main"] = pc["main"] /\ pc'["httpd"] = pc["httpd"]
               /\ UNCHANGED <<mode, target, link>>
               /\ \A f \in Event \ {e} : Pending(events, f) => Pending(events, f)'
               /\ Early => Early'
    <2>1. /\ pc["sys_evt"] = "idle" /\ pc'["sys_evt"] = next
          /\ pc'["main"] = pc["main"] /\ pc'["httpd"] = pc["httpd"]
      BY <1>1, TakeStep, GotoPc DEF Tasks
    <2>2. Early => Early'
      BY <2>1 DEF Early, ApTask, ApEarly
    <2>3. QED
      BY <1>1, <2>1, <2>2, TakeStep
  <1>2. {"STA_START", "AP_START", "AP_STOP", "GOT_IP", "DISCONNECTED"} \subseteq Event
    BY DEF Event
  <1>3. CASE OnStaStart
    <2>1. PICK next \in {"connect", "idle"} : Take("STA_START", next)
      BY <1>3 DEF OnStaStart
    <2>2. UNCHANGED <<s_ap_active, s_want_sta>>
      BY <1>3 DEF OnStaStart, flags
    <2>3. Landing => Landing'
      BY <1>1, <1>2, <2>1 DEF Landing, IpEarly
    <2>4. Trying => Trying'
      BY <1>1, <1>2, <2>1 DEF Trying, IpEarly
    <2>5. QED
      BY <1>1, <1>2, <2>1, <2>2, <2>3, <2>4 DEF FlagInv, Raised, Recovering, ApEarly
  <1>4. CASE OnDisconnected
    <2>1. Take("DISCONNECTED", "lost") /\ UNCHANGED <<s_ap_active, s_want_sta>>
      BY <1>4 DEF OnDisconnected
    <2>2. Landing => Landing'
      BY <1>1, <1>2, <2>1 DEF Landing, IpEarly
    <2>3. Trying'
      BY <1>1, <1>2, <2>1 DEF Trying
    <2>4. QED
      BY <1>1, <1>2, <2>1, <2>2, <2>3 DEF FlagInv, Raised, Recovering, ApEarly
  <1>5. CASE OnGotIp
    <2>1. Take("GOT_IP", "ip_connected") /\ UNCHANGED <<s_ap_active, s_want_sta>>
      BY <1>5 DEF OnGotIp
    <2>2. Landing' /\ Trying'
      BY <1>1, <1>2, <2>1 DEF Landing, Trying, IpEarly
    <2>3. QED
      BY <1>1, <1>2, <2>1, <2>2 DEF FlagInv, Raised, Recovering, ApEarly
  <1>6. CASE OnApStart
    <2>1. Take("AP_START", "idle") /\ s_ap_active'
      BY <1>6 DEF OnApStart
    <2>2. mode # "apsta" => Pending(events, "AP_STOP")'
      BY <1>2, <2>1, TakeStep DEF QueueInv
    <2>3. Landing => Landing'
      BY <1>1, <1>2, <2>1 DEF Landing, IpEarly
    <2>4. QED
      BY <1>1, <1>2, <2>1, <2>2, <2>3 DEF FlagInv, Raised, ApEarly
  <1>7. CASE OnApStop
    <2>1. Take("AP_STOP", "idle") /\ s_ap_active' = FALSE
      BY <1>7 DEF OnApStop
    <2>2. mode = "apsta" => Pending(events, "AP_START")'
      BY <1>2, <2>1, TakeStep DEF QueueInv
    <2>3. Landing => Landing'
      BY <1>1, <1>2, <2>1 DEF Landing, IpEarly
    <2>4. QED
      BY <1>1, <1>2, <2>1, <2>2, <2>3 DEF FlagInv, Raised, ApEarly
  <1>8. QED
    BY <1>3, <1>4, <1>5, <1>6, <1>7

LEMMA SysEvtFlag ==
  ASSUME TypeInv, BootInv, QueueInv, FlagInv, SysEvtOwn
  PROVE  FlagInv'
  <1>1. ASSUME NEW here, NEW next, At("sys_evt", here, next)
        PROVE  /\ pc["sys_evt"] = here /\ pc'["sys_evt"] = next
               /\ pc'["main"] = pc["main"] /\ pc'["httpd"] = pc["httpd"]
               /\ here \notin ApEarly => (Early => Early')
    BY <1>1, GotoPc DEF At, Tasks, Early, ApTask
  <1>2. CASE Ignore
    <2>1. /\ At("sys_evt", "lost", "idle") /\ (~s_want_sta \/ s_ap_active)
          /\ UNCHANGED <<s_ap_active, s_want_sta, mode, events, link>>
      BY <1>2 DEF Ignore, Jump, flags, driver
    <2>2. Landing => Landing'
      BY <1>1, <2>1 DEF Landing, IpEarly
    <2>3. QED
      BY <1>1, <2>1, <2>2 DEF FlagInv, Raised, Recovering, ApEarly
  <1>3. CASE Reconnect \/ GiveUp
    <2>1. PICK next \in {"connect", "ap_active"} : At("sys_evt", "lost", next)
      BY <1>3 DEF Reconnect, GiveUp, Jump
    <2>2. /\ UNCHANGED <<s_ap_active, s_want_sta, mode, events, link>>
          /\ next = "ap_active" => ~s_ap_active
      BY <1>1, <1>3, <2>1
      DEF Reconnect, GiveUp, Jump, At, flags, driver
    <2>3. Landing => Landing'
      BY <1>1, <2>1, <2>2 DEF Landing, IpEarly
    <2>4. Trying'
      BY <1>1, <2>1 DEF Trying
    <2>5. QED
      BY <1>1, <2>1, <2>2, <2>3, <2>4 DEF FlagInv, Raised, Recovering, ApEarly
  <1>4. CASE \/ IpConnected
             \/ StopTimerAt("sys_evt", "ip_timer", "ip_dns")
             \/ StopDnsAt("sys_evt", "ip_dns", "ip_active")
    <2>1. PICK here \in IpEarly, next \in IpEarly \cup {"ip_active"} :
              At("sys_evt", here, next)
      BY <1>4 DEF IpConnected, StopTimerAt, StopDnsAt, IpEarly
    <2>2. UNCHANGED <<s_ap_active, s_want_sta, mode, events, link>>
      BY <1>4 DEF IpConnected, StopTimerAt, StopDnsAt, flags, driver
    <2>3. Landing' /\ Trying'
      BY <1>1, <2>1 DEF Landing, Trying
    <2>4. QED
      BY <1>1, <2>1, <2>2, <2>3 DEF FlagInv, Raised, Recovering, IpEarly, ApEarly
  <1>5. CASE LeaveAp("sys_evt", "ip_active", "ip_mode")
    <2>1. /\ At("sys_evt", "ip_active", "ip_mode") /\ s_ap_active' = FALSE
          /\ UNCHANGED <<mode, events, link>>
      BY <1>5 DEF LeaveAp, driver
    <2>2. QED
      BY <1>1, <2>1 DEF FlagInv, Raised, Landing, ApEarly
  <1>6. CASE CallSetMode("sys_evt", "ip_mode", "ip_bit", "sta")
    <2>1. At("sys_evt", "ip_mode", "ip_bit") /\ SetMode("sta") /\ UNCHANGED s_ap_active
      BY <1>6 DEF CallSetMode, flags
    <2>2. Early => Early'
      BY <1>1, <2>1 DEF ApEarly
    <2>3. QED
      BY <2>1, <2>2, SysEvtRuns, FlagToSta
  <1>7. CASE IpBit
    <2>1. /\ At("sys_evt", "ip_bit", "idle")
          /\ UNCHANGED <<s_ap_active, s_want_sta, mode, events, link>>
      BY <1>7 DEF IpBit, flags, driver
    <2>2. Landing => Landing'
      BY <1>1, <2>1 DEF Landing, IpEarly
    <2>3. Trying => Trying'
      BY <1>1, <2>1 DEF Trying, IpEarly
    <2>4. QED
      BY <1>1, <2>1, <2>2, <2>3 DEF FlagInv, Raised, Recovering, ApEarly
  <1>8. QED
    BY <1>2, <1>3, <1>4, <1>5, <1>6, <1>7, FlagTake, ConnectFlag DEF SysEvtOwn, OnIp

LEMMA HttpdFlag ==
  ASSUME TypeInv, BootInv, FlagInv, Httpd
  PROVE  FlagInv'
  <1>1. ASSUME NEW here, NEW next, At("httpd", here, next)
        PROVE  /\ pc["httpd"] = here /\ pc'["httpd"] = next
               /\ pc'["main"] = pc["main"] /\ pc'["sys_evt"] = pc["sys_evt"]
               /\ Early => Early'
               /\ here # "idle" => pc["main"] = "done" /\ s_want_sta /\ mode # "null"
    <2>1. /\ pc["httpd"] = here /\ pc'["httpd"] = next
          /\ pc'["main"] = pc["main"] /\ pc'["sys_evt"] = pc["sys_evt"]
      BY <1>1, GotoPc DEF At, Tasks
    <2>2. QED
      BY <2>1 DEF Early, ApTask, ApEarly, BootInv
  <1>2. CASE \/ StopTimerAt("httpd", "save_timer", "save_dns")
             \/ StopDnsAt("httpd", "save_dns", "save_mode")
             \/ Configure("save_config", "save_active")
             \/ Configure("retry_config", "connect")
    <2>1. PICK here \in HttpdLabel \ {"connect"}, next \in HttpdLabel :
              At("httpd", here, next) /\ (next \in SaveLate => here \in SaveLate)
      BY <1>2 DEF StopTimerAt, StopDnsAt, Configure, HttpdLabel, SaveLate
    <2>2. UNCHANGED <<s_ap_active, s_want_sta, mode, events, link>>
      BY <1>2 DEF StopTimerAt, StopDnsAt, Configure, flags, driver
    <2>3. (Landing => Landing') /\ (Trying => Trying')
      BY <1>1, <2>1, <2>2 DEF Landing, Trying
    <2>4. QED
      BY <1>1, <2>1, <2>2, <2>3 DEF FlagInv, Raised, Recovering
  <1>3. CASE CallSetMode("httpd", "save_mode", "save_config", "sta")
    <2>1. At("httpd", "save_mode", "save_config") /\ SetMode("sta")
          /\ UNCHANGED s_ap_active
      BY <1>3 DEF CallSetMode, flags
    <2>2. QED
      BY <1>1, <2>1, FlagToSta
  <1>4. CASE LeaveAp("httpd", "save_active", "connect")
    <2>1. /\ At("httpd", "save_active", "connect") /\ s_ap_active' = FALSE
          /\ UNCHANGED <<s_want_sta, mode, events, link>>
      BY <1>4 DEF LeaveAp, driver
    <2>2. mode = "apsta" =>
            /\ Landing' /\ Trying'
            /\ \/ Pending(events, "AP_START")' \/ pc'["sys_evt"] = "ip_mode"
               \/ pc'["sys_evt"] \notin ApEarly
      BY <1>1, <2>1 DEF FlagInv, Raised, Landing, Trying, SaveLate
    <2>3. QED
      BY <1>1, <2>1, <2>2 DEF FlagInv, Raised, Recovering, SaveLate
  <1>5. CASE CallSetMode("httpd", "retry_mode", "retry_config", "apsta")
    <2>1. /\ At("httpd", "retry_mode", "retry_config") /\ SetMode("apsta")
          /\ UNCHANGED <<s_ap_active, s_want_sta>>
      BY <1>5 DEF CallSetMode, flags
    <2>2. mode' = "apsta" /\ UNCHANGED link
      BY <2>1 DEF SetMode
    <2>3. CASE mode = "apsta"
      <3>1. UNCHANGED events
        BY <2>1, <2>3, SetModeStep
      <3>2. (Landing => Landing') /\ (Trying => Trying')
        BY <1>1, <2>1, <2>2, <3>1 DEF Landing, Trying
      <3>3. QED
        BY <1>1, <2>1, <2>2, <2>3, <3>1, <3>2 DEF FlagInv, Raised, Recovering, SaveLate
    <2>4. CASE mode # "apsta"
      <3>1. Pending(events, "AP_START")'
        BY <1>1, <2>1, <2>4, SetModeStep, PostStep DEF Event
      <3>2. QED
        BY <1>1, <2>1, <2>2, <3>1 DEF FlagInv, SaveLate
    <2>5. QED
      BY <2>3, <2>4
  <1>6. QED
    BY <1>2, <1>3, <1>4, <1>5, ConnectFlag DEF Httpd, Handler

LEMMA RequestsFlag ==
  ASSUME TypeInv, FlagInv, Requests
  PROVE  FlagInv'
  <1>1. /\ pc["httpd"] = "idle" /\ UNCHANGED <<s_ap_active, mode, events, link>>
        /\ s_want_sta => s_want_sta'
        /\ \/ UNCHANGED pc
           \/ \E next \in {"save_timer", "retry_mode", "retry_config"} :
                  Goto("httpd", next)
    BY DEF Requests, Poll, RetrySaved, SaveFails, SaveAndConnect, ImportConfig,
           Request, flags, driver
  <1>2. /\ pc'["main"] = pc["main"] /\ pc'["sys_evt"] = pc["sys_evt"]
        /\ pc'["httpd"] \in {"idle", "save_timer", "retry_mode", "retry_config"}
    BY <1>1, GotoPc DEF Tasks
  <1>3. (Early => Early') /\ (Landing => Landing') /\ (Trying => Trying')
    BY <1>1, <1>2 DEF Early, ApTask, Landing, Trying
  <1>4. QED
    BY <1>1, <1>2, <1>3 DEF FlagInv, Raised, Recovering, SaveLate

LEMMA RadioFlag ==
  ASSUME TypeInv, FlagInv, Radio
  PROVE  FlagInv'
  <1>1. /\ UNCHANGED <<s_ap_active, s_want_sta, mode, pc>>
        /\ \/ link' \in Networks /\ Post("GOT_IP")
           \/ link' = "down" /\ Post("DISCONNECTED")
    BY DEF Radio, JoinEnds, LinkLost, flags, TypeInv, DriverType
  <1>2. \A f \in Event : Pending(events, f) => Pending(events, f)'
    BY <1>1, PostStep DEF Event
  <1>3. Landing' /\ Trying'
    BY <1>1, PostStep, NetworkAssumption DEF Landing, Trying, Event
  <1>4. QED
    BY <1>1, <1>2, <1>3 DEF FlagInv, Raised, Recovering, Early, Event

LEMMA BootFlag ==
  ASSUME TypeInv, BootInv, FlagInv, BootSta \/ BootAp \/ BootWait
  PROVE  FlagInv'
  <1>1. CASE BootSta
    BY <1>1 DEF FlagInv, BootSta
  <1>2. CASE BootAp \/ BootWait
    <2>1. PICK here \in {"init", "wait"}, next \in {"done", "ap_active"} :
              At("main", here, next)
      BY <1>2 DEF BootAp, BootWait, Jump
    <2>2. UNCHANGED <<s_ap_active, s_want_sta, mode, events, link>>
      BY <1>2 DEF BootAp, BootWait, Jump, flags, driver
    <2>3. /\ pc["main"] = here /\ pc'["main"] = next
          /\ pc'["sys_evt"] = pc["sys_evt"] /\ pc'["httpd"] = pc["httpd"]
      BY <2>1, GotoPc DEF At, Tasks
    <2>4. (Early => Early') /\ (Landing => Landing') /\ ~Recovering
      BY <2>2, <2>3 DEF Early, ApTask, ApEarly, Landing, Recovering
    <2>5. QED
      BY <2>2, <2>3, <2>4 DEF FlagInv, Raised
  <1>3. QED
    BY <1>1, <1>2

LEMMA OthersFlag ==
  ASSUME TypeInv, FlagInv, EspTimer \/ PageClosed \/ \E n \in Networks : AirChanges(n)
  PROVE  FlagInv'
  <1>1. CASE CallConnect("esp_timer")
    BY <1>1, ConnectFlag
  <1>2. CASE RetryConnected \/ RetryDue \/ PageClosed \/ \E n \in Networks : AirChanges(n)
    <2>1. UNCHANGED pc \/ \E next : Goto("esp_timer", next)
      BY <1>2 DEF RetryConnected, RetryDue, PageClosed, AirChanges, Jump, At
    <2>2. \A t \in {"main", "sys_evt", "httpd"} : pc'[t] = pc[t]
      BY <2>1, GotoPc DEF Tasks
    <2>3. UNCHANGED <<s_ap_active, s_want_sta, mode, events, link>>
      BY <1>2 DEF RetryConnected, RetryDue, PageClosed, AirChanges, Jump, flags, driver
    <2>4. (Early => Early') /\ (Landing => Landing') /\ (Trying => Trying')
      BY <2>2, <2>3 DEF Early, ApTask, Landing, Trying
    <2>5. QED
      BY <2>2, <2>3, <2>4 DEF FlagInv, Raised, Recovering
  <1>3. QED
    BY <1>1, <1>2 DEF EspTimer

LEMMA FlagCorrect == SafetySpec => []FlagInv
  <1>1. Init => FlagInv
    BY DEF Init, FlagInv, Tasks, SaveLate
  <1>2. TypeInv /\ BootInv /\ QueueInv /\ FlagInv /\ [Next]_vars => FlagInv'
    <2> SUFFICES ASSUME TypeInv, BootInv, QueueInv, FlagInv, [Next]_vars PROVE FlagInv'
      OBVIOUS
    <2>1. CASE UNCHANGED vars
      BY <2>1 DEF vars, FlagInv, Raised, Landing, Trying, Recovering, Early
    <2>2. CASE Restart
      BY <2>2, BootPc DEF Restart, FlagInv, SaveLate
    <2>3. QED
      BY <2>1, <2>2, BootFlag, StartApFlag, SysEvtFlag, HttpdFlag, RequestsFlag,
         RadioFlag, OthersFlag
      DEF Next, Main, SysEvt, SysEvtOwn, ApTask
  <1>3. QED
    BY <1>1, <1>2, TypeInvCorrect, BootCorrect, QueueCorrect, PTL DEF SafetySpec

----------------------------------------------------------------------------
(* The captive portal.  It answers only with the SoftAP on, or until the   *)
(* address that is on its way to sys_evt ends it.                          *)

DnsInv ==
    /\ s_running => \/ mode = "apsta" \/ Pending(events, "GOT_IP")
                    \/ pc["sys_evt"] \in IpEarly
    /\ pc["sys_evt"] \in {"ip_active", "ip_mode"} => ~s_running
    /\ pc["httpd"] = "save_mode" => ~s_running
    /\ \A t \in ApTask : pc[t] = "ap_dns" /\ ~Saved =>
           mode = "apsta" \/ Pending(events, "GOT_IP")

(* Steps that neither start the portal, nor end what keeps it right.       *)
LEMMA DnsFrame ==
  ASSUME DnsInv, UNCHANGED wifi_ssid, mode = "apsta" => mode' = "apsta",
         s_running' => s_running,
         Pending(events, "GOT_IP") => Pending(events, "GOT_IP")',
         pc["sys_evt"] \in IpEarly => pc'["sys_evt"] \in IpEarly,
         pc'["sys_evt"] \in {"ip_active", "ip_mode"} =>
             pc["sys_evt"] \in {"ip_active", "ip_mode"},
         pc'["httpd"] = "save_mode" => pc["httpd"] = "save_mode",
         \A t \in ApTask : pc'[t] = "ap_dns" => pc[t] = "ap_dns"
  PROVE  DnsInv'
  BY DEF DnsInv, Saved

LEMMA MainDns ==
  ASSUME TypeInv, BootInv, DnsInv, BootSta \/ BootAp \/ BootWait
  PROVE  DnsInv'
  <1>1. PICK next \in {"wait", "done", "ap_active"} : Goto("main", next)
    BY DEF BootSta, BootAp, BootWait, Jump, At
  <1>2. /\ pc'["main"] = next /\ pc["main"] \in {"init", "wait"}
        /\ pc'["sys_evt"] = pc["sys_evt"] /\ pc'["httpd"] = pc["httpd"]
    BY <1>1, GotoPc DEF BootSta, BootAp, BootWait, Jump, At, Tasks
  <1>3. CASE BootSta
    <2>1. ~s_running /\ pc["sys_evt"] = "idle" /\ UNCHANGED s_running
      BY <1>3 DEF BootInv, BootSta, At
    <2>2. QED
      BY <1>2, <2>1 DEF DnsInv, ApTask
  <1>4. CASE BootAp \/ BootWait
    <2>1. UNCHANGED <<wifi_ssid, mode, events, s_running>>
      BY <1>4 DEF BootAp, BootWait, Jump, saved, misc, driver
    <2>2. \A t \in ApTask : pc'[t] = "ap_dns" => pc[t] = "ap_dns"
      BY <1>2 DEF ApTask
    <2>3. QED
      BY <1>2, <2>1, <2>2, DnsFrame
  <1>5. QED
    BY <1>3, <1>4

LEMMA StartApDns ==
  ASSUME TypeInv, BootInv, OfflineInv, DnsInv, NEW t \in ApTask, StartAp(t)
  PROVE  DnsInv'
  <1>1. PICK next \in ApLabel \cup {End(t)} : Goto(t, next) /\ pc[t] \in ApLabel
    BY DEF StartAp, ApActive, ApConnected, ApWant, CallSetMode, ApDns, ApTimer,
           ApCreate, ApStart, Jump, At, ApLabel, ApEarly
  <1>2. /\ t \in Tasks /\ pc'[t] = next /\ \A u \in Tasks : u # t => pc'[u] = pc[u]
        /\ {"main", "sys_evt", "httpd"} \subseteq Tasks
        /\ t = "main" \/ t = "sys_evt"
    BY <1>1, GotoPc DEF ApTask, Tasks
  <1>3. /\ pc'["httpd"] = pc["httpd"]
        /\ pc["sys_evt"] \in IpEarly => pc'["sys_evt"] = pc["sys_evt"]
        /\ pc'["sys_evt"] \in IpLabel => t = "main" /\ pc'["sys_evt"] = pc["sys_evt"]
    BY <1>1, <1>2 DEF ApLabel, ApEarly, IpLabel, IpEarly, End
  <1>4. CASE ApDns(t)
    <2>1. /\ pc[t] = "ap_dns" /\ pc'[t] # "ap_dns"
          /\ UNCHANGED <<wifi_ssid, mode, events>>
      <3>1. PICK n \in {"ap_timer", "done", "idle"} : Goto(t, n)
        BY <1>4 DEF ApDns, At, End
      <3>2. QED
        BY <1>2, <1>4, <3>1, GotoPc DEF ApDns, At, saved, driver
    <2>2. s_running' => ~Saved
      BY <1>4 DEF ApDns
    <2>3. s_running' => mode = "apsta" \/ Pending(events, "GOT_IP")
      BY <2>1, <2>2 DEF DnsInv
    <2>4. pc'["sys_evt"] \in {"ip_active", "ip_mode"} => Saved
      BY <1>3, <2>1 DEF OfflineInv, IpLabel
    <2>5. pc'["httpd"] = "save_mode" => Saved
      BY <1>3 DEF BootInv
    <2>6. \A u \in ApTask : pc'[u] = "ap_dns" => pc[u] = "ap_dns"
      BY <1>2, <2>1 DEF ApTask
    <2>7. QED
      BY <2>1, <2>2, <2>3, <2>4, <2>5, <2>6 DEF DnsInv, Saved
  <1>5. CASE CallSetMode(t, "ap_mode", "ap_dns", "apsta")
    <2>1. mode' = "apsta" /\ UNCHANGED s_running
      BY <1>5 DEF CallSetMode, SetMode, misc
    <2>2. QED
      BY <1>3, <2>1 DEF DnsInv, IpLabel
  <1>6. CASE ApActive(t) \/ ApConnected(t) \/ ApWant(t) \/ ApTimer(t) \/ ApCreate(t)
             \/ ApStart(t)
    <2>1. /\ pc'[t] # "ap_dns" /\ UNCHANGED <<wifi_ssid, mode, events, s_running>>
      BY <1>2, <1>6, GotoPc
      DEF ApActive, ApConnected, ApWant, ApTimer, ApCreate, ApStart, Jump, At, End,
          saved, misc, driver
    <2>2. \A u \in ApTask : pc'[u] = "ap_dns" => pc[u] = "ap_dns"
      BY <1>2, <2>1 DEF ApTask
    <2>3. QED
      BY <1>3, <2>1, <2>2, DnsFrame DEF IpLabel
  <1>7. QED
    BY <1>4, <1>5, <1>6 DEF StartAp

LEMMA SysEvtDns ==
  ASSUME TypeInv, BootInv, OfflineInv, DnsInv, SysEvtOwn
  PROVE  DnsInv'
  <1>1. ASSUME NEW next, Goto("sys_evt", next)
        PROVE  /\ pc'["sys_evt"] = next /\ pc'["httpd"] = pc["httpd"]
               /\ pc'["main"] = pc["main"]
               /\ next # "ap_dns" => \A t \in ApTask : pc'[t] = "ap_dns" =>
                                         t = "main" /\ pc[t] = "ap_dns"
    BY <1>1, GotoPc DEF Tasks, ApTask
  <1>2. Pending(events, "GOT_IP") \/ pc["sys_evt"] \in IpLabel =>
            (\A t \in ApTask : t = "main" /\ pc[t] = "ap_dns" => Saved)
    BY DEF OfflineInv
  <1>3. CASE OnGotIp
    <2>1. Take("GOT_IP", "ip_connected") /\ UNCHANGED <<wifi_ssid, s_running>>
      BY <1>3 DEF OnGotIp, saved, misc
    <2>2. /\ Pending(events, "GOT_IP") /\ Goto("sys_evt", "ip_connected")
          /\ UNCHANGED mode
      BY <2>1, TakeStep DEF Event
    <2>3. QED
      BY <1>1, <1>2, <2>1, <2>2 DEF DnsInv, IpEarly, Saved
  <1>4. CASE OnStaStart \/ OnDisconnected \/ OnApStart \/ OnApStop
    <2>1. PICK e \in Event \ {"GOT_IP"}, next \in {"connect", "idle", "lost"} :
              Take(e, next)
      BY <1>4 DEF OnStaStart, OnDisconnected, OnApStart, OnApStop, Event
    <2>2. UNCHANGED <<wifi_ssid, s_running>>
      BY <1>4 DEF OnStaStart, OnDisconnected, OnApStart, OnApStop, saved, misc
    <2>3. /\ pc["sys_evt"] = "idle" /\ Goto("sys_evt", next) /\ UNCHANGED mode
          /\ Pending(events, "GOT_IP") => Pending(events, "GOT_IP")'
      BY <2>1, TakeStep DEF Event
    <2>4. QED
      BY <1>1, <2>1, <2>2, <2>3, DnsFrame DEF IpEarly
  <1>5. CASE CallSetMode("sys_evt", "ip_mode", "ip_bit", "sta")
    <2>1. /\ pc["sys_evt"] = "ip_mode" /\ Goto("sys_evt", "ip_bit")
          /\ UNCHANGED <<wifi_ssid, s_running>>
      BY <1>5 DEF CallSetMode, At, saved, misc
    <2>2. ~s_running' /\ \A t \in ApTask : pc'[t] = "ap_dns" => Saved'
      BY <1>1, <1>2, <2>1 DEF DnsInv, IpLabel, Saved
    <2>3. QED
      BY <2>2 DEF DnsInv
  <1>6. CASE \/ Ignore \/ Reconnect \/ GiveUp \/ CallConnect("sys_evt")
             \/ IpConnected \/ IpBit
             \/ StopTimerAt("sys_evt", "ip_timer", "ip_dns")
             \/ LeaveAp("sys_evt", "ip_active", "ip_mode")
    <2>1. PICK next :
              /\ Goto("sys_evt", next) /\ next # "ap_dns"
              /\ pc["sys_evt"] \in IpEarly => next \in IpEarly
              /\ next \in {"ip_active", "ip_mode"} => pc["sys_evt"] = "ip_active"
      BY <1>6
      DEF Ignore, Reconnect, GiveUp, CallConnect, IpConnected, IpBit, StopTimerAt,
          LeaveAp, Jump, At, IpEarly
    <2>2. UNCHANGED <<wifi_ssid, s_running, mode, events>>
      BY <1>6
      DEF Ignore, Reconnect, GiveUp, CallConnect, IpConnected, IpBit, StopTimerAt,
          LeaveAp, Jump, saved, misc, driver
    <2>3. QED
      BY <1>1, <2>1, <2>2, DnsFrame
  <1>7. CASE StopDnsAt("sys_evt", "ip_dns", "ip_active")
    <2>1. /\ Goto("sys_evt", "ip_active") /\ s_running' = FALSE
          /\ UNCHANGED <<wifi_ssid, mode, events>>
      BY <1>7 DEF StopDnsAt, At, saved, driver
    <2>2. QED
      BY <1>1, <2>1 DEF DnsInv, Saved
  <1>8. QED
    BY <1>3, <1>4, <1>5, <1>6, <1>7 DEF SysEvtOwn, OnIp

LEMMA HttpdDns ==
  ASSUME TypeInv, BootInv, DnsInv, Httpd
  PROVE  DnsInv'
  <1>1. PICK next : Goto("httpd", next) /\ pc["httpd"] # "idle"
    BY DEF Httpd, Handler, CallConnect, StopTimerAt, StopDnsAt, CallSetMode,
           Configure, LeaveAp, At
  <1>2. /\ pc'["httpd"] = next /\ pc'["sys_evt"] = pc["sys_evt"]
        /\ \A t \in ApTask : pc'[t] = pc[t]
    BY <1>1, GotoPc DEF Tasks, ApTask
  <1>3. Saved /\ UNCHANGED wifi_ssid
    BY <1>1 DEF BootInv, Httpd, Handler, CallConnect, StopTimerAt, StopDnsAt,
                CallSetMode, Configure, LeaveAp, saved
  <1>4. CASE CallSetMode("httpd", "save_mode", "save_config", "sta")
    <2>1. pc["httpd"] = "save_mode" /\ UNCHANGED s_running
      BY <1>4 DEF CallSetMode, At, misc
    <2>2. QED
      BY <1>3, <2>1 DEF DnsInv, Saved
  <1>5. CASE CallSetMode("httpd", "retry_mode", "retry_config", "apsta")
    <2>1. Goto("httpd", "retry_config") /\ mode' = "apsta" /\ UNCHANGED s_running
      BY <1>5 DEF CallSetMode, SetMode, At, misc
    <2>2. pc'["httpd"] = "retry_config"
      BY <2>1, GotoPc DEF Tasks
    <2>3. QED
      BY <1>2, <2>1, <2>2 DEF DnsInv
  <1>6. CASE StopDnsAt("httpd", "save_dns", "save_mode")
    <2>1. s_running' = FALSE
      BY <1>6 DEF StopDnsAt
    <2>2. QED
      BY <1>3, <2>1 DEF DnsInv, Saved
  <1>7. CASE \/ StopTimerAt("httpd", "save_timer", "save_dns")
             \/ Configure("save_config", "save_active")
             \/ LeaveAp("httpd", "save_active", "connect")
             \/ Configure("retry_config", "connect") \/ CallConnect("httpd")
    <2>1. /\ UNCHANGED <<mode, events, s_running>>
          /\ \E n \in {"save_dns", "save_active", "connect", "idle"} : Goto("httpd", n)
      BY <1>7 DEF StopTimerAt, Configure, LeaveAp, CallConnect, At, misc, driver
    <2>2. pc'["httpd"] # "save_mode"
      BY <2>1, GotoPc DEF Tasks
    <2>3. QED
      BY <1>2, <1>3, <2>1, <2>2, DnsFrame
  <1>8. QED
    BY <1>4, <1>5, <1>6, <1>7 DEF Httpd, Handler

LEMMA RequestsDns ==
  ASSUME TypeInv, QueueInv, DnsInv, Requests
  PROVE  DnsInv'
  <1>1. /\ Request /\ UNCHANGED <<mode, events, s_running>>
        /\ \/ UNCHANGED pc
           \/ \E next \in {"save_timer", "retry_mode", "retry_config"} :
                  Goto("httpd", next)
    BY DEF Requests, Poll, RetrySaved, SaveFails, SaveAndConnect, ImportConfig, misc,
           driver
  <1>2. /\ \A t \in ApTask : pc'[t] = pc[t]
        /\ pc'["sys_evt"] = pc["sys_evt"] /\ pc'["httpd"] # "save_mode"
    BY <1>1, GotoPc DEF Request, Tasks, ApTask
  <1>3. \A t \in ApTask : pc[t] = "ap_dns" =>
            mode = "apsta" \/ Pending(events, "GOT_IP")
    BY <1>1 DEF Request, ApTask, QueueInv, Falling, ApLabel
  <1>4. QED
    BY <1>1, <1>2, <1>3 DEF DnsInv

LEMMA OthersDns ==
  ASSUME TypeInv, DnsInv,
         EspTimer \/ Radio \/ PageClosed \/ \E n \in Networks : AirChanges(n)
  PROVE  DnsInv'
  <1>1. UNCHANGED pc \/ \E next : Goto("esp_timer", next)
    BY DEF EspTimer, RetryConnected, RetryDue, CallConnect, Radio, JoinEnds, LinkLost,
           PageClosed, AirChanges, Jump, At
  <1>2. \A t \in Tasks \ {"esp_timer"} : pc'[t] = pc[t]
    BY <1>1, GotoPc DEF Tasks
  <1>3. UNCHANGED <<wifi_ssid, mode, s_running>>
    BY DEF EspTimer, RetryConnected, RetryDue, CallConnect, Radio, JoinEnds, LinkLost,
           PageClosed, AirChanges, Jump, saved, misc, driver
  <1>4. UNCHANGED events \/ Post("GOT_IP") \/ Post("DISCONNECTED")
    BY DEF EspTimer, RetryConnected, RetryDue, CallConnect, Radio, JoinEnds, LinkLost,
           PageClosed, AirChanges, Jump, driver
  <1>5. Pending(events, "GOT_IP") => Pending(events, "GOT_IP")'
    BY <1>4, PostStep DEF Event
  <1>6. QED
    BY <1>2, <1>3, <1>5, DnsFrame DEF Tasks, ApTask

LEMMA DnsCorrect == SafetySpec => []DnsInv
  <1>1. Init => DnsInv
    BY DEF Init, DnsInv, Tasks, ApTask
  <1>2. /\ TypeInv /\ BootInv /\ OfflineInv /\ QueueInv /\ DnsInv
        /\ [Next]_vars
        => DnsInv'
    <2> SUFFICES ASSUME TypeInv, BootInv, OfflineInv, QueueInv, DnsInv, [Next]_vars
                 PROVE  DnsInv'
      OBVIOUS
    <2>1. CASE UNCHANGED vars
      BY <2>1, DnsFrame DEF vars
    <2>2. CASE Restart
      BY <2>2, BootPc DEF Restart, DnsInv, ApTask
    <2>3. QED
      BY <2>1, <2>2, MainDns, StartApDns, SysEvtDns, HttpdDns, RequestsDns, OthersDns
      DEF Next, Main, SysEvt, SysEvtOwn, ApTask
  <1>3. QED
    BY <1>1, <1>2, TypeInvCorrect, BootCorrect, OfflineCorrect, QueueCorrect, PTL
    DEF SafetySpec

(* When nothing is under way, s_ap_active says what the driver does and    *)
(* the captive portal runs only with the SoftAP, whichever of start_ap,    *)
(* on_wifi, on_ip and network_save_and_connect wrote the flag last.        *)
THEOREM ApFlagAgreesHolds == SafetySpec => []ApFlagAgrees
  <1>1. TypeInv /\ BootInv /\ FlagInv /\ DnsInv => ApFlagAgrees
    <2> SUFFICES ASSUME TypeInv, BootInv, FlagInv, DnsInv, Settled
                 PROVE  (s_ap_active <=> mode = "apsta") /\ (s_running => s_ap_active)
      BY DEF ApFlagAgrees
    <2>1. /\ \A t \in {"main", "sys_evt", "httpd"} : pc[t] \in {"idle", "done"}
          /\ \A e \in Event : ~Pending(events, e)
          /\ link # "joining"
      BY EmptyQueue DEF Settled, Tasks
    <2>2. ~Early /\ ~Trying
      BY <2>1 DEF Early, Trying, ApTask, ApEarly, IpEarly, Event
    <2>3. s_ap_active <=> mode = "apsta"
      BY <2>1, <2>2 DEF FlagInv, Recovering, Event
    <2>4. s_running => mode = "apsta"
      BY <2>1 DEF DnsInv, IpEarly, Event
    <2>5. QED
      BY <2>3, <2>4
  <1>2. QED
    BY <1>1, TypeInvCorrect, BootCorrect, FlagCorrect, DnsCorrect, PTL
==============================================================================
