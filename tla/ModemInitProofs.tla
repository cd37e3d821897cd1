--------------------------- MODULE ModemInitProofs ---------------------------
(***************************************************************************)
(* What holds of the start-up of a modem for every set of lines, every     *)
(* configuration and every bound: the types, that no command that needs    *)
(* the card goes out before the card has answered, and that the reload     *)
(* loop is one timer, which no stale slot number deletes on a span that    *)
(* was found switched on.                                                  *)
(***************************************************************************)
EXTENDS ModemInit, TLAPS

\* The states before the card has answered.
WithoutCard == {"DOWN"} \cup Early \cup UpdateStates \cup
    {"MANUFACTURER_REQ", "VERSION_REQ", "SIM_SELECT_1", "SIM_SELECT_2", "SIM_SELECT_3",
     "IMEI_REQ", "SIM_READY_REQ"}
Sent == States \cup {"none", "WIND", "RESET", "CHECK", "UPDATE", "AT", "PIN", "NET_NAME"}
Cards == {"none", "SIM_READY", "SIM_PIN_REQ"}
------------------------------------------------------------------------------
(* The tables of the start-up.                                             *)

\* The states a table leads to; those up to the card lead to no state that
\* needs it.
LEMMA Tables ==
    /\ \A s \in DOMAIN Settle : Settle[s] \in Early
    /\ \A s \in DOMAIN AsksNext : AsksNext[s] \in WithoutCard \cap States
    /\ \A s \in DOMAIN ImeiNext : ImeiNext[s] \in WithoutCard \cap States
    /\ \A s \in DOMAIN SelectSim : SelectSim[s] \in WithoutCard \cap States
    /\ \A s \in DOMAIN Volumes : s \notin WithoutCard /\ Volumes[s] \in States
    /\ \A s \in DOMAIN Notify : s \notin WithoutCard /\ Notify[s] \in States
<1>1. \A s \in DOMAIN Settle : Settle[s] \in Early
    BY DEF Settle, Early
<1>2. \A s \in DOMAIN AsksNext : AsksNext[s] \in WithoutCard \cap States
    BY DEF AsksNext, WithoutCard, States, BelowReady
<1>3. \A s \in DOMAIN ImeiNext : ImeiNext[s] \in WithoutCard \cap States
    BY DEF ImeiNext, WithoutCard, States, BelowReady
<1>4. \A s \in DOMAIN SelectSim : SelectSim[s] \in WithoutCard \cap States
    BY DEF SelectSim, WithoutCard, States, BelowReady
<1>5. \A s \in DOMAIN Volumes : s \notin WithoutCard /\ Volumes[s] \in States
    BY DEF Volumes, WithoutCard, States, BelowReady, AboveReady, Early, UpdateStates
<1>6. \A s \in DOMAIN Notify : s \notin WithoutCard /\ Notify[s] \in States
    BY DEF Notify, WithoutCard, States, BelowReady, AboveReady, Early, UpdateStates
<1> QED BY <1>1, <1>2, <1>3, <1>4, <1>5, <1>6
------------------------------------------------------------------------------
(* The types.                                                              *)

\* The states the handlers name, and those that are before the card.
LEMMA StateNames ==
    /\ \A s \in {"INIT", "UP", "SEND_HANGUP", "MODEL_NAME_REQ", "UPDATE_1", "UPDATE_2",
                 "UPDATE_SUCCESS", "MANUFACTURER_REQ", "SIM_READY_REQ"} :
          s \in WithoutCard /\ s \in States
    /\ \A s \in {"SIM_PIN_REQ", "INIT_4", "IMSI_REQ", "MOC_STATE_ENABLED", "SET_SPEAKER",
                 "CLIP_ENABLED", "SET_GAIN_INDEX", "SET_SIDE_TONE", "SET_NOISE_CANCEL",
                 "DEL_SIM_MSG", "SET_SPEEK_VOL", "NET_REQ", "NET_OK", "GET_SMSC_REQ",
                 "SMS_SET_CHARSET", "SMS_SET_INDICATION", "AT_MODE", "NET_NAME_REQ", "READY"} :
          s \notin WithoutCard /\ s \in States
    /\ Early \subseteq WithoutCard /\ Early \subseteq States
    /\ UpdateStates \subseteq WithoutCard /\ UpdateStates \subseteq States
    /\ "DOWN" \in WithoutCard /\ "DOWN" \in States
    /\ WithoutCard \subseteq States
    BY DEF States, WithoutCard, Early, UpdateStates, BelowReady, AboveReady

\* What the library sent last is the command of a state or one of these.
LEMMA SentNames ==
    /\ States \subseteq Sent
    /\ \A c \in {"none", "WIND", "RESET", "CHECK", "UPDATE", "AT", "PIN", "NET_NAME"} : c \in Sent
    BY DEF Sent

\* The parts of TypeOK, for the proofs that a step keeps them.
CommandsOK == state \in States /\ last \in Sent /\ wind \subseteq {"SIM_REMOVED", "SIM_INSERTED", "BASIC"}
CardOK == sim \in Cards /\ got \in BOOLEAN
NetOK == home \in BOOLEAN /\ signal \in BOOLEAN
CmeOK == cme \in 0..CmeLimit + 1
ReloadOK == retries \in -1..RetryLimit /\ rounds \in 0..AutoReset /\ loop \in BOOLEAN
            /\ resetting \in BOOLEAN
TimersOK == /\ retrans \in 0..MaxSched /\ sched \in [Slots -> Callbacks]
            /\ again \in {"none", "SIM_READY_REQ", "DEL_SIM_MSG"}
HostOK == detected \in BOOLEAN /\ powered \in BOOLEAN /\ config \in [optional : Configs, update : Updates]

Types == CommandsOK /\ CardOK /\ NetOK /\ CmeOK /\ ReloadOK /\ TimersOK /\ HostOK

\* Quiet steps keep everything but the command.
LEMMA QuietTypes ==
    ASSUME Types, Quiet, CommandsOK', CmeOK'
    PROVE  Types'
    BY DEF Types, Quiet, cardVars, netVars, reloadVars, timerVars, hostVars, CardOK, NetOK,
       ReloadOK, TimersOK, HostOK

\* A timer is armed in a free slot, the others stay.
LEMMA ArmTypes ==
    ASSUME NEW sc \in [Slots -> Callbacks], NEW cb \in Callbacks, Arm(sc, cb)
    PROVE  sched' \in [Slots -> Callbacks]
    BY DEF Arm

\* A deleted timer leaves the table typed.
LEMMA DeletedTypes ==
    ASSUME NEW sc \in [Slots -> Callbacks], NEW id
    PROVE  Deleted(sc, id) \in [Slots -> Callbacks]
    BY DEF Deleted, Callbacks

LEMMA CmeTypes ==
    ASSUME Types, NEW l, cme' = Counted(l)
    PROVE  CmeOK'
    BY ModemInitAssumption DEF Types, CmeOK, Counted, Overdue

LEMMA TypesInit == Init => Types
<1> SUFFICES ASSUME Init
             PROVE  Types
    OBVIOUS
<1>1. CommandsOK /\ CardOK /\ NetOK /\ HostOK
    BY StateNames, SentNames, ModemInitAssumption
    DEF Init, Types, CommandsOK, CardOK, NetOK, HostOK, Cards
<1>2. CmeOK /\ ReloadOK
    <2>1. loop \in BOOLEAN
        BY <1>1 DEF Init, HostOK
    <2>2. 0 \in 0..CmeLimit + 1 /\ 0 \in -1..RetryLimit /\ 0 \in 0..AutoReset
        BY ModemInitAssumption
    <2> QED BY <2>1, <2>2 DEF Init, CmeOK, ReloadOK
<1>3. TimersOK
    BY ModemInitAssumption DEF Init, TimersOK, Slots, Callbacks
<1> QED BY <1>1, <1>2, <1>3 DEF Types

\* The lines up to the card.
LEMMA TypesEarly ==
    ASSUME Types, NEW l, CmeOK',
           Rebooted(l) \/ DownLine(l) \/ InitLine(l) \/ UpLine(l) \/ ReportLine(l)
             \/ UpdateLine(l) \/ ModelLine(l)
    PROVE  Types'
<1> USE DEF Types, cardVars, netVars, reloadVars, timerVars, hostVars, commandVars
<1>1. CommandsOK
    BY DEF Types
<1>2. CASE Rebooted(l)
    <2>1. CommandsOK'
        BY <1>2, StateNames, SentNames DEF Rebooted, CommandsOK
    <2> QED BY <1>2, <2>1, QuietTypes DEF Rebooted
<1>3. CASE DownLine(l)
    BY <1>1, <1>3, QuietTypes DEF DownLine, Stay, CommandsOK
<1>4. CASE InitLine(l)
    <2>1. wind' \subseteq {"SIM_REMOVED", "SIM_INSERTED", "BASIC"}
        BY <1>1, <1>4 DEF InitLine, CommandsOK, Announced, Bits
    <2>2. state' \in States /\ last' \in Sent /\ detected' \in BOOLEAN
        BY <1>1, <1>4, StateNames, SentNames DEF InitLine, CommandsOK, HostOK
    <2> QED BY <1>4, <2>1, <2>2
            DEF InitLine, Types, CommandsOK, CardOK, NetOK, ReloadOK, TimersOK, HostOK
<1>5. CASE UpLine(l)
    <2>1. CommandsOK'
        BY <1>1, <1>5, StateNames, SentNames DEF UpLine, To, Stay, CommandsOK
    <2>2. retrans' \in 0..MaxSched /\ sched' \in [Slots -> Callbacks]
        BY <1>5, ModemInitAssumption DEF UpLine, TimersOK, Callbacks, Slots
    <2> QED BY <1>5, <2>1, <2>2 DEF Types, UpLine, CardOK, NetOK, ReloadOK, TimersOK, HostOK
<1>6. CASE ReportLine(l)
    <2>1. CommandsOK'
        BY <1>1, <1>6, StateNames, SentNames DEF ReportLine, To, Stay, CommandsOK
    <2> QED BY <1>6, <2>1 DEF Types, ReportLine, CardOK, NetOK, ReloadOK, TimersOK, HostOK
<1>7. CASE UpdateLine(l)
    <2>1. CommandsOK'
        BY <1>1, <1>7, StateNames, SentNames DEF UpdateLine, CommandsOK, Announced, Bits
    <2> QED BY <1>7, <2>1, QuietTypes DEF UpdateLine
<1>8. CASE ModelLine(l)
    <2>1. CommandsOK' /\ got' \in BOOLEAN
        BY <1>1, <1>8, StateNames, SentNames DEF ModelLine, To, Stay, CommandsOK, CardOK
    <2> QED BY <1>8, <2>1 DEF Types, ModelLine, CardOK, NetOK, ReloadOK, TimersOK, HostOK
<1> QED BY <1>2, <1>3, <1>4, <1>5, <1>6, <1>7, <1>8

\* The lines about the card.
LEMMA TypesCard ==
    ASSUME Types, NEW l, CmeOK',
           SimReadyLine(l) \/ SimPinLine(l) \/ Init4Line(l) \/ ImsiLine(l)
             \/ Identity(AsksNext, l) \/ Identity(ImeiNext, l)
    PROVE  Types'
<1> USE DEF Types, cardVars, netVars, reloadVars, timerVars, hostVars, commandVars
<1>1. CommandsOK /\ CardOK
    OBVIOUS
<1>2. CASE SimReadyLine(l)
    <2>1. CommandsOK'
        BY <1>1, <1>2, StateNames, SentNames DEF SimReadyLine, CommandsOK
    <2>2. CardOK'
        BY <1>1, <1>2 DEF SimReadyLine, CardOK, Cards
    <2>3. sched' \in [Slots -> Callbacks] /\ again' \in {"none", "SIM_READY_REQ", "DEL_SIM_MSG"}
        BY <1>2, ArmTypes DEF SimReadyLine, TimersOK, Callbacks
    <2>4. retries' \in -1..RetryLimit
        BY <1>2, ModemInitAssumption DEF SimReadyLine, ReloadOK
    <2> QED BY <1>2, <2>1, <2>2, <2>3, <2>4 DEF SimReadyLine, NetOK, ReloadOK, TimersOK, HostOK
<1>3. CASE SimPinLine(l)
    <2>1. CommandsOK'
        BY <1>1, <1>3, StateNames DEF SimPinLine, CommandsOK
    <2>2. retries' \in -1..RetryLimit
        BY <1>3, ModemInitAssumption DEF SimPinLine, ReloadOK
    <2> QED BY <1>3, <2>1, <2>2 DEF SimPinLine, CardOK, NetOK, ReloadOK, TimersOK, HostOK
<1>4. CASE Init4Line(l)
    <2>1. CommandsOK'
        BY <1>1, <1>4, StateNames, SentNames DEF Init4Line, To, CommandsOK
    <2> QED BY <1>4, <2>1, QuietTypes DEF Init4Line
<1>5. CASE ImsiLine(l)
    <2>1. CommandsOK' /\ got' \in BOOLEAN
        BY <1>1, <1>5, StateNames, SentNames DEF ImsiLine, To, Stay, CommandsOK, CardOK
    <2>2. sched' \in [Slots -> Callbacks]
        BY <1>5, ArmTypes DEF ImsiLine, TimersOK, Callbacks
    <2> QED BY <1>5, <2>1, <2>2 DEF ImsiLine, CardOK, NetOK, ReloadOK, TimersOK, HostOK
<1>6. CASE Identity(AsksNext, l) \/ Identity(ImeiNext, l)
    <2>1. CommandsOK' /\ got' \in BOOLEAN
        BY <1>1, <1>6, Tables, SentNames DEF Identity, To, Stay, CommandsOK, CardOK
    <2> QED BY <1>6, <2>1 DEF Identity, CardOK, NetOK, ReloadOK, TimersOK, HostOK
<1> QED BY <1>2, <1>3, <1>4, <1>5, <1>6

\* A step that waits for OK.
LEMMA TypesAcked ==
    ASSUME Types, NEW l, NEW next, CmeOK', next = "none" \/ next \in States, Acked(next, l)
    PROVE  Types'
<1> USE DEF Types, cardVars, netVars, reloadVars, timerVars, hostVars, commandVars
<1>1. CommandsOK' /\ got' \in BOOLEAN
    BY SentNames DEF Acked, To, Stay, CommandsOK, CardOK
<1>2. sched' \in [Slots -> Callbacks] /\ again' \in {"none", "SIM_READY_REQ", "DEL_SIM_MSG"}
    BY ArmTypes, StateNames DEF Acked, TimersOK, Callbacks
<1> QED BY <1>1, <1>2 DEF Acked, CardOK, NetOK, ReloadOK, TimersOK, HostOK

\* The network's news leave the rest alone.
LEMMA TypesNetwork ==
    ASSUME Types, NEW l, NEW s, NEW n \in BOOLEAN, NEW c \in BOOLEAN, CheckNetwork(l, s, n, c)
    PROVE  CommandsOK' /\ NetOK'
<1>1. CommandsOK
    BY DEF Types
<1>2. CommandsOK'
    BY <1>1, StateNames, SentNames DEF CheckNetwork, ToReady, To, Stay, CommandsOK, commandVars
<1>3. NetOK'
    BY DEF CheckNetwork, NetOK
<1> QED BY <1>2, <1>3

LEMMA TypesLate ==
    ASSUME Types, NEW l, CmeOK',
           VolumeLine(l) \/ NetReqLine(l) \/ SmscLine(l) \/ CharsetLine(l) \/ NetNameLine(l)
             \/ ReadyLine(l)
    PROVE  Types'
<1> USE DEF Types, cardVars, netVars, reloadVars, timerVars, hostVars, commandVars
<1>1. CommandsOK /\ NetOK /\ home \in BOOLEAN /\ signal \in BOOLEAN
    BY DEF NetOK
<1>2. CASE VolumeLine(l)
    <2>1. CommandsOK'
        BY <1>1, <1>2, Tables, SentNames DEF VolumeLine, To, CommandsOK
    <2> QED BY <1>2, <2>1, QuietTypes DEF VolumeLine
<1>3. CASE NetReqLine(l)
    <2>1. CommandsOK' /\ NetOK'
        <3>1. CASE last # state
            BY <1>1, <1>3, <3>1, TypesNetwork DEF NetReqLine
        <3>2. CASE last = state /\ l = "OK"
            <4>1. (To("NET_OK") \/ Stay) /\ UNCHANGED <<home, signal>>
                BY <1>3, <3>2 DEF NetReqLine, Asked
            <4> QED BY <1>1, <4>1, StateNames, SentNames DEF To, Stay, CommandsOK, NetOK
        <3>3. CASE last = state /\ l # "OK" /\ l \in Asked
            BY <1>1, <1>3, <3>3, TypesNetwork DEF NetReqLine
        <3>4. CASE last = state /\ l # "OK" /\ l \notin Asked
            BY <1>1, <1>3, <3>4, TypesNetwork DEF NetReqLine
        <3> QED BY <3>1, <3>2, <3>3, <3>4
    <2> QED BY <1>3, <2>1 DEF NetReqLine, CardOK, ReloadOK, TimersOK, HostOK
<1>4. CASE SmscLine(l)
    <2>1. CommandsOK' /\ got' \in BOOLEAN
        BY <1>1, <1>4, StateNames, SentNames DEF SmscLine, To, Stay, CommandsOK, CardOK
    <2>2. sched' \in [Slots -> Callbacks]
        BY <1>4, ArmTypes DEF SmscLine, TimersOK, Callbacks
    <2> QED BY <1>4, <2>1, <2>2 DEF SmscLine, CardOK, NetOK, ReloadOK, TimersOK, HostOK
<1>5. CASE CharsetLine(l)
    <2>1. CommandsOK'
        BY <1>1, <1>5, StateNames, SentNames DEF CharsetLine, To, Stay, CommandsOK
    <2> QED BY <1>5, <2>1, QuietTypes DEF CharsetLine
<1>6. CASE NetNameLine(l)
    <2>1. CASE l = "COPS" /\ last = state
        <3>1. state' \in States /\ last' \in Sent /\ wind' = wind
            <4>1. config.update \in {"none", "this", "other"}
                BY ModemInitAssumption DEF HostOK
            <4> QED BY <1>1, <1>6, <2>1, <4>1, StateNames, SentNames DEF NetNameLine, CommandsOK
        <3>2. sched' \in [Slots -> Callbacks] /\ retrans' \in 0..MaxSched /\ resetting' \in BOOLEAN
            <4>1. sched' = Deleted(sched, retrans) /\ retrans' = 0 /\ resetting' = FALSE
                BY <1>6, <2>1 DEF NetNameLine
            <4>2. Deleted(sched, retrans) \in [Slots -> Callbacks]
                BY DeletedTypes DEF TimersOK
            <4>3. 0 \in 0..MaxSched
                BY ModemInitAssumption
            <4> QED BY <4>1, <4>2, <4>3
        <3> QED BY <1>6, <2>1, <3>1, <3>2
                DEF NetNameLine, CommandsOK, CardOK, NetOK, ReloadOK, TimersOK, HostOK
    <2>2. CASE ~(l = "COPS" /\ last = state)
        BY <1>1, <1>6, <2>2, TypesNetwork DEF NetNameLine, CardOK, ReloadOK, TimersOK, HostOK
    <2> QED BY <2>1, <2>2
<1>7. CASE ReadyLine(l)
    BY <1>1, <1>7, TypesNetwork DEF ReadyLine, CardOK, ReloadOK, TimersOK, HostOK
<1> QED BY <1>2, <1>3, <1>4, <1>5, <1>6, <1>7

\* A line of the modem keeps the types.
LEMMA TypesLine ==
    ASSUME Types, NEW l, Line(l)
    PROVE  Types'
<1>1. CmeOK'
    BY CmeTypes DEF Line
<1>2. CASE Rebooted(l)
    BY <1>1, <1>2, TypesEarly
<1>3. CASE Handled(l)
    <2>1. \A s \in DOMAIN Settle : Settle[s] \in States
        BY Tables, StateNames
    <2>2. AudioNext(state) = "none" \/ AudioNext(state) \in States
        BY StateNames DEF AudioNext
    <2>3. TextNext(state) = "none" \/ TextNext(state) \in States
        BY StateNames DEF TextNext
    <2> QED BY <1>1, <1>3, <2>1, <2>2, <2>3, Tables, TypesEarly, TypesCard, TypesLate, TypesAcked
            DEF Handled
<1> QED BY <1>2, <1>3 DEF Line

\* The timers.
LEMMA TypesTimer ==
    ASSUME Types, NEW s \in Slots, \A r \in Slots : sched[r] = "cmd" => again # "none",
           RunTimer(s)
    PROVE  Types'
<1> USE DEF Types, cardVars, netVars, reloadVars, timerVars, hostVars, commandVars
<1>1. CommandsOK /\ ReloadOK /\ Cleared(s) \in [Slots -> Callbacks]
    BY DEF Cleared, TimersOK, Callbacks
<1>2. CASE JunkTimer(s)
    <2>1. CommandsOK'
        BY <1>1, <1>2, StateNames, SentNames DEF JunkTimer, CommandsOK, Begin
    <2>2. sched' \in [Slots -> Callbacks]
        BY <1>1, <1>2, ArmTypes DEF JunkTimer, Retry, Callbacks
    <2>3. ReloadOK'
        <3>1. retries' \in {retries, 0} \/ (retries < RetryLimit /\ retries' = retries + 1
                                             /\ retries >= 0)
            BY <1>1, <1>2 DEF JunkTimer, Asks, ReloadOK
        <3>2. rounds' \in {rounds, 0} \/ (rounds' = rounds + 1 /\ ~(rounds + 1 >= AutoReset))
            BY <1>2 DEF JunkTimer
        <3>3. resetting' \in {resetting, FALSE} /\ loop' = loop
            BY <1>2 DEF JunkTimer
        <3>4. retries' \in -1..RetryLimit
            BY <1>1, <3>1, ModemInitAssumption DEF ReloadOK
        <3>5. rounds' \in 0..AutoReset
            BY <1>1, <3>2, ModemInitAssumption DEF ReloadOK
        <3> QED BY <1>1, <3>3, <3>4, <3>5 DEF ReloadOK
    <2> QED BY <1>2, <2>1, <2>2, <2>3 DEF JunkTimer, CardOK, NetOK, CmeOK, TimersOK, HostOK
<1>3. CASE StartTimer(s)
    <2>1. CommandsOK'
        BY <1>1, <1>3, StateNames, SentNames DEF StartTimer, To, CommandsOK
    <2> QED BY <1>1, <1>3, <2>1 DEF StartTimer, CardOK, NetOK, CmeOK, ReloadOK, TimersOK, HostOK
<1>4. CASE ResetTimer(s)
    <2>1. CommandsOK'
        BY <1>1, <1>4, StateNames, SentNames DEF ResetTimer, ModuleRestart, To, CommandsOK
    <2>2. sched' \in [Slots -> Callbacks] /\ retrans' \in 0..MaxSched
        BY <1>1, <1>4, ModemInitAssumption DEF ResetTimer, ModuleRestart, Callbacks, Slots
    <2> QED BY <1>4, <2>1, <2>2
            DEF ResetTimer, ModuleRestart, CardOK, NetOK, CmeOK, ReloadOK, TimersOK, HostOK
<1>5. CASE CommandTimer(s)
    <2>1. again \in States
        BY <1>5, StateNames DEF CommandTimer, Fires, TimersOK
    <2>2. CommandsOK'
        BY <1>1, <1>5, <2>1, SentNames DEF CommandTimer, To, CommandsOK
    <2> QED BY <1>1, <1>5, <2>2 DEF CommandTimer, CardOK, NetOK, CmeOK, ReloadOK, TimersOK, HostOK
<1>6. CASE RepeatTimer(s, "sim", "IMSI_REQ") \/ RepeatTimer(s, "smsc", "GET_SMSC_REQ")
    <2>1. CommandsOK'
        BY <1>1, <1>6, StateNames, SentNames DEF RepeatTimer, To, Stay, CommandsOK
    <2> QED BY <1>1, <1>6, <2>1 DEF RepeatTimer, CardOK, NetOK, CmeOK, ReloadOK, TimersOK, HostOK
<1> QED BY <1>2, <1>3, <1>4, <1>5, <1>6 DEF RunTimer

\* The host.
LEMMA TypesHost ==
    ASSUME Types,
           Restart \/ Detect \/ PowerOff \/ PowerOn \/ Reset \/ CallDestroyed \/ CallAnswered
    PROVE  Types'
<1> USE DEF Types, cardVars, netVars, reloadVars, timerVars, hostVars, commandVars
<1>1. CommandsOK /\ ReloadOK /\ sched \in [Slots -> Callbacks] /\ 0 \in 0..CmeLimit + 1
    BY ModemInitAssumption DEF TimersOK
<1>2. ASSUME StartsLoop
      PROVE  sched' \in [Slots -> Callbacks]
    BY <1>1, <1>2, ArmTypes DEF StartsLoop, Callbacks
<1>3. ASSUME ModuleStart
      PROVE  CommandsOK' /\ CmeOK' /\ ReloadOK' /\ TimersOK' /\ CardOK'
    <2>1. CommandsOK'
        BY <1>1, <1>3, StateNames, SentNames DEF ModuleStart, Begin, CommandsOK
    <2>2. loop' \in BOOLEAN /\ sched' \in [Slots -> Callbacks]
        BY <1>1, <1>2, <1>3 DEF ModuleStart, ReloadOK
    <2> QED BY <1>1, <1>3, <2>1, <2>2 DEF ModuleStart, CmeOK, ReloadOK, TimersOK, CardOK
<1>4. CASE Restart
    BY <1>3, <1>4 DEF Restart, NetOK, HostOK
<1>5. CASE Detect
    BY <1>3, <1>5 DEF Detect, NetOK, HostOK
<1>6. CASE PowerOff
    BY <1>6 DEF PowerOff, CommandsOK, CardOK, NetOK, CmeOK, ReloadOK, TimersOK, HostOK
<1>7. CASE PowerOn
    <2>1. CommandsOK' /\ sched' \in [Slots -> Callbacks]
        BY <1>1, <1>2, <1>7, StateNames, SentNames DEF PowerOn, Begin, CommandsOK
    <2> QED BY <1>1, <1>7, <2>1 DEF PowerOn, CardOK, NetOK, CmeOK, ReloadOK, TimersOK, HostOK
<1>8. CASE Reset
    <2>1. CommandsOK'
        BY <1>1, <1>8, StateNames, SentNames DEF Reset, ModuleRestart, To, CommandsOK
    <2>2. sched' \in [Slots -> Callbacks] /\ retrans' \in 0..MaxSched
        BY <1>1, <1>8, ModemInitAssumption DEF Reset, ModuleRestart, Callbacks, Slots
    <2> QED BY <1>8, <2>1, <2>2
            DEF Reset, ModuleRestart, CardOK, NetOK, CmeOK, ReloadOK, TimersOK, HostOK
<1>9. CASE CallDestroyed \/ CallAnswered
    <2>1. sched' \in [Slots -> Callbacks] /\ retrans' \in 0..MaxSched
        BY <1>1, <1>9, DeletedTypes, ModemInitAssumption DEF CallDestroyed, CallAnswered, TimersOK
    <2> QED BY <1>9, <2>1
            DEF CallDestroyed, CallAnswered, CommandsOK, CardOK, NetOK, CmeOK, ReloadOK, TimersOK,
                HostOK
<1> QED BY <1>4, <1>5, <1>6, <1>7, <1>8, <1>9
------------------------------------------------------------------------------
(* The card.                                                               *)

\* A state that needs the card is entered only after it has answered; the
\* command that is to be repeated is known and no exception.
CardSeen ==
    /\ state \notin WithoutCard => sim # "none"
    /\ again = "DEL_SIM_MSG" => sim # "none"
    /\ \A s \in Slots : sched[s] = "cmd" => again # "none"

\* What keeps CardSeen: a step out of the states before the card sees it
\* answer, a command is armed by its name.
Sees ==
    /\ sim # "none" => sim' # "none"
    /\ state \in WithoutCard => state' \in WithoutCard \/ sim' # "none"
    /\ again' = "DEL_SIM_MSG" => again = "DEL_SIM_MSG" \/ state = "DEL_SIM_MSG"
    /\ again # "none" => again' # "none"
    /\ \A s \in Slots : sched'[s] = "cmd" => sched[s] = "cmd" \/ again' # "none"

LEMMA SeesIsEnough ==
    ASSUME CardSeen, Sees
    PROVE  CardSeen'
    BY StateNames DEF CardSeen, Sees

\* An armed timer is the only new one.
LEMMA ArmAdds ==
    ASSUME NEW sc \in [Slots -> Callbacks], NEW cb, Arm(sc, cb)
    PROVE  \E t \in Slots : /\ sc[t] = "none" /\ sched'[t] = cb
                            /\ \A r \in Slots \ {t} : sched'[r] = sc[r]
    BY DEF Arm, LowestFree

\* Deleting and clearing add no timer.
LEMMA ClearedLoses ==
    ASSUME Types
    PROVE  /\ \A s, r \in Slots : Cleared(s)[r] = IF r = s THEN "none" ELSE sched[r]
           /\ \A id : \A r \in Slots : Deleted(sched, id)[r] = IF r = id THEN "none" ELSE sched[r]
           /\ \A s \in Slots : Cleared(s) \in [Slots -> Callbacks]
    BY DEF Types, TimersOK, Cleared, Deleted, Callbacks

LEMMA SeesLine ==
    ASSUME Types, NEW l, Line(l)
    PROVE  Sees
<1> USE DEF cardVars, netVars, reloadVars, timerVars, hostVars, commandVars
<1>1. sched \in [Slots -> Callbacks] /\ state \in States
    BY DEF Types, TimersOK, CommandsOK
<1>2. CASE Rebooted(l)
    BY <1>2, StateNames DEF Rebooted, Quiet, Sees
<1>3. CASE DownLine(l) \/ InitLine(l) \/ ReportLine(l) \/ UpdateLine(l) \/ ModelLine(l)
    <2>1. state' \in WithoutCard /\ UNCHANGED <<sim, sched, again>>
        <3>1. CASE DownLine(l) \/ InitLine(l)
            BY <3>1, StateNames DEF DownLine, InitLine, Quiet, Stay
        <3>2. CASE ReportLine(l)
            BY <3>2, StateNames DEF ReportLine, Stay, To, Early
        <3>3. CASE UpdateLine(l)
            BY <3>3, StateNames DEF UpdateLine, Quiet
        <3>4. CASE ModelLine(l)
            BY <3>4, StateNames DEF ModelLine, Stay, To
        <3> QED BY <1>3, <3>1, <3>2, <3>3, <3>4
    <2> QED BY <2>1 DEF Sees
<1>4. CASE UpLine(l)
    <2>1. state' \in WithoutCard /\ UNCHANGED <<sim, again>>
        BY <1>4, StateNames DEF UpLine, Stay, To
    <2>2. \A s \in Slots : sched'[s] = "cmd" => sched[s] = "cmd"
        BY <1>1, <1>4 DEF UpLine
    <2> QED BY <2>1, <2>2 DEF Sees
<1>5. CASE Identity(AsksNext, l) \/ Identity(ImeiNext, l)
    <2>1. state' = state \/ state' \in WithoutCard
        BY <1>5, Tables DEF Identity, Stay, To
    <2> QED BY <1>5, <2>1 DEF Identity, Sees
<1>6. CASE SimReadyLine(l)
    <2>1. sim # "none" => sim' # "none"
        BY <1>6 DEF SimReadyLine
    <2>2. state' # state => sim' # "none"
        BY <1>6 DEF SimReadyLine
    <2>3. /\ again' \in {again, "SIM_READY_REQ"}
          /\ \A s \in Slots : sched'[s] = "cmd" => sched[s] = "cmd" \/ again' # "none"
        BY <1>1, <1>6, ArmAdds DEF SimReadyLine
    <2> QED BY <2>1, <2>2, <2>3 DEF Sees
<1>7. CASE SimPinLine(l) \/ Init4Line(l) \/ VolumeLine(l) \/ NetReqLine(l) \/ CharsetLine(l)
             \/ ReadyLine(l)
    <2>1. state \notin WithoutCard /\ UNCHANGED <<sim, sched, again>>
        BY <1>7, StateNames, Tables
        DEF SimPinLine, Init4Line, VolumeLine, NetReqLine, CharsetLine, ReadyLine, Quiet
    <2> QED BY <2>1 DEF Sees
<1>8. CASE ImsiLine(l) \/ SmscLine(l)
    <2>1. state \notin WithoutCard /\ UNCHANGED <<sim, again>>
        BY <1>8, StateNames DEF ImsiLine, SmscLine
    <2>2. \A s \in Slots : sched'[s] = "cmd" => sched[s] = "cmd"
        <3>1. sched' = sched \/ Arm(sched, "sim") \/ Arm(sched, "smsc")
            BY <1>8 DEF ImsiLine, SmscLine
        <3> QED BY <1>1, <3>1, ArmAdds
    <2> QED BY <2>1, <2>2 DEF Sees
<1>9. CASE NetNameLine(l)
    <2>1. state \notin WithoutCard /\ UNCHANGED <<sim, again>>
        BY <1>9, StateNames DEF NetNameLine
    <2>2. \A s \in Slots : sched'[s] = "cmd" => sched[s] = "cmd"
        <3>1. sched' = sched \/ sched' = Deleted(sched, retrans)
            BY <1>9 DEF NetNameLine
        <3> QED BY <3>1, ClearedLoses
    <2> QED BY <2>1, <2>2 DEF Sees
<1>10. ASSUME NEW next, Acked(next, l), state \in WithoutCard => next \in WithoutCard
       PROVE  Sees
    <2>1. sim' = sim /\ (state \in WithoutCard => state' \in WithoutCard)
        BY <1>10 DEF Acked, To, Stay
    <2>2. /\ again' \in {again, state} /\ (again' # again => again' = "DEL_SIM_MSG")
          /\ \A s \in Slots : sched'[s] = "cmd" => sched[s] = "cmd" \/ again' = "DEL_SIM_MSG"
        BY <1>1, <1>10, ArmAdds DEF Acked
    <2> QED BY <2>1, <2>2 DEF Sees
<1>11. ASSUME Handled(l)
       PROVE  Sees
    <2>1. state \in DOMAIN Settle => Settle[state] \in WithoutCard
        BY Tables, StateNames
    <2>2. state \in DOMAIN SelectSim => SelectSim[state] \in WithoutCard
        BY Tables
    <2>3. state \in DOMAIN Notify => state \notin WithoutCard
        BY Tables
    <2>4. AudioNext(state) # "none" => state \notin WithoutCard
        BY StateNames DEF AudioNext, WithoutCard, Early, UpdateStates
    <2>5. TextNext(state) # "none" => state \notin WithoutCard
        BY StateNames DEF TextNext, WithoutCard, Early, UpdateStates
    <2>6. \A next : Acked(next, l) => next # "none"
        BY DEF Acked
    <2>7. /\ state \in DOMAIN Settle /\ Acked(Settle[state], l) => Sees
          /\ state \in DOMAIN SelectSim /\ Acked(SelectSim[state], l) => Sees
          /\ state \in DOMAIN Notify /\ Acked(Notify[state], l) => Sees
        BY <1>10, <2>1, <2>2, <2>3
    <2>8. Acked(AudioNext(state), l) \/ Acked(TextNext(state), l) => Sees
        BY <1>10, <2>4, <2>5, <2>6
    <2> QED BY <1>3, <1>4, <1>5, <1>6, <1>7, <1>8, <1>9, <1>11, <2>7, <2>8 DEF Handled
<1> QED BY <1>2, <1>11 DEF Line

LEMMA SeesTimer ==
    ASSUME Types, NEW s \in Slots, RunTimer(s)
    PROVE  Sees \/ CommandTimer(s)
<1> USE DEF cardVars, netVars, reloadVars, timerVars, hostVars, commandVars
<1>1. \A r \in Slots : Cleared(s)[r] = "cmd" => sched[r] = "cmd"
    BY ClearedLoses
<1>2. CASE JunkTimer(s)
    <2>1. state' \in WithoutCard \/ state' = state
        BY <1>2, StateNames DEF JunkTimer, Begin
    <2>2. \A r \in Slots : sched'[r] = "cmd" => sched[r] = "cmd"
        BY <1>1, <1>2, ClearedLoses, ArmAdds DEF JunkTimer, Retry
    <2> QED BY <1>2, <2>1, <2>2 DEF JunkTimer, Sees
<1>3. CASE StartTimer(s)
    BY <1>1, <1>3, StateNames DEF StartTimer, To, Sees
<1>4. CASE ResetTimer(s)
    <2>1. \A r \in Slots : sched'[r] = "cmd" => sched[r] = "cmd"
        BY <1>1, <1>4, ClearedLoses DEF ResetTimer, ModuleRestart
    <2> QED BY <1>4, <2>1, StateNames DEF ResetTimer, ModuleRestart, To, Sees
<1>5. CASE RepeatTimer(s, "sim", "IMSI_REQ") \/ RepeatTimer(s, "smsc", "GET_SMSC_REQ")
    BY <1>1, <1>5 DEF RepeatTimer, To, Stay, Sees
<1> QED BY <1>2, <1>3, <1>4, <1>5 DEF RunTimer

LEMMA SeesHost ==
    ASSUME Types,
           Restart \/ Detect \/ PowerOff \/ PowerOn \/ Reset \/ CallDestroyed \/ CallAnswered
    PROVE  Sees
<1> USE DEF cardVars, netVars, reloadVars, timerVars, hostVars, commandVars
<1>1. sched \in [Slots -> Callbacks]
    BY DEF Types, TimersOK
<1>2. CASE Restart \/ Detect \/ PowerOn
    <2>1. (state' = state \/ state' \in WithoutCard) /\ UNCHANGED <<sim, again>>
        BY <1>2, StateNames DEF Restart, Detect, PowerOn, ModuleStart, Begin
    <2>2. sched' = sched \/ Arm(sched, "junk")
        BY <1>2 DEF Restart, Detect, PowerOn, ModuleStart, StartsLoop
    <2>3. \A r \in Slots : sched'[r] = "cmd" => sched[r] = "cmd"
        BY <1>1, <2>2, ArmAdds
    <2> QED BY <2>1, <2>3 DEF Sees
<1>3. CASE PowerOff
    BY <1>3 DEF PowerOff, Sees
<1>4. CASE Reset
    <2>1. \A r \in Slots : sched'[r] = "cmd" => sched[r] = "cmd"
        BY <1>1, <1>4 DEF Reset, ModuleRestart
    <2> QED BY <1>4, <2>1, StateNames DEF Reset, ModuleRestart, To, Sees
<1>5. CASE CallDestroyed \/ CallAnswered
    <2>1. \A r \in Slots : sched'[r] = "cmd" => sched[r] = "cmd"
        BY <1>5, ClearedLoses DEF CallDestroyed, CallAnswered
    <2> QED BY <1>5, <2>1 DEF CallDestroyed, CallAnswered, Sees
<1> QED BY <1>2, <1>3, <1>4, <1>5

LEMMA CardNext ==
    ASSUME Types, CardSeen, Next
    PROVE  CardSeen'
<1>1. ASSUME NEW s \in Slots, CommandTimer(s)
      PROVE  CardSeen'
    <2>1. sched[s] = "cmd" /\ state' = again /\ UNCHANGED <<sim, again>>
          /\ again \in {"SIM_READY_REQ", "DEL_SIM_MSG"}
        BY <1>1 DEF CommandTimer, Fires, To, Types, TimersOK, CardSeen, cardVars
    <2>2. \A r \in Slots : sched'[r] = "cmd" => sched[r] = "cmd"
        BY <1>1, ClearedLoses DEF CommandTimer
    <2> QED BY <2>1, <2>2, StateNames DEF CardSeen
<1> QED BY <1>1, SeesLine, SeesTimer, SeesHost, SeesIsEnough DEF Next, Reads
------------------------------------------------------------------------------
(* The reload loop.                                                        *)

\* The loop has one timer, and none unless its flag is set.
OneTimer ==
    /\ \A s \in Slots : sched[s] = "junk" => loop
    /\ \A s, r \in Slots : sched[s] = "junk" /\ sched[r] = "junk" => s = r

\* On a span that was found switched on the loop runs from the start, its
\* timer is the first of the table, and retranstimer never names its slot:
\* a timer that is armed again takes the slot it left, the lowest one.
FirstSlot ==
    /\ loop
    /\ \A s \in Slots : sched[s] = "junk" => s = 1
    /\ sched[1] = "junk" \/ retries < 0 \/ AutoReset = 0
    /\ sched[1] = "junk" => retrans # 1

\* Steps that neither start nor run the loop: only the timer retranstimer
\* names may go, and retranstimer comes to name a slot that was free.
Undisturbed ==
    /\ loop' = loop /\ (retries < 0 => retries' < 0)
    /\ \A r \in Slots : sched'[r] = "junk" => sched[r] = "junk"
    /\ \A r \in Slots : sched[r] = "junk" /\ r # retrans => sched'[r] = "junk"
    /\ retrans' = retrans \/ retrans' = 0 \/ (retrans' \in Slots /\ sched[retrans'] # "junk")

LEMMA UndisturbedIsEnough ==
    ASSUME Undisturbed
    PROVE  /\ OneTimer => OneTimer'
           /\ FirstSlot => FirstSlot'
<1>1. 1 \in Slots
    BY ModemInitAssumption DEF Slots
<1> QED BY <1>1 DEF Undisturbed, OneTimer, FirstSlot

\* Arming another timer disturbs nothing.
LEMMA ArmUndisturbed ==
    ASSUME Types, NEW cb \in Callbacks \ {"junk"}, Arm(sched, cb)
    PROVE  \A r \in Slots : sched'[r] = "junk" <=> sched[r] = "junk"
    BY ArmAdds DEF Types, TimersOK

LEMMA LineUndisturbed ==
    ASSUME Types, NEW l, Line(l)
    PROVE  Undisturbed
<1> USE DEF cardVars, netVars, reloadVars, timerVars, hostVars, commandVars
<1>1. sched \in [Slots -> Callbacks] /\ {"cmd", "sim", "smsc"} \subseteq Callbacks \ {"junk"}
    BY DEF Types, TimersOK, Callbacks
<1>2. CASE UNCHANGED <<loop, retries, sched, retrans>>
    BY <1>2 DEF Undisturbed
<1>3. CASE UpLine(l)
    BY <1>1, <1>3 DEF UpLine, LowestFree, Undisturbed
<1>4. CASE SimReadyLine(l) \/ ImsiLine(l) \/ SmscLine(l)
    <2>1. \A r \in Slots : sched'[r] = "junk" <=> sched[r] = "junk"
        BY <1>1, <1>4, ArmUndisturbed DEF SimReadyLine, ImsiLine, SmscLine
    <2>2. loop' = loop /\ retrans' = retrans /\ retries' \in {retries, -1}
        BY <1>4 DEF SimReadyLine, ImsiLine, SmscLine
    <2> QED BY <2>1, <2>2 DEF Undisturbed
<1>5. CASE SimPinLine(l)
    BY <1>5 DEF SimPinLine, Undisturbed
<1>6. CASE NetNameLine(l)
    <2>1. CASE sched' = Deleted(sched, retrans) /\ retrans' = 0 /\ UNCHANGED <<loop, retries>>
        BY <2>1, ClearedLoses DEF Undisturbed
    <2> QED BY <1>2, <1>6, <2>1 DEF NetNameLine
<1>7. ASSUME NEW next, Acked(next, l)
      PROVE  Undisturbed
    <2>1. \A r \in Slots : sched'[r] = "junk" <=> sched[r] = "junk"
        BY <1>1, <1>7, ArmUndisturbed DEF Acked
    <2> QED BY <1>7, <2>1 DEF Acked, Undisturbed
<1>8. Rebooted(l) \/ DownLine(l) \/ InitLine(l) \/ ReportLine(l) \/ UpdateLine(l) \/ ModelLine(l)
        \/ Init4Line(l) \/ VolumeLine(l) \/ CharsetLine(l)
      => UNCHANGED <<loop, retries, sched, retrans>>
    BY DEF Rebooted, DownLine, InitLine, ReportLine, UpdateLine, ModelLine, Init4Line, VolumeLine,
           CharsetLine, Quiet
<1>9. Identity(AsksNext, l) \/ Identity(ImeiNext, l) \/ NetReqLine(l) \/ ReadyLine(l)
      => UNCHANGED <<loop, retries, sched, retrans>>
    BY DEF Identity, NetReqLine, ReadyLine
<1> QED BY <1>2, <1>3, <1>4, <1>5, <1>6, <1>7, <1>8, <1>9 DEF Line, Handled

LEMMA TimerUndisturbed ==
    ASSUME Types, NEW s \in Slots, RunTimer(s)
    PROVE  Undisturbed \/ JunkTimer(s)
<1> USE DEF cardVars, netVars, reloadVars, timerVars, hostVars, commandVars
<1>1. CASE StartTimer(s)
    BY <1>1, ClearedLoses DEF StartTimer, Fires, Undisturbed
<1>2. CASE ResetTimer(s)
    <2>1. PICK r \in Slots : /\ LowestFree(Cleared(s), r)
                             /\ sched' = [Cleared(s) EXCEPT ![r] = "reset"]
                             /\ retrans' = r
        BY <1>2 DEF ResetTimer, ModuleRestart
    <2>2. sched[s] = "reset" /\ sched[r] # "junk"
        BY <1>2, <2>1, ClearedLoses DEF ResetTimer, Fires, LowestFree
    <2>3. \A t \in Slots : sched'[t] = "junk" <=> sched[t] = "junk"
        BY <2>1, <2>2, ClearedLoses
    <2> QED BY <1>2, <2>1, <2>2, <2>3 DEF ResetTimer, ModuleRestart, Undisturbed
<1>3. CASE CommandTimer(s)
    BY <1>3, ClearedLoses DEF CommandTimer, Fires, Undisturbed
<1>4. CASE RepeatTimer(s, "sim", "IMSI_REQ") \/ RepeatTimer(s, "smsc", "GET_SMSC_REQ")
    BY <1>4, ClearedLoses DEF RepeatTimer, Fires, Undisturbed
<1> QED BY <1>1, <1>2, <1>3, <1>4 DEF RunTimer

\* A run of the loop's timer: it is armed again, where it was if that is the
\* first slot, or it ends for a reason.
LEMMA JunkOnce ==
    ASSUME Types, NEW s \in Slots, JunkTimer(s)
    PROVE  /\ OneTimer => OneTimer'
           /\ OneTimer /\ FirstSlot => FirstSlot'
<1> USE DEF cardVars, netVars, reloadVars, timerVars, hostVars, commandVars
<1>1. sched[s] = "junk" /\ loop' = loop /\ retrans' = retrans
    BY DEF JunkTimer, Fires
<1>2. \/ sched' = Cleared(s) /\ retries' = retries /\ (retries < 0 \/ AutoReset = 0)
      \/ Retry(s)
    BY DEF JunkTimer
<1>3. 1 \in Slots /\ s \in Nat
    BY ModemInitAssumption DEF Slots
<1>4. CASE Retry(s)
    <2>1. PICK t \in Slots : /\ LowestFree(Cleared(s), t)
                             /\ sched' = [Cleared(s) EXCEPT ![t] = "junk"]
        BY <1>4 DEF Retry, Arm
    <2>2. /\ sched'[t] = "junk"
          /\ \A r \in Slots \ {s, t} : sched'[r] = sched[r]
          /\ t # s => sched'[s] = "none"
        BY <2>1, ClearedLoses
    <2>3. s = 1 => t = 1
        BY <1>3, <2>1, ClearedLoses DEF LowestFree, Slots
    <2> QED BY <1>1, <1>3, <2>2, <2>3 DEF OneTimer, FirstSlot
<1>5. CASE sched' = Cleared(s) /\ retries' = retries /\ (retries < 0 \/ AutoReset = 0)
    BY <1>1, <1>3, <1>5, ClearedLoses DEF OneTimer, FirstSlot
<1> QED BY <1>2, <1>4, <1>5

LEMMA HostOnce ==
    ASSUME Types,
           Restart \/ Detect \/ PowerOff \/ PowerOn \/ Reset \/ CallDestroyed \/ CallAnswered
    PROVE  /\ OneTimer => OneTimer'
           /\ FirstSlot => FirstSlot'
<1> USE DEF cardVars, netVars, reloadVars, timerVars, hostVars, commandVars
<1>1. sched \in [Slots -> Callbacks]
    BY DEF Types, TimersOK
<1>2. CASE Restart \/ Detect \/ PowerOn
    <2>1. UNCHANGED <<retries, retrans>> /\ ((loop' /\ StartsLoop) \/ UNCHANGED <<loop, sched>>)
        BY <1>2 DEF Restart, Detect, PowerOn, ModuleStart
    <2>2. CASE UNCHANGED <<loop, sched>>
        BY <2>1, <2>2, UndisturbedIsEnough DEF Undisturbed
    <2>3. CASE loop /\ loop' /\ StartsLoop
        BY <2>1, <2>3 DEF StartsLoop, OneTimer, FirstSlot
    <2>4. CASE ~loop /\ loop' /\ StartsLoop
        <3>1. ~FirstSlot
            BY <2>4 DEF FirstSlot
        <3>2. OneTimer => OneTimer'
            BY <1>1, <2>4, ArmAdds DEF StartsLoop, OneTimer
        <3> QED BY <3>1, <3>2
    <2> QED BY <2>1, <2>2, <2>3, <2>4
<1>3. CASE PowerOff
    BY <1>3, UndisturbedIsEnough DEF PowerOff, Undisturbed
<1>4. CASE Reset
    <2>1. PICK r \in Slots : /\ LowestFree(sched, r) /\ retrans' = r
                             /\ sched' = [sched EXCEPT ![r] = "reset"]
        BY <1>4 DEF Reset, ModuleRestart
    <2>2. Undisturbed
        BY <1>1, <1>4, <2>1 DEF Reset, ModuleRestart, LowestFree, Undisturbed
    <2> QED BY <2>2, UndisturbedIsEnough
<1>5. CASE CallDestroyed \/ CallAnswered
    <2>1. Undisturbed
        BY <1>5, ClearedLoses DEF CallDestroyed, CallAnswered, Undisturbed
    <2> QED BY <2>1, UndisturbedIsEnough
<1> QED BY <1>2, <1>3, <1>4, <1>5

LEMMA LoopNext ==
    ASSUME Types, OneTimer, Next
    PROVE  OneTimer' /\ (FirstSlot => FirstSlot')
    BY LineUndisturbed, TimerUndisturbed, UndisturbedIsEnough, JunkOnce, HostOnce DEF Next, Reads
------------------------------------------------------------------------------
(* The theorems.                                                           *)

IInv == Types /\ CardSeen /\ OneTimer

LEMMA IInvInit == Init => IInv
<1> SUFFICES ASSUME Init
             PROVE  IInv
    OBVIOUS
<1>1. CardSeen
    BY StateNames DEF Init, CardSeen
<1>2. OneTimer
    BY DEF Init, OneTimer
<1> QED BY <1>1, <1>2, TypesInit DEF IInv

LEMMA IInvNext == IInv /\ [Next]_vars => IInv'
<1> SUFFICES ASSUME IInv, [Next]_vars
             PROVE  IInv'
    OBVIOUS
<1>1. CASE Next
    <2>1. Types'
        BY <1>1, TypesLine, TypesTimer, TypesHost DEF IInv, CardSeen, Next, Reads
    <2> QED BY <1>1, <2>1, CardNext, LoopNext DEF IInv
<1>2. CASE UNCHANGED vars
    BY <1>2 DEF vars, commandVars, cardVars, netVars, reloadVars, timerVars, hostVars, IInv, Types,
       CommandsOK, CardOK, NetOK, CmeOK, ReloadOK, TimersOK, HostOK, CardSeen, OneTimer
<1> QED BY <1>1, <1>2

LEMMA Starting == Spec => []IInv
    BY IInvInit, IInvNext, PTL DEF Spec

\* Every variable of the start-up keeps its type, for every set of lines, and
\* a command that is repeated by its timer is always a known one.
THEOREM StartTyping == Spec => []TypeOK
<1>1. IInv => TypeOK
    BY DEF IInv, Types, CommandsOK, CardOK, NetOK, CmeOK, ReloadOK, TimersOK, HostOK, TypeOK, Sent,
       Cards
<1> QED BY <1>1, Starting, PTL

\* No command that needs the card goes out before the card has answered, in
\* whatever order lines, repeats, resets and reboots cut the start-up short.
THEOREM CardAnswersFirst == Spec => []CardFirst
<1>1. NeedsCard \cap WithoutCard = {}
    BY DEF NeedsCard, WithoutCard, BelowReady, Early, UpdateStates
<1>2. IInv => CardFirst
    BY <1>1, StateNames DEF IInv, CardSeen, CardFirst
<1> QED BY <1>2, Starting, PTL

\* However often the modem is started, reset, switched off and on, the reload
\* loop never has a second timer.
THEOREM OneLoop == Spec => [](\A s, r \in Slots : sched[s] = "junk" /\ sched[r] = "junk" => s = r)
<1>1. IInv => \A s, r \in Slots : sched[s] = "junk" /\ sched[r] = "junk" => s = r
    BY DEF IInv, OneTimer
<1> QED BY <1>1, Starting, PTL

\* On a span that is found switched on the flag of the reload loop is true to
\* its timer: no deletion through retranstimer takes it, however stale.
THEOREM LoopStaysAlive ==
    ASSUME FALSE \notin Powers
    PROVE  Spec => []LoopAlive
<1>1. Init => FirstSlot
    <2> SUFFICES ASSUME Init
                 PROVE  FirstSlot
        OBVIOUS
    <2>1. powered = TRUE
        BY ModemInitAssumption DEF Init
    <2>2. 1 \in Slots
        BY ModemInitAssumption DEF Slots
    <2> QED BY <2>1, <2>2 DEF Init, FirstSlot
<1>2. IInv /\ FirstSlot /\ [Next]_vars => FirstSlot'
    <2> SUFFICES ASSUME IInv, FirstSlot, [Next]_vars
                 PROVE  FirstSlot'
        OBVIOUS
    <2>1. CASE Next
        BY <2>1, LoopNext DEF IInv
    <2>2. CASE UNCHANGED vars
        BY <2>2 DEF vars, reloadVars, timerVars, FirstSlot
    <2> QED BY <2>1, <2>2
<1>3. IInv /\ FirstSlot => LoopAlive
    <2>1. 1 \in Slots
        BY ModemInitAssumption DEF Slots
    <2> QED BY <2>1 DEF IInv, OneTimer, FirstSlot, LoopAlive
<1> QED BY <1>1, <1>2, <1>3, Starting, PTL DEF Spec
=============================================================================
