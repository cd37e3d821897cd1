------------------------------ MODULE ModemInit ------------------------------
(***************************************************************************)
(* How liballogsmat takes a modem from power-on to READY: one AT command   *)
(* per state, the next one when the modem's answer is in, and the timers   *)
(* that repeat a command or begin again.  gsm_set_switchtype reads the     *)
(* lines up to MODEL_NAME_REQ, module_receive the later ones; both look    *)
(* for a reboot first (module_check_wind), the second also for network     *)
(* news afterwards (module_check_network).  Calls and texts in READY are   *)
(* module Span; here they only show as deletions of the timer retranstimer *)
(* names.  A state's command goes by the state's name.                     *)
(***************************************************************************)
EXTENDS Integers

CONSTANTS
    Lines,          \* the lines the modem may send
    Configs,        \* subsets of {"MOC", "SIDE_TONE", "MODE"}: optional commands
    Updates,        \* "none", "this" or "other": the span a firmware update is for
    AutoReset,      \* gsm->auto_modem_reset
    Powers,         \* whether the span may be found switched on, or off
    Resets,         \* resetinterval > 0: idle channels are reset
    MaxSched,       \* bound: timer slots (9999 in the code)
    RetryLimit,     \* 4: signal queries before the modem starts again
    CmeLimit        \* 3: "+CME ERROR: 515" tolerated

CmeErrors == {"CME", "CME_13", "CME_14", "CME_30", "CME_515"}
CmsErrors == {"CMS", "CMS_301"}
Errors == {"ERROR"} \cup CmeErrors \cup CmsErrors
Reboots == {"WIND_0", "WIND_1", "WIND_3", "KSUP_0", "SIM_0", "SIM_1"}
Asked == {"ASK_0", "ASK_1"}                     \* answers to AT+CREG?
Unasked == {"CREG_0", "CREG_1", "CREG_5"}
Ignored == Asked \cup Unasked \cup {"WIND_0", "WIND_1", "WIND_3"}
AllLines == Errors \cup Reboots \cup Asked \cup Unasked \cup
            {"OK", "TEXT", "COPS", "CSQ_0", "CSQ_1", "PIN_READY", "PIN_SIM", "SIM_NO"}

ASSUME ModemInitAssumption ==
    /\ Lines \subseteq AllLines
    /\ Configs \subseteq SUBSET {"MOC", "SIDE_TONE", "MODE"}
    /\ Updates \subseteq {"none", "this", "other"}
    /\ AutoReset \in Nat
    /\ Powers \subseteq BOOLEAN
    /\ Resets \in BOOLEAN
    /\ MaxSched \in Nat \ {0}
    /\ RetryLimit \in Nat
    /\ CmeLimit \in Nat

VARIABLES
    state,          \* gsm->state
    last,           \* gsm->at_last_sent
    sim,            \* gsm->sim_state
    home,           \* gsm->network is HOME or ROAMING
    signal,         \* gsm->coverage is at least 1
    got,            \* the identity the state asks for is not empty
    wind,           \* gsm->wind_state
    cme,            \* gsm->CME_515_count, up to CmeLimit + 1
    retries,        \* gsm->retries
    rounds,         \* gsm->retry_count
    loop,           \* gsm->autoReloadLoopActive
    resetting,      \* gsm->resetting
    retrans,        \* gsm->retranstimer, a slot or 0
    sched,          \* gsm->gsm_sched: the callback of each slot
    again,          \* gsm->sched_state, with sched_command
    detected,       \* gsm_init_flag of the driver
    powered,        \* /var/poweroff_<span> does not exist
    config          \* what the configuration files say

commandVars == <<state, last>>
cardVars == <<sim, got>>
netVars == <<home, signal>>
reloadVars == <<retries, rounds, loop>>
timerVars == <<retrans, sched, again>>
hostVars == <<detected, powered, config>>
vars == <<commandVars, cardVars, netVars, wind, cme, reloadVars, resetting,
          timerVars, hostVars>>

Slots == 1..MaxSched
Callbacks == {"none", "junk", "start", "reset", "cmd", "sim", "smsc"}

\* STATE_DEFINE: the states below READY, in the order of the start-up, and
\* those of the start-up that are declared after it.
Early == {"INIT", "UP", "SEND_HANGUP", "SET_SIM_INDICATION_OFF", "SET_GEN_INDICATION_OFF",
          "SET_CREG_INDICATION_OFF", "SET_ECHO", "SET_REPORT_ERROR", "MODEL_NAME_REQ"}
UpdateStates == {"UPDATE_1", "UPDATE_2", "UPDATE_SUCCESS"}
BelowReady == {"MANUFACTURER_REQ", "VERSION_REQ", "SIM_SELECT_1", "SIM_SELECT_2",
    "SIM_SELECT_3", "IMEI_REQ", "SIM_READY_REQ", "SIM_PIN_REQ", "INIT_4", "IMSI_REQ",
    "MOC_STATE_ENABLED", "SET_SIDE_TONE", "SET_NOISE_CANCEL", "DEL_SIM_MSG", "CLIP_ENABLED",
    "RSSI_ENABLED", "SMS_MODE", "SET_NET_URC", "NET_REQ", "NET_OK", "AT_MODE", "NET_NAME_REQ"}
AboveReady == {"GET_SMSC_REQ", "SMS_SET_CHARSET", "SMS_SET_INDICATION", "SET_SPEEK_VOL",
    "SET_MIC_VOL", "SET_SPEAKER", "SET_GAIN_INDEX", "SET_ECHOCANSUP", "SET_DTMF_DETECTION",
    "SET_CALL_NOTIFICATION"}
States == {"DOWN", "READY"} \cup Early \cup UpdateStates \cup BelowReady \cup AboveReady
\* gsm->state < ALLOGSM_STATE_READY
Below == {"DOWN"} \cup Early \cup UpdateStates \cup BelowReady
------------------------------------------------------------------------------
(* What several handlers do.                                               *)
LowestFree(sc, s) == sc[s] = "none" /\ \A r \in Slots : r < s => sc[r] # "none"
Arm(sc, cb) == \E s \in Slots : LowestFree(sc, s) /\ sched' = [sc EXCEPT ![s] = cb]
Deleted(sc, id) == [s \in Slots |-> IF s = id THEN "none" ELSE sc[s]]

\* gsm_switch_state to state s; a return to READY is the moment to reload a
\* modem that has answered 515 too often.
Overdue == cme > CmeLimit
ToReady == IF Overdue THEN state' = "INIT" /\ last' = "WIND" /\ wind' = {}
           ELSE state' = "READY" /\ UNCHANGED <<last, wind>>
\* The usual step: to state s with its command.
To(s) == state' = s /\ last' = s /\ UNCHANGED wind
Stay == UNCHANGED <<commandVars, wind>>
\* Beginning again with AT+WIND.
Begin == state' = "INIT" /\ last' = "WIND" /\ wind' = {}

Quiet == UNCHANGED <<cardVars, netVars, reloadVars, resetting, timerVars, hostVars>>

Init ==
    /\ powered \in Powers
    /\ config \in [optional : Configs, update : Updates]
    /\ state = IF powered THEN "INIT" ELSE "DOWN"
    /\ last = IF powered THEN "WIND" ELSE "none"
    /\ sim = "none" /\ got = FALSE
    /\ home = FALSE /\ signal = FALSE
    /\ wind = {} /\ cme = 0
    /\ retries = 0 /\ rounds = 0 /\ loop = powered
    /\ resetting = FALSE /\ retrans = 0 /\ again = "none"
    /\ sched = [s \in Slots |-> IF powered /\ s = 1 THEN "junk" ELSE "none"]
    /\ detected = FALSE
------------------------------------------------------------------------------
(* module_check_wind                                                       *)
Bits(l) == CASE l = "WIND_0" \/ l = "SIM_0" -> {"SIM_REMOVED"}
             [] l = "WIND_1" \/ l = "SIM_1" -> {"SIM_INSERTED"}
             [] l = "WIND_3" \/ l = "KSUP_0" -> {"BASIC"}
             [] OTHER -> {}
Announced(l) == wind \cup Bits(l)

RebootSeen(l) ==
    l = "CME_13" \/ (l \in Reboots /\ state \notin {"INIT", "UPDATE_1"})

\* A modem that comes up by itself.  Before MANUFACTURER_REQ the same line
\* then counts as the answer to AT+WIND.
Rebooted(l) ==
    /\ RebootSeen(l)
    /\ state' = "INIT"
    /\ last' = IF state \in {"DOWN"} \cup Early \cup UpdateStates THEN "RESET" ELSE "WIND"
    /\ wind' = {}
    /\ Quiet
------------------------------------------------------------------------------
(* gsm_set_switchtype                                                      *)
\* The modem has announced that it takes commands.
BootDone(l) == \/ l = "KSUP_0"
               \/ l = "WIND_3" /\ "SIM_INSERTED" \in wind
               \/ l = "WIND_1" /\ "BASIC" \in wind

InitLine(l) ==
    /\ state = "INIT"
    /\ wind' = Announced(l)
    /\ UNCHANGED <<cardVars, netVars, reloadVars, resetting, timerVars, powered, config>>
    /\ CASE last = "WIND" ->
              /\ last' = "RESET"
              /\ UNCHANGED <<state, detected>>
         [] last = "RESET" /\ l = "OK" ->
              /\ IF config.update = "this"
                 THEN state' = "UPDATE_1" /\ last' = "UPDATE"
                 ELSE state' = "INIT" /\ last' = "CHECK"
              /\ detected' = TRUE
         [] last = "CHECK" /\ l = "OK" ->
              /\ state' = "UP" /\ last' = "UP"
              /\ UNCHANGED detected
         [] last # "WIND" /\ BootDone(l) ->
              /\ last' = "CHECK"
              /\ UNCHANGED <<state, detected>>
         [] OTHER -> UNCHANGED <<commandVars, detected>>

UpLine(l) ==
    /\ state = "UP"
    /\ UNCHANGED <<cardVars, netVars, reloadVars, resetting, again, hostVars>>
    /\ \/ l = "OK" /\ last = "UP" /\ To("SEND_HANGUP") /\ UNCHANGED <<retrans, sched>>
       \/ /\ (l = "OK" /\ last # "UP") \/ l \in Errors
          /\ Stay /\ UNCHANGED <<retrans, sched>>
       \/ /\ l # "OK" /\ l \notin Errors
          /\ Stay
          /\ IF retrans # 0 THEN UNCHANGED <<retrans, sched>>
             ELSE \E s \in Slots : /\ LowestFree(sched, s)
                                   /\ sched' = [sched EXCEPT ![s] = "start"]
                                   /\ retrans' = s

\* The commands that quieten the modem; each waits for its own OK.
Settle == [SEND_HANGUP |-> "SET_SIM_INDICATION_OFF",
           SET_SIM_INDICATION_OFF |-> "SET_GEN_INDICATION_OFF",
           SET_GEN_INDICATION_OFF |-> "SET_CREG_INDICATION_OFF",
           SET_CREG_INDICATION_OFF |-> "SET_ECHO",
           SET_ECHO |-> "SET_REPORT_ERROR"]

\* Any line answers AT+CMEE.
ReportLine(l) ==
    /\ state = "SET_REPORT_ERROR"
    /\ IF last = state THEN To("MODEL_NAME_REQ") ELSE Stay
    /\ got' = FALSE
    /\ UNCHANGED <<sim, netVars, reloadVars, resetting, timerVars, hostVars>>

\* A firmware update that is on its way, before or after the start-up.
Unlocks(l) == \/ l = "WIND_3" /\ wind \cap {"SIM_INSERTED", "SIM_REMOVED"} # {}
              \/ l \in {"WIND_0", "WIND_1"} /\ "BASIC" \in wind
UpdateLine(l) ==
    /\ state \in UpdateStates
    /\ wind' = IF state = "UPDATE_1" THEN Announced(l) ELSE wind
    /\ state' = IF \/ state # "UPDATE_SUCCESS" /\ l = "OK" /\ last = "UPDATE"
                   \/ state = "UPDATE_1" /\ l \in Errors
                THEN "UPDATE_SUCCESS" ELSE state
    /\ last' = IF \/ state = "UPDATE_1" /\ Unlocks(l)
                  \/ state = "UPDATE_2" /\ l \in Errors
               THEN "UPDATE" ELSE last
    /\ Quiet

ModelLine(l) ==
    /\ state = "MODEL_NAME_REQ"
    /\ UNCHANGED <<sim, netVars, reloadVars, resetting, timerVars, hostVars>>
    /\ IF last # state THEN Stay /\ UNCHANGED got
       ELSE IF l = "OK" /\ got THEN To("MANUFACTURER_REQ") /\ got' = FALSE
       ELSE Stay /\ got' = (got \/ (l # "OK" /\ l \notin Errors))
------------------------------------------------------------------------------
(* module_receive: the module and the card                                 *)

\* The module's and the card's identities: kept from any text that is no
\* error, asked for until one has come.
AsksNext == [MANUFACTURER_REQ |-> "VERSION_REQ", VERSION_REQ |-> "SIM_SELECT_1"]
ImeiNext == [IMEI_REQ |-> "SIM_READY_REQ"]
Identity(next, l) ==
    /\ state \in DOMAIN next
    /\ UNCHANGED <<sim, netVars, reloadVars, resetting, timerVars, hostVars>>
    /\ IF last # state THEN Stay /\ UNCHANGED got
       ELSE IF l = "OK" /\ got THEN To(next[state]) /\ got' = FALSE
       ELSE Stay /\ got' = (got \/ (l \notin Ignored \cup CmeErrors))

SelectSimSkips == [SIM_SELECT_1 |-> "SIM_SELECT_2", SIM_SELECT_2 |-> "SIM_SELECT_3",
                   SIM_SELECT_3 |-> "INIT_4"]                         \* mutant
SelectSim == [SIM_SELECT_1 |-> "SIM_SELECT_2", SIM_SELECT_2 |-> "SIM_SELECT_3",
              SIM_SELECT_3 |-> "IMEI_REQ"]

SimReadyLine(l) ==
    /\ state = "SIM_READY_REQ"
    /\ UNCHANGED <<got, netVars, rounds, loop, resetting, retrans, hostVars, wind>>
    /\ sim' = CASE l = "PIN_READY" -> "SIM_READY" [] l = "PIN_SIM" -> "SIM_PIN_REQ"
                [] OTHER -> sim
    /\ state' = CASE (l = "PIN_SIM") \/ (l = "OK" /\ sim = "SIM_PIN_REQ") -> "SIM_PIN_REQ"
                  [] l = "OK" /\ sim = "SIM_READY" -> "INIT_4"
                  [] OTHER -> state
    \* The driver answers PIN_REQUIRED with the PIN.
    /\ last' = CASE l = "PIN_READY" -> "AT" [] state' = "SIM_PIN_REQ" -> "PIN"
                 [] OTHER -> last
    /\ IF l = "CME_515" THEN Arm(sched, "cmd") /\ again' = "SIM_READY_REQ"
       ELSE UNCHANGED <<sched, again>>
    /\ retries' = IF l \in CmeErrors \ {"CME_515"} THEN -1 ELSE retries

SimPinLine(l) ==
    /\ state = "SIM_PIN_REQ"
    /\ state' = IF l = "OK" THEN "INIT_4" ELSE state
    /\ retries' = IF l \in CmeErrors THEN -1 ELSE retries
    /\ UNCHANGED <<last, wind, cardVars, netVars, rounds, loop, resetting,
                   timerVars, hostVars>>

\* Any line will do.
Init4Line(l) == state = "INIT_4" /\ To("IMSI_REQ") /\ Quiet

ImsiLine(l) ==
    /\ state = "IMSI_REQ"
    /\ UNCHANGED <<sim, netVars, reloadVars, resetting, retrans, again, hostVars>>
    /\ IF last = state /\ l = "OK" /\ got
       THEN To(IF "MOC" \in config.optional THEN "MOC_STATE_ENABLED"
               ELSE IF "SIDE_TONE" \in config.optional THEN "SET_SPEAKER"
               ELSE "CLIP_ENABLED")
       ELSE Stay
    /\ got' = (got \/ (last = state /\ l \notin Ignored \cup CmeErrors))
    /\ IF last = state /\ l = "CME_14" THEN Arm(sched, "sim") ELSE UNCHANGED sched
------------------------------------------------------------------------------
(* module_receive: sound, notifications, network                           *)
AudioNext(s) ==
    CASE s = "MOC_STATE_ENABLED" ->
            IF "SIDE_TONE" \in config.optional THEN "SET_SPEAKER" ELSE "CLIP_ENABLED"
      [] s = "SET_SPEAKER" -> "SET_GAIN_INDEX"
      [] s = "SET_GAIN_INDEX" -> "SET_SIDE_TONE"
      [] s = "SET_SIDE_TONE" -> "SET_NOISE_CANCEL"
      [] s = "SET_NOISE_CANCEL" -> "DEL_SIM_MSG"
      [] s = "DEL_SIM_MSG" -> "SET_SPEEK_VOL"
      [] OTHER -> "none"
Volumes == [SET_SPEEK_VOL |-> "SET_MIC_VOL", SET_MIC_VOL |-> "SET_ECHOCANSUP",
            SET_ECHOCANSUP |-> "SET_CALL_NOTIFICATION"]
Notify == [SET_CALL_NOTIFICATION |-> "SET_DTMF_DETECTION",
           SET_DTMF_DETECTION |-> "CLIP_ENABLED", CLIP_ENABLED |-> "RSSI_ENABLED",
           RSSI_ENABLED |-> "SMS_MODE", SMS_MODE |-> "SET_NET_URC",
           SET_NET_URC |-> "NET_REQ"]
TextNext(s) ==
    CASE s = "NET_OK" -> "GET_SMSC_REQ"
      [] s = "AT_MODE" -> "SMS_SET_INDICATION"
      [] s = "SMS_SET_INDICATION" -> "NET_NAME_REQ"
      [] OTHER -> "none"

\* OK to the state's own command.
Acked(next, l) ==
    /\ next # "none"
    /\ IF l = "OK" /\ last = state THEN To(next) /\ got' = FALSE ELSE Stay /\ UNCHANGED got
    /\ UNCHANGED <<sim, netVars, reloadVars, resetting, retrans, hostVars>>
    /\ IF state = "DEL_SIM_MSG" /\ l \in CmsErrors
       THEN Arm(sched, "cmd") /\ again' = state
       ELSE UNCHANGED <<sched, again>>

\* Any OK; an error makes the code ask the modem whether it is there.
VolumeLine(l) ==
    /\ state \in DOMAIN Volumes
    /\ IF l = "OK" THEN To(Volumes[state])
       ELSE /\ last' = IF l \in CmeErrors THEN "CHECK" ELSE last
            /\ UNCHANGED <<state, wind>>
    /\ Quiet

\* module_check_network, in the state s the handler has left, with what it
\* has left of the network: n registered, c coverage.
CheckNetwork(l, s, n, c) ==
    CASE l = "CSQ_0" -> /\ state' = "NET_REQ" /\ UNCHANGED <<last, wind>> /\ home' = n /\ signal' = FALSE
      [] l = "CSQ_1" -> /\ ToReady /\ home' = n /\ signal' = TRUE
      [] l = "CREG_0" -> /\ To("NET_REQ") /\ home' = FALSE /\ signal' = FALSE
      [] l \in {"CREG_1", "CREG_5"} ->
            /\ IF s = "NET_REQ" THEN To("NET_OK") ELSE Stay
            /\ home' = IF l = "CREG_5" /\ s = "NET_REQ" THEN n ELSE TRUE
            /\ signal' = c
      [] OTHER -> Stay /\ home' = n /\ signal' = c

NetReqLine(l) ==
    /\ state = "NET_REQ"
    /\ UNCHANGED <<cardVars, reloadVars, resetting, timerVars, hostVars>>
    /\ IF last # state THEN CheckNetwork(l, state, home, signal)
       ELSE CASE l = "OK" -> /\ IF home THEN To("NET_OK") ELSE Stay
                             /\ UNCHANGED netVars
              [] l \in Asked -> CheckNetwork(l, state, l = "ASK_1", signal)
              [] OTHER -> CheckNetwork(l, state, FALSE, FALSE)

SmscLine(l) ==
    /\ state = "GET_SMSC_REQ"
    /\ UNCHANGED <<sim, netVars, reloadVars, resetting, retrans, again, hostVars>>
    /\ IF last = state /\ l = "OK" /\ got THEN To("SMS_SET_CHARSET") ELSE Stay
    /\ got' = (got \/ (last = state /\ l = "TEXT"))
    /\ IF last = state /\ l = "CMS_301" THEN Arm(sched, "smsc") ELSE UNCHANGED sched

CharsetLine(l) ==
    /\ state = "SMS_SET_CHARSET"
    /\ CASE l = "OK" /\ "MODE" \in config.optional -> To("AT_MODE")
         [] l = "OK" /\ "MODE" \notin config.optional /\ last = state -> To("SMS_SET_INDICATION")
         [] OTHER -> Stay
    /\ Quiet

\* The operator's name is the last identity; the channel is up and the signal
\* is asked for, whose answer leads to READY.
NetNameLine(l) ==
    /\ state = "NET_NAME_REQ"
    /\ UNCHANGED <<cardVars, reloadVars, again, hostVars>>
    /\ IF l = "COPS" /\ last = state
       THEN /\ CASE config.update = "none" ->
                      state' = state /\ last' = "NET_NAME"
                 [] config.update = "this" ->
                      state' = "UPDATE_2" /\ last' = "UPDATE"
                 [] config.update = "other" ->
                      state' = "UPDATE_SUCCESS" /\ last' = last
            /\ sched' = Deleted(sched, retrans)
            /\ retrans' = 0
            /\ resetting' = FALSE
            /\ UNCHANGED <<wind, netVars>>
       ELSE /\ CheckNetwork(l, state, home, signal)
            /\ UNCHANGED <<retrans, sched, resetting>>

ReadyLine(l) ==
    /\ state = "READY"
    /\ CheckNetwork(l, state, home, signal)
    /\ UNCHANGED <<cardVars, reloadVars, resetting, timerVars, hostVars>>

DownLine(l) == state = "DOWN" /\ Stay /\ Quiet

\* The handler of the state the line finds.
Handled(l) ==
    \/ DownLine(l) \/ InitLine(l) \/ UpLine(l) \/ ReportLine(l) \/ UpdateLine(l)
    \/ ModelLine(l) \/ Identity(AsksNext, l) \/ Identity(ImeiNext, l)
    \/ SimReadyLine(l) \/ SimPinLine(l) \/ Init4Line(l) \/ ImsiLine(l)
    \/ VolumeLine(l) \/ NetReqLine(l) \/ SmscLine(l) \/ CharsetLine(l)
    \/ NetNameLine(l) \/ ReadyLine(l)
    \/ state \in DOMAIN Settle /\ Acked(Settle[state], l)
    \/ state \in DOMAIN SelectSim /\ Acked(SelectSim[state], l)
    \/ state \in DOMAIN Notify /\ Acked(Notify[state], l)
    \/ Acked(AudioNext(state), l)
    \/ Acked(TextNext(state), l)

\* module_receive counts the 515s before it looks at anything else.
Counted(l) ==
    IF l = "CSQ_1" /\ Overdue /\ state \in {"NET_REQ", "NET_NAME_REQ", "READY"} THEN 0
    ELSE IF l = "CME_515" /\ ~Overdue /\ state \in BelowReady \cup AboveReady \cup {"READY"}
    THEN cme + 1
    ELSE cme

\* allogsm_check_event
Line(l) ==
    /\ cme' = Counted(l)
    /\ \/ Rebooted(l)
       \/ ~RebootSeen(l) /\ Handled(l)
------------------------------------------------------------------------------
(* The timers; gsm_schedule_run clears the slot and calls back.            *)
Fires(s, cb) == sched[s] = cb
Cleared(s) == [sched EXCEPT ![s] = "none"]

\* The loop's timer goes on, or is started unless it runs.
RetryOnce(s) == sched' = Cleared(s)                                   \* mutant
Retry(s) == Arm(Cleared(s), "junk")
StartsLoopAgain == Arm(sched, "junk")                                 \* mutant
StartsLoop == IF loop THEN UNCHANGED sched ELSE Arm(sched, "junk")

\* A start-up at its last question, without signal, asks it again first.
AsksForever == ~signal /\ state = "NET_NAME_REQ"                      \* mutant
Asks == ~signal /\ state = "NET_NAME_REQ" /\ retries < RetryLimit

\* gsm_start_timeout_junk: every minute; a start-up that takes longer begins
\* again, and a modem that is up does every AutoReset minutes.
JunkTimer(s) ==
    /\ Fires(s, "junk")
    /\ UNCHANGED <<cardVars, netVars, cme, loop, retrans, again, hostVars>>
    /\ IF state \in Below \ UpdateStates
       THEN IF retries < 0
            THEN /\ sched' = Cleared(s)
                 /\ UNCHANGED <<commandVars, wind, retries, rounds, resetting>>
            ELSE /\ Retry(s)
                 /\ rounds' = 0
                 /\ IF Asks
                    THEN /\ retries' = retries + 1
                         /\ last' = "NET_NAME"
                         /\ UNCHANGED <<state, wind, resetting>>
                    ELSE /\ Begin /\ resetting' = FALSE
                         /\ UNCHANGED retries
       ELSE IF AutoReset = 0
            THEN /\ sched' = Cleared(s)
                 /\ UNCHANGED <<commandVars, wind, retries, rounds, resetting>>
            ELSE /\ Retry(s)
                 /\ retries' = 0
                 /\ rounds' = IF rounds + 1 >= AutoReset THEN 0 ELSE rounds + 1
                 /\ IF rounds + 1 >= AutoReset /\ state = "READY"
                    THEN Begin /\ resetting' = FALSE
                    ELSE UNCHANGED <<commandVars, wind, resetting>>

\* gsm_start_timeout: from any state, and retranstimer keeps the old slot.
StartTimer(s) ==
    /\ Fires(s, "start")
    /\ sched' = Cleared(s)
    /\ resetting' = FALSE
    /\ To("UP")
    /\ UNCHANGED <<cme, cardVars, netVars, reloadVars, retrans, again, hostVars>>

\* module_restart, by a reset and by the timer that repeats it.
ModuleRestart(sc) ==
    /\ \E r \in Slots : /\ LowestFree(sc, r)
                        /\ sched' = [sc EXCEPT ![r] = "reset"]
                        /\ retrans' = r
    /\ resetting' = TRUE
    /\ To("UP")
    /\ UNCHANGED <<cme, cardVars, netVars, reloadVars, again, hostVars>>
ResetTimer(s) == Fires(s, "reset") /\ ModuleRestart(Cleared(s))

\* gsm_cmd_sched, from any state; gsm_sim_waiting_sched and
\* gsm_sms_service_waiting only where they were armed.
CommandTimer(s) ==
    /\ Fires(s, "cmd")
    /\ sched' = Cleared(s)
    /\ To(again)
    /\ UNCHANGED <<cme, cardVars, netVars, reloadVars, resetting, retrans, again, hostVars>>
RepeatTimer(s, cb, st) ==
    /\ Fires(s, cb)
    /\ sched' = Cleared(s)
    /\ IF state = st THEN To(st) ELSE Stay
    /\ UNCHANGED <<cme, cardVars, netVars, reloadVars, resetting, retrans, again, hostVars>>

RunTimer(s) ==
    \/ JunkTimer(s) \/ StartTimer(s) \/ ResetTimer(s) \/ CommandTimer(s)
    \/ RepeatTimer(s, "sim", "IMSI_REQ") \/ RepeatTimer(s, "smsc", "GET_SMSC_REQ")
------------------------------------------------------------------------------
(* What the host does.                                                     *)

\* allogsm_module_start: at most one reload loop.
ModuleStart ==
    /\ cme' = 0
    /\ IF powered
       THEN /\ Begin /\ loop' = TRUE
            /\ StartsLoop
       ELSE /\ wind' = {} /\ UNCHANGED <<commandVars, loop, sched>>
    /\ UNCHANGED <<cardVars, retries, rounds, resetting, retrans, again>>

\* allogsm_restart: an alarm has cleared.
Restart ==
    /\ ModuleStart
    /\ home' = FALSE /\ signal' = FALSE
    /\ UNCHANGED hostVars

\* The d-channel thread tries again while no module has answered.
Detect ==
    /\ ~detected
    /\ detected' \in BOOLEAN            \* it gives up in the end
    /\ ModuleStart
    /\ UNCHANGED <<netVars, powered, config>>

\* The command line switches the modem off and on.
PowerOff == powered /\ powered' = FALSE /\ UNCHANGED <<commandVars, cardVars, netVars, wind,
    cme, reloadVars, resetting, timerVars, detected, config>>
PowerOn ==
    /\ ~powered /\ powered' = TRUE /\ detected' = FALSE
    /\ cme' = 0 /\ Begin /\ loop' = TRUE
    /\ StartsLoop
    /\ UNCHANGED <<cardVars, netVars, retries, rounds, resetting, retrans, again, config>>

\* allogsm_reset of an idle channel that is up: the slot retranstimer named is forgotten.
Reset ==
    /\ Resets /\ ~resetting /\ state = "READY"
    /\ ModuleRestart(sched)

\* A call record is freed, or a call answered.
CallDestroyed ==
    /\ state = "READY" /\ retrans # 0
    /\ sched' = Deleted(sched, retrans)
    /\ UNCHANGED <<commandVars, cardVars, netVars, wind, cme, reloadVars, resetting, retrans,
                   again, hostVars>>
CallAnswered ==
    /\ state = "READY" /\ retrans # 0
    /\ sched' = Deleted(sched, retrans)
    /\ retrans' = 0
    /\ UNCHANGED <<commandVars, cardVars, netVars, wind, cme, reloadVars, resetting, again,
                   hostVars>>

Reads == \E l \in Lines : Line(l)
Next ==
    \/ Reads
    \/ \E s \in Slots : RunTimer(s)
    \/ Restart \/ Detect \/ PowerOff \/ PowerOn
    \/ Reset \/ CallDestroyed \/ CallAnswered

Spec == Init /\ [][Next]_vars

\* Due timers run when poll() times out.
LiveSpec == Spec /\ \A s \in Slots : WF_vars(RunTimer(s))
------------------------------------------------------------------------------
(* Properties.                                                             *)

\* The variables keep to their ranges.
TypeOK ==
    /\ state \in States
    /\ last \in States \cup {"none", "WIND", "RESET", "CHECK", "UPDATE", "AT", "PIN", "NET_NAME"}
    /\ sim \in {"none", "SIM_READY", "SIM_PIN_REQ"}
    /\ home \in BOOLEAN /\ signal \in BOOLEAN /\ got \in BOOLEAN
    /\ wind \subseteq {"SIM_REMOVED", "SIM_INSERTED", "BASIC"}
    /\ cme \in 0..CmeLimit + 1
    /\ retries \in -1..RetryLimit
    /\ rounds \in 0..AutoReset
    /\ loop \in BOOLEAN /\ resetting \in BOOLEAN
    /\ retrans \in 0..MaxSched
    /\ sched \in [Slots -> Callbacks]
    /\ again \in {"none", "SIM_READY_REQ", "DEL_SIM_MSG"}
    /\ detected \in BOOLEAN /\ powered \in BOOLEAN
    /\ config \in [optional : Configs, update : Updates]

\* The flag autoReloadLoopActive tells the truth: unless the card was refused
\* or the reload is switched off, the timer of the loop is pending, whatever
\* stale slot numbers were deleted; and however often the modem is started, it
\* is one timer (gsm.c:2065, 1735, 1752).
LoopAlive ==
    /\ loop => \/ \E s \in Slots : sched[s] = "junk"
               \/ retries < 0
               \/ AutoReset = 0
    /\ \A s, r \in Slots : sched[s] = "junk" /\ sched[r] = "junk" => s = r

\* No command that needs the card goes out before the modem has said that the
\* card is ready or wants a PIN, however a start-up was cut short
\* (gsm_module.c:1475, gsm.c:1768).
NeedsCard == (BelowReady \ {"MANUFACTURER_REQ", "VERSION_REQ", "SIM_SELECT_1", "SIM_SELECT_2",
                             "SIM_SELECT_3", "IMEI_REQ", "SIM_READY_REQ", "NET_REQ",
                             "NET_OK", "NET_NAME_REQ"})
CardFirst == state \in NeedsCard => sim # "none"

\* A start-up that hangs in a state below READY does not stay there: the reload
\* loop begins it again, unless the card was refused (gsm.c:1728-1751).
Hangs(s) == state = s /\ loop /\ retries >= 0
StartRetried ==
    \A s \in BelowReady \cup (Early \ {"INIT"}) : Hangs(s) ~> (state # s \/ retries < 0)

\* "ADDED to check if WAVECOM module is not reaching upto ALLOGSM_STATE_READY
\* ... reset it" (gsm.c:2199), for the start-up's states declared after READY,
\* which the loop takes for a modem that is up.  The code does not keep it.
LateStartRetried ==
    \A s \in AboveReady : Hangs(s) ~> (state # s \/ retries < 0)
=============================================================================
