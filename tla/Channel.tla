------------------------------ MODULE Channel ------------------------------
(***************************************************************************)
(* The channel driver chan_allogsm between Asterisk and one span: a        *)
(* thread per Asterisk channel, which calls the driver with the channel    *)
(* locked, the span's d-channel thread, which handles the library's        *)
(* events, and the console.  The locks are Asterisk's recursive ones.      *)
(* Asterisk wants channel before pvt, the d-channel has the span before    *)
(* pvt and the channel last; where an order is turned round the code       *)
(* tries, gives the pvt back for a moment and tries again.  The library    *)
(* is module Span; here it is what it owes the driver: events of calls.    *)
(***************************************************************************)
EXTENDS Integers, FiniteSets, TLC

CONSTANTS
    Chans,          \* Asterisk channels, each with its thread
    Calls,          \* call records of the library, each used once
    Events,         \* kinds of events the library may report
    Commands,       \* console commands: "power_off", "power_reset", "power_stat"
    Traffic         \* what the span is used for: "in" or "out" only, or "both"

Dchan == "dchan"
Cli == "cli"
Nobody == "nobody"
NoCall == "no call"
EventKinds == {"RING", "RINGING", "PROGRESS", "PROCEEDING", "ANSWER", "HANGUP",
               "KEYPAD", "WAITING", "DOWN", "UP", "RESTART"}

ASSUME ChannelAssumption ==
    /\ Events \subseteq EventKinds
    /\ Commands \subseteq {"power_off", "power_reset", "power_stat"}
    /\ Traffic \subseteq {"in", "out", "both"}
    /\ {Dchan, Cli, Nobody, NoCall, "gsm", "pvt", "if"} \cap (Chans \cup Calls) = {}

Threads == Chans \cup {Dchan, Cli}
\* gsm->lock, pvt->lock, iflock and the lock of each channel.
Locks == {"gsm", "pvt", "if"} \cup Chans

VARIABLES
    held,           \* each lock's owner and count
    pc,             \* where each thread is
    doing,          \* the driver callback a channel's thread is in
    ev,             \* the event the d-channel thread handles
    astate,         \* ast_channel_state, "none" where there is no channel
    attached,       \* channels whose tech_pvt is the span's pvt
    told,           \* channels with a soft or a queued hangup
    pvt,            \* struct allochan_pvt
    link,           \* dchanavail is DCHAN_AVAILABLE
    lib,            \* what became of each call in the library
    dialed,         \* the call a channel dialed or announced
    traffic

vars == <<held, pc, doing, ev, astate, attached, told, pvt, link, lib, dialed, traffic>>

Ops == {"request", "call", "answer", "ringing", "proceeding", "progress", "read", "hangup"}
Flags == {"outgoing", "dialing", "proceeding", "progress", "alerting", "alreadyhungup",
          "needbusy", "needcongestion", "needanswer", "inalarm", "resetting"}
Unheld == [by |-> Nobody, n |-> 0]
NoEvent == [kind |-> "none", call |-> NoCall]

Init ==
    /\ held = [l \in Locks |-> Unheld]
    /\ pc = [t \in Threads |-> IF t = Dchan THEN "poll" ELSE "idle"]
    /\ doing = [c \in Chans |-> "none"]
    /\ ev = NoEvent
    /\ astate = [c \in Chans |-> "none"]
    /\ attached = {}
    /\ told = {}
    /\ pvt = [owner |-> Nobody, real |-> Nobody, callwait |-> Nobody, gsmcall |-> NoCall,
              flags |-> {}]
    /\ link = TRUE
    /\ lib = [k \in Calls |-> "none"]
    /\ dialed = [c \in Chans |-> NoCall]
    /\ traffic \in Traffic
------------------------------------------------------------------------------
(* Locks.  Unlocking what another thread holds fails and changes nothing.  *)
CanTake(l, t) == held[l].by \in {t, Nobody}
Take(h, l, t) == [h EXCEPT ![l] = [by |-> t, n |-> @.n + 1]]
DropAll(h, l, t) == [h EXCEPT ![l] = [by |-> Nobody, n |-> @.n - 1]]    \* mutant
Drop(h, l, t) == IF h[l].by # t THEN h
                 ELSE [h EXCEPT ![l] = IF @.n = 1 THEN Unheld ELSE [by |-> t, n |-> @.n - 1]]
Goes(t, label) == pc' = [pc EXCEPT ![t] = label]
\* DEADLOCK_AVOIDANCE(&p->lock) up to the second lock, which comes later.
Avoids(t, label) == held' = Drop(held, "pvt", t) /\ Goes(t, label)

Has(f) == f \in pvt.flags
With(p, fs) == [p EXCEPT !.flags = @ \cup fs]
Without(p, fs) == [p EXCEPT !.flags = @ \ fs]

Live == {"in", "out", "up"}

\* What allogsm_hangup may make of call k.  The record is freed at once and the
\* modem's HANGUP is still to come ("ending"), or the dial is deferred and the
\* record is kept for its timer ("kept").  A second hangup does nothing: but a
\* freed record is read for its already_hangup, and its memory may be the
\* record of another call by then.
LibHungUp(k) ==
    IF k \notin Calls THEN {lib}
    ELSE IF lib[k] \in Live THEN {[lib EXCEPT ![k] = s] : s \in {"ending", "kept"}}
    ELSE {lib} \cup {[lib EXCEPT ![j] = "ending"] :
                        j \in IF lib[k] = "kept" THEN {} ELSE {j \in Calls : lib[j] \in Live}}
\* allogsm_hangup and allogsm_destroycall when nothing comes after it.
LibDestroyed(k) == IF k \in Calls THEN [lib EXCEPT ![k] = "gone"] ELSE lib

LibSame == UNCHANGED <<lib, dialed>>
ChanSame == UNCHANGED <<doing, astate, attached, told, traffic>>
------------------------------------------------------------------------------
(* The threads of the channels.                                            *)
AvailableUnowned(p) == p.owner = Nobody /\ p.real = Nobody    \* mutant
Available(p) ==
    /\ p.owner = Nobody /\ p.gsmcall = NoCall
    /\ {"inalarm", "resetting"} \cap p.flags = {}

\* allochan_request up to the test of the interface, under iflock alone.
Request(c) ==
    /\ pc[c] = "idle" /\ astate[c] = "none" /\ CanTake("if", c)
    /\ traffic # "in" /\ Available(pvt)
    /\ held' = Take(held, "if", c)
    /\ Goes(c, "granted")
    /\ UNCHANGED <<doing, ev, astate, attached, told, pvt, link, lib, dialed, traffic>>

\* allochan_new: a channel for the sub the owner leaves.
Attach(p, c, sub) ==
    [p EXCEPT ![sub] = c, !.owner = IF @ = Nobody THEN c ELSE @,
              !.flags = @ \ {"alreadyhungup"}]
Granted(c) ==
    /\ pc[c] = "granted"
    /\ LET sub == IF pvt.owner = Nobody THEN "real" ELSE "callwait"
       IN  \/ /\ pvt[sub] = Nobody
              /\ pvt' = Attach(With(pvt, {"outgoing"}), c, sub)
              /\ astate' = [astate EXCEPT ![c] = "reserved"]
              /\ attached' = attached \cup {c}
              /\ told' = told \ {c}
           \/ /\ pvt' = Without(pvt, {"outgoing"})     \* taken, or out of memory
              /\ UNCHANGED <<astate, attached, told>>
    /\ held' = Drop(held, "if", c)
    /\ Goes(c, "idle")
    /\ UNCHANGED <<doing, ev, link, lib, dialed, traffic>>

\* Asterisk calls the driver with the channel locked.
Sensible(c, o) ==
    CASE o = "call" -> astate[c] = "reserved" /\ dialed[c] = NoCall /\ c \notin told
      [] o = "answer" -> astate[c] \in {"ring", "ringing"}
      [] o \in {"ringing", "proceeding", "progress"} -> astate[c] \in {"ring", "ringing"}
      [] o = "read" -> astate[c] # "none"
      [] o = "hangup" -> TRUE
      [] OTHER -> FALSE
Start(c, o) ==
    /\ pc[c] = "idle" /\ c \in attached /\ CanTake(c, c)
    /\ Sensible(c, o)
    /\ held' = Take(held, c, c)
    /\ doing' = [doing EXCEPT ![c] = o]
    /\ astate' = IF o = "answer" THEN [astate EXCEPT ![c] = "up"] ELSE astate
    /\ Goes(c, "enter")
    /\ UNCHANGED <<ev, attached, told, pvt, link, lib, dialed, traffic>>

Sub(c) == IF pvt.real = c THEN "real" ELSE IF pvt.callwait = c THEN "callwait" ELSE "none"
Enters(c, o) == pc[c] = "enter" /\ doing[c] = o /\ CanTake("pvt", c)
                /\ held' = Take(held, "pvt", c)

CallEnters(c) ==
    /\ Enters(c, "call")
    /\ pvt' = With(pvt, {"outgoing", "dialing"})
    /\ Goes(c, "grab")
    /\ UNCHANGED astate
AnswerEnters(c) == Enters(c, "answer") /\ Goes(c, "grab") /\ UNCHANGED <<pvt, astate>>

\* allochan_indicate: the network hears of it once, on an incoming call.
Tells(o) == CASE o = "ringing" -> "alerting" [] OTHER -> o
IndicateEnters(c) ==
    \E o \in {"ringing", "proceeding", "progress"} :
       /\ Enters(c, o)
       /\ Goes(c, IF Sub(c) = "real" /\ ~Has(Tells(o)) /\ ~Has("outgoing") THEN "grab" ELSE "leave")
       /\ astate' = IF o = "ringing" /\ astate[c] \notin {"up", "ring"}
                    THEN [astate EXCEPT ![c] = "ringing"] ELSE astate
       /\ UNCHANGED pvt

\* allochan_read tries the pvt and lets the channel go meanwhile.
Need(f, next) == Has(f) /\ pvt' = Without(pvt, {f}) /\ astate' = next
Hears(c) == told' = told \cup {c}
ReadEnters(c) ==
    /\ Enters(c, "read")
    /\ Goes(c, "leave")
    /\ \/ /\ Sub(c) # "real" \/ {"needbusy", "needcongestion", "needanswer"} \cap pvt.flags = {}
          /\ UNCHANGED <<pvt, astate, told>>
       \/ /\ Sub(c) = "real"
          /\ \/ Need("needbusy", astate) /\ Hears(c)
             \/ ~Has("needbusy") /\ Need("needcongestion", astate) /\ Hears(c)
             \/ /\ ~Has("needbusy") /\ ~Has("needcongestion")
                /\ Need("needanswer", [astate EXCEPT ![c] = "up"])
                /\ UNCHANGED told
ReadYields(c) ==
    /\ pc[c] = "enter" /\ doing[c] = "read" /\ ~CanTake("pvt", c)
    /\ held' = Drop(held, c, c)
    /\ Goes(c, "yielded")
    /\ UNCHANGED <<doing, ev, astate, attached, told, pvt, link, lib, dialed, traffic>>
ReadAgain(c) ==
    /\ pc[c] = "yielded" /\ CanTake(c, c)
    /\ held' = Take(held, c, c)
    /\ Goes(c, "enter")
    /\ UNCHANGED <<doing, ev, astate, attached, told, pvt, link, lib, dialed, traffic>>

\* The channel leaves its sub, and the span when it was the last, before the
\* call is looked at.
LeftOwned(p, c) == [p EXCEPT !.real = IF @ = c THEN Nobody ELSE @]    \* mutant
Left(p, c) ==
    LET out == IF p.real = c
               THEN [Without(p, {"needbusy", "needcongestion", "needanswer"}) EXCEPT !.real = Nobody]
               ELSE IF p.callwait = c THEN [p EXCEPT !.callwait = Nobody] ELSE p
    IN  IF out.real # Nobody \/ out.callwait # Nobody THEN out
        ELSE [Without(out, {"outgoing", "proceeding", "dialing", "progress", "alerting"})
              EXCEPT !.owner = Nobody]
HangupEnters(c) ==
    /\ Enters(c, "hangup")
    /\ pvt' = Left(pvt, c)
    /\ Goes(c, IF pvt'.owner = Nobody /\ pvt'.gsmcall # NoCall THEN "grab" ELSE "leave")
    /\ UNCHANGED astate

Enter(c) ==
    /\ \/ ReadEnters(c)
       \/ /\ CallEnters(c) \/ AnswerEnters(c) \/ IndicateEnters(c) \/ HangupEnters(c)
          /\ UNCHANGED told
    /\ UNCHANGED <<doing, ev, attached, link, lib, dialed, traffic>>

\* gsm_grab: the span's lock is tried with channel and pvt held.
GrabFails(c) ==
    /\ pc[c] = "grab" /\ ~CanTake("gsm", c)
    /\ Avoids(c, "regrab")
    /\ UNCHANGED <<doing, ev, astate, attached, told, pvt, link, lib, dialed, traffic>>
Regrab(c) ==
    /\ pc[c] = "regrab" /\ CanTake("pvt", c)
    /\ held' = Take(held, "pvt", c)
    /\ Goes(c, "grab")
    /\ UNCHANGED <<doing, ev, astate, attached, told, pvt, link, lib, dialed, traffic>>

\* What is done with span and pvt locked, up to gsm_rel.
CallWorks(c) ==
    /\ doing[c] = "call"
    /\ \E k \in Calls :
          /\ lib[k] = "none"
          /\ lib' = [lib EXCEPT ![k] = "out"]
          /\ pvt' = [pvt EXCEPT !.gsmcall = k]
          /\ dialed' = [dialed EXCEPT ![c] = k]
    /\ astate' = [astate EXCEPT ![c] = "dialing"]
AnswerWorks(c) ==
    /\ doing[c] = "answer"
    /\ pvt' = Without(With(pvt, {"proceeding"}), {"dialing"})
    /\ lib' = IF pvt.gsmcall \in Calls /\ lib[pvt.gsmcall] = "in"
              THEN [lib EXCEPT ![pvt.gsmcall] = "up"] ELSE lib
    /\ UNCHANGED <<astate, dialed>>
IndicateWorks(c) ==
    /\ doing[c] \in {"ringing", "proceeding", "progress"}
    /\ pvt' = LET p == With(pvt, {Tells(doing[c])})
              IN  IF doing[c] = "proceeding" THEN Without(p, {"dialing"}) ELSE p
    /\ UNCHANGED <<astate, lib, dialed>>
HangupUnmarked(c) ==    \* mutant
    /\ doing[c] = "hangup"
    /\ lib' \in LibHungUp(pvt.gsmcall)
    /\ pvt' = IF Has("alreadyhungup") THEN [pvt EXCEPT !.gsmcall = NoCall] ELSE pvt
    /\ UNCHANGED <<astate, dialed>>
HangupWorks(c) ==
    /\ doing[c] = "hangup"
    /\ lib' \in LibHungUp(pvt.gsmcall)
    /\ pvt' = IF Has("alreadyhungup") THEN [pvt EXCEPT !.gsmcall = NoCall]
              ELSE With(pvt, {"alreadyhungup"})
    /\ UNCHANGED <<astate, dialed>>
Grab(c) ==
    /\ pc[c] = "grab" /\ CanTake("gsm", c)
    /\ CallWorks(c) \/ AnswerWorks(c) \/ IndicateWorks(c) \/ HangupWorks(c)
    /\ Goes(c, "leave")
    /\ UNCHANGED <<held, doing, ev, attached, told, link, traffic>>

\* The callback returns; a hangup still counts a pending restart under
\* iflock, then Asterisk frees the channel.
Leave(c) ==
    /\ pc[c] = "leave"
    /\ IF doing[c] = "hangup"
       THEN /\ held' = Drop(held, "pvt", c)
            /\ attached' = attached \ {c}
            /\ Goes(c, "list")
            /\ UNCHANGED doing
       ELSE /\ held' = Drop(Drop(held, "pvt", c), c, c)
            /\ doing' = [doing EXCEPT ![c] = "none"]
            /\ Goes(c, "idle")
            /\ UNCHANGED attached
    /\ UNCHANGED <<ev, astate, told, pvt, link, lib, dialed, traffic>>
Freed(c) ==
    /\ pc[c] = "list" /\ CanTake("if", c)
    /\ held' = Drop(held, c, c)
    /\ Goes(c, "idle")
    /\ doing' = [doing EXCEPT ![c] = "none"]
    /\ astate' = [astate EXCEPT ![c] = "none"]
    /\ dialed' = [dialed EXCEPT ![c] = NoCall]
    /\ told' = told \ {c}
    /\ UNCHANGED <<ev, attached, pvt, link, lib, traffic>>

Pbx(c) ==
    \/ Request(c) \/ Granted(c) \/ (\E o \in Ops : Start(c, o))
    \/ Enter(c) \/ ReadYields(c) \/ ReadAgain(c)
    \/ GrabFails(c) \/ Regrab(c) \/ Grab(c) \/ Leave(c) \/ Freed(c)
------------------------------------------------------------------------------
(* The d-channel thread, gsm_dchannel: the event comes with the span       *)
(* locked, and the lock is kept until it is handled.                       *)
At(label) == pc[Dchan] = label
Done(h) == held' = Drop(h, "gsm", Dchan) /\ Goes(Dchan, "poll") /\ ev' = NoEvent
Handling(kinds) == At("event") /\ ev.kind \in kinds

\* What the library reports of call k, and what becomes of the call.
Reports(kind, k) ==
    /\ kind \in Events
    /\ CASE kind = "RING" -> /\ lib[k] = "none" /\ link /\ traffic # "out"
                             /\ \A other \in Calls : lib[other] \in {"none", "gone"}
                             /\ lib' = [lib EXCEPT ![k] = "in"]
         [] kind \in {"RINGING", "PROGRESS", "PROCEEDING"} -> lib[k] = "out" /\ UNCHANGED lib
         [] kind = "ANSWER" -> lib[k] = "out" /\ lib' = [lib EXCEPT ![k] = "up"]
         [] kind = "HANGUP" -> /\ lib[k] \in Live \cup {"ending", "kept"}
                               /\ lib' = [lib EXCEPT ![k] = "gone"]
         [] kind \in {"KEYPAD", "WAITING"} -> lib[k] = "up" /\ UNCHANGED lib
         [] OTHER -> FALSE
    /\ UNCHANGED link
ReportsLink(kind) ==
    /\ kind \in Events
    /\ CASE kind = "DOWN" -> link /\ link' = FALSE
         [] kind = "UP" -> ~link /\ link' = TRUE
         [] kind = "RESTART" -> UNCHANGED link
         [] OTHER -> FALSE
    /\ UNCHANGED lib
Poll ==
    /\ At("poll") /\ CanTake("gsm", Dchan)
    /\ held' = Take(held, "gsm", Dchan)
    /\ Goes(Dchan, "event")
    /\ \E kind \in EventKinds :
          \/ \E k \in Calls : Reports(kind, k) /\ ev' = [kind |-> kind, call |-> k]
          \/ ReportsLink(kind) /\ ev' = [kind |-> kind, call |-> NoCall]
    /\ UNCHANGED <<doing, astate, attached, told, pvt, dialed, traffic>>

\* RINGING and ANSWER are noted in the pvt, whoever owns it.
Notes ==
    /\ Handling({"RINGING", "ANSWER"}) /\ CanTake("pvt", Dchan)
    /\ pvt' = IF ev.kind = "RINGING" THEN With(pvt, {"alerting"})
              ELSE With(Without(pvt, {"dialing"}), {"needanswer"})
    /\ Done(held)
    /\ ChanSame /\ LibSame /\ UNCHANGED link

LinkUp ==
    /\ Handling({"UP"})
    /\ pvt' = Without(pvt, {"inalarm"})
    /\ Done(held)
    /\ ChanSame /\ LibSame /\ UNCHANGED link

\* HANGUP: the first one tells the owner, by the cause; where the driver
\* has hung up before, the call is hung up again.
Told(cause) ==
    IF pvt.owner = Nobody THEN {}
    ELSE IF astate[pvt.owner] = "up" \/ cause = "other" THEN {pvt.owner} ELSE {}
Heard(cause) == IF pvt.owner = Nobody \/ cause = "other" \/ Told(cause) # {}
                THEN {"alreadyhungup"} ELSE {"alreadyhungup", cause}
HangsUp ==
    /\ Handling({"HANGUP"}) /\ CanTake("pvt", Dchan)
    /\ \/ /\ Has("alreadyhungup")
          /\ lib' \in LibHungUp(pvt.gsmcall)
          /\ pvt' = [pvt EXCEPT !.gsmcall = NoCall]
          /\ UNCHANGED told
       \/ \E cause \in {"needbusy", "needcongestion", "other"} :
          /\ ~Has("alreadyhungup")
          /\ told' = told \cup Told(cause)
          /\ pvt' = [Without(With(pvt, Heard(cause)), {"resetting"}) EXCEPT !.gsmcall = NoCall]
          /\ UNCHANGED lib
    /\ Done(held)
    /\ UNCHANGED <<doing, astate, attached, link, dialed, traffic>>

\* allochan_queue_frame: the owner's lock is tried with span and pvt held,
\* and only the pvt is given back.
Frames == {"PROGRESS", "PROCEEDING", "KEYPAD", "WAITING"}
Wanted == CASE ev.kind = "PROGRESS" -> ~Has("progress")
            [] ev.kind = "PROCEEDING" -> ~Has("proceeding")
            [] OTHER -> TRUE
FrameUnwanted ==
    /\ Handling(Frames) /\ ~Wanted
    /\ Done(held)
    /\ UNCHANGED pvt /\ ChanSame /\ LibSame /\ UNCHANGED link
FrameLocks ==
    /\ \/ Handling(Frames) /\ Wanted
       \/ At("unframed")
    /\ CanTake("pvt", Dchan)
    /\ held' = Take(held, "pvt", Dchan)
    /\ Goes(Dchan, "frame")
    /\ UNCHANGED <<ev, pvt, link>> /\ ChanSame /\ LibSame
FrameQueuedLocked ==    \* mutant
    /\ At("frame") /\ (pvt.owner \in Chans => CanTake(pvt.owner, Dchan))
    /\ Done(held)
    /\ UNCHANGED <<pvt, link>> /\ ChanSame /\ LibSame
FrameQueued ==
    /\ At("frame") /\ (pvt.owner \in Chans => CanTake(pvt.owner, Dchan))
    /\ pvt' = CASE ev.kind = "PROGRESS" -> Without(With(pvt, {"progress"}), {"dialing"})
                [] ev.kind = "PROCEEDING" -> Without(With(pvt, {"proceeding"}), {"dialing"})
                [] OTHER -> pvt
    /\ Done(Drop(held, "pvt", Dchan))
    /\ ChanSame /\ LibSame /\ UNCHANGED link
FrameWaits ==
    /\ At("frame") /\ pvt.owner \in Chans /\ ~CanTake(pvt.owner, Dchan)
    /\ Avoids(Dchan, "unframed")
    /\ UNCHANGED <<ev, pvt, link>> /\ ChanSame /\ LibSame

\* DCHAN_DOWN and RESTART end in gsm_hangup_all, which gives the span back
\* and locks the pvt, by RESTART for the second time.
LinkDown ==
    /\ Handling({"DOWN"})
    /\ lib' = LibDestroyed(pvt.gsmcall)
    /\ pvt' = [Without(pvt, {"resetting"}) EXCEPT !.gsmcall = NoCall]
    /\ held' = Drop(held, "gsm", Dchan)
    /\ Goes(Dchan, "all")
    /\ UNCHANGED <<ev, link, dialed>> /\ ChanSame
Restart ==
    /\ Handling({"RESTART"}) /\ CanTake("pvt", Dchan)
    /\ lib' = LibDestroyed(pvt.gsmcall)
    /\ pvt' = [pvt EXCEPT !.gsmcall = NoCall]
    /\ held' = Drop(Take(held, "pvt", Dchan), "gsm", Dchan)
    /\ Goes(Dchan, "all")
    /\ UNCHANGED <<ev, link, dialed>> /\ ChanSame
AllLocks ==
    /\ At("all") /\ CanTake("pvt", Dchan)
    /\ held' = Take(held, "pvt", Dchan)
    /\ Goes(Dchan, "tries")
    /\ UNCHANGED <<ev, pvt, link>> /\ ChanSame /\ LibSame
Owners == {pvt.real, pvt.callwait} \cap Chans
AllQueued ==
    /\ At("tries") /\ \A c \in Owners : CanTake(c, Dchan)
    /\ told' = told \cup Owners
    /\ held' = Drop(held, "pvt", Dchan)
    /\ Goes(Dchan, "ends")
    /\ UNCHANGED <<doing, astate, attached, ev, pvt, link, traffic>> /\ LibSame
AllWaits ==
    /\ At("tries") /\ \E c \in Owners : ~CanTake(c, Dchan)
    /\ Avoids(Dchan, "all")
    /\ UNCHANGED <<ev, pvt, link>> /\ ChanSame /\ LibSame
AllEnds ==
    /\ At("ends") /\ CanTake("gsm", Dchan)
    /\ told' = told \cup ({pvt.owner} \cap Chans)
    /\ pvt' = IF ev.kind = "DOWN" THEN With(pvt, {"inalarm"}) ELSE pvt
    /\ held' = IF ev.kind = "RESTART" THEN Drop(held, "pvt", Dchan) ELSE held
    /\ Goes(Dchan, "poll") /\ ev' = NoEvent
    /\ UNCHANGED <<doing, astate, attached, link, traffic>> /\ LibSame

\* The timer of a deferred dial ends the call that was hung up meanwhile.
DialTimer ==
    /\ At("poll") /\ CanTake("gsm", Dchan)
    /\ \E k \in Calls : lib[k] = "kept" /\ lib' = [lib EXCEPT ![k] = "ending"]
    /\ UNCHANGED <<held, pc, ev, pvt, link, dialed>> /\ ChanSame

\* RING: an anonymous caller may be refused.  The span is looked at without its
\* pvt's lock, then with it; a known call is ignored, and glare is refused, but
\* where the event is flexible (the library never sets it, and the event is
\* what the last one left) the span is looked at once more.
RingAnonymous ==
    /\ Handling({"RING"})
    /\ lib' \in LibHungUp(ev.call)
    /\ Done(held)
    /\ UNCHANGED <<pvt, link, dialed>> /\ ChanSame
FoundEmpty == pvt.owner = Nobody /\ ~Has("inalarm")
RingLooks ==
    /\ Handling({"RING"})
    /\ Goes(Dchan, IF FoundEmpty THEN "ring_found" ELSE "ring_again")
    /\ UNCHANGED <<held, ev, pvt, link>> /\ ChanSame /\ LibSame
RingChecks ==
    /\ At("ring_found") /\ CanTake("pvt", Dchan)
    /\ IF pvt.owner # Nobody /\ pvt.gsmcall = ev.call THEN Done(held)
       ELSE /\ Goes(Dchan, IF pvt.owner = Nobody THEN "ring" ELSE "ring_again")
            /\ UNCHANGED <<held, ev>>
    /\ UNCHANGED <<pvt, link>> /\ ChanSame /\ LibSame
RingLooksAgain ==
    /\ At("ring_again") /\ FoundEmpty
    /\ Goes(Dchan, "ring")
    /\ UNCHANGED <<held, ev, pvt, link>> /\ ChanSame /\ LibSame
RingRefused ==
    /\ At("ring_again")
    /\ lib' \in LibHungUp(ev.call)
    /\ Done(held)
    /\ UNCHANGED <<pvt, link, dialed>> /\ ChanSame

\* The call is taken without another look at the owner, and the span given
\* back for the new channel.
RingNoExtension ==
    /\ At("ring") /\ CanTake("pvt", Dchan)
    /\ lib' \in LibHungUp(ev.call)
    /\ pvt' = [pvt EXCEPT !.gsmcall = NoCall]
    /\ Done(held)
    /\ UNCHANGED <<link, dialed>> /\ ChanSame
RingTakes ==
    /\ At("ring") /\ CanTake("pvt", Dchan)
    /\ pvt' = [With(pvt, {"proceeding"}) EXCEPT !.gsmcall = ev.call]
    /\ held' = Drop(Take(held, "pvt", Dchan), "gsm", Dchan)
    /\ Goes(Dchan, "ring_new")
    /\ UNCHANGED <<ev, link>> /\ ChanSame /\ LibSame
RingNew ==
    /\ At("ring_new") /\ pvt.real = Nobody
    /\ \E c \in Chans :
          /\ pc[c] = "idle" /\ astate[c] = "none"
          /\ pvt' = Attach(pvt, c, "real")
          /\ astate' = [astate EXCEPT ![c] = "ring"]
          /\ attached' = attached \cup {c}
          /\ dialed' = [dialed EXCEPT ![c] = ev.call]
          /\ pc' = [pc EXCEPT ![c] = "born", ![Dchan] = "ring_start"]
    /\ UNCHANGED <<held, doing, ev, told, link, lib, traffic>>
\* allochan_new finds the subchannel taken, or Asterisk has no channel to give.
RingUnborn ==
    /\ At("ring_new")
    /\ Goes(Dchan, "ring_fail")
    /\ UNCHANGED <<held, ev, pvt, link>> /\ ChanSame /\ LibSame
RingStarts ==
    /\ At("ring_start") /\ CanTake("gsm", Dchan)
    /\ pc' = [t \in Threads |-> IF t = Dchan THEN "poll"
                                ELSE IF pc[t] = "born" THEN "idle" ELSE pc[t]]
    /\ held' = Drop(held, "pvt", Dchan)
    /\ ev' = NoEvent
    /\ UNCHANGED <<pvt, link>> /\ ChanSame /\ LibSame
RingFails ==
    /\ At("ring_fail") /\ CanTake("gsm", Dchan)
    /\ lib' \in LibHungUp(ev.call)
    /\ pvt' = [pvt EXCEPT !.gsmcall = NoCall]
    /\ held' = Drop(held, "pvt", Dchan)
    /\ Goes(Dchan, "poll") /\ ev' = NoEvent
    /\ UNCHANGED <<link, dialed>> /\ ChanSame

Dchannel ==
    \/ Poll \/ Notes \/ LinkUp \/ HangsUp
    \/ FrameUnwanted \/ FrameLocks \/ FrameQueued \/ FrameWaits
    \/ LinkDown \/ Restart \/ AllLocks \/ AllQueued \/ AllWaits \/ AllEnds
    \/ DialTimer \/ RingAnonymous \/ RingLooks \/ RingChecks \/ RingLooksAgain
    \/ RingRefused \/ RingNoExtension \/ RingTakes
    \/ RingNew \/ RingUnborn \/ RingStarts \/ RingFails
------------------------------------------------------------------------------
(* The console's power commands: off takes the span's lock, reset does not, *)
(* and stat locks it a second time where it should unlock it.              *)
PowerDown ==
    /\ link' = FALSE
    /\ IF link \/ pvt.gsmcall = NoCall THEN UNCHANGED <<pvt, lib, told>>
       ELSE /\ lib' = LibDestroyed(pvt.gsmcall)
            /\ pvt' = [Without(pvt, {"resetting"}) EXCEPT !.gsmcall = NoCall]
            /\ told' = told \cup ({pvt.owner} \cap Chans)
    /\ UNCHANGED <<held, pc, doing, ev, astate, attached, dialed, traffic>>
PowerOff == "power_off" \in Commands /\ CanTake("gsm", Cli) /\ PowerDown
PowerReset == "power_reset" \in Commands /\ PowerDown
PowerStat ==
    /\ "power_stat" \in Commands /\ held["gsm"].by = Nobody
    /\ held' = Take(Take(held, "gsm", Cli), "gsm", Cli)
    /\ UNCHANGED <<pc, ev, pvt, link>> /\ ChanSame /\ LibSame
Console == PowerOff \/ PowerReset \/ PowerStat

Symmetry == Permutations(Chans) \cup Permutations(Calls)

Next == (\E c \in Chans : Pbx(c)) \/ Dchannel \/ Console
Spec == Init /\ [][Next]_vars
------------------------------------------------------------------------------
\* Each part of the state has its type, and no lock is taken more than three
\* deep: what the callbacks and the event handlers take they give back.
TypeOK ==
    /\ \A l \in Locks : /\ held[l].by \in Threads \cup {Nobody} /\ held[l].n \in 0..3
                        /\ held[l].by = Nobody <=> held[l].n = 0
    /\ attached \subseteq Chans /\ told \subseteq Chans
    /\ pvt.owner \in Chans \cup {Nobody} /\ pvt.gsmcall \in Calls \cup {NoCall}
    /\ {pvt.real, pvt.callwait} \subseteq Chans \cup {Nobody}
    /\ pvt.flags \subseteq Flags
    /\ link \in BOOLEAN

\* A channel thread outside the driver and a d-channel thread in its poll hold
\* no lock, on every path: through the windows of gsm_grab and of
\* DEADLOCK_AVOIDANCE, where allochan_hangup locks the interfaces, and where a
\* handler gives the span back and takes it again.  (The console is left out:
\* power stat keeps the span's lock for good.)
AtRest == \A t \in Threads \ {Cli} : pc[t] \in {"idle", "poll"}
                                     => \A l \in Locks : held[l].by # t

\* owner and the subchannels' owners never point to a channel Asterisk has
\* freed, whatever is queued, hung up or restarted between the steps of
\* allochan_hangup and allochan_new.  One kind of traffic at a time: a
\* request that meets an incoming call is a known gap (README, section 3).
OwnerIsLive == {pvt.owner, pvt.real, pvt.callwait} \subseteq attached \cup {Nobody}

\* gsmcall lets a call go only when the library ends it or has been told to end
\* it: no RING, request, dial, hangup or restart puts another call in the place
\* of a live one or forgets it.  The exception is a known gap (README, section
\* 3): HANGUP is not compared with the call, so that with outgoing traffic the
\* late one of a call hung up before clears the gsmcall of the next.
CallKept == [][\A k \in Calls :
    pvt.gsmcall = k /\ pvt'.gsmcall # k /\ lib'[k] \in Live
        => traffic = "out" /\ ev.kind = "HANGUP" /\ ev.call # k]_vars

\* While the driver has not hung up itself (alreadyhungup), the record gsmcall
\* names exists, but for the HANGUP that ended it and waits to be handled: what
\* an answer or an indication hands to the library is never freed memory.  With
\* alreadyhungup it may be: allochan_hangup keeps the gsmcall it has freed and
\* HANGUP hands it over again (chan_allogsm.c:8306, the trace quoted there).
NoStaleCall == pvt.gsmcall # NoCall /\ ~Has("alreadyhungup") /\ ev.kind # "HANGUP"
                   => lib[pvt.gsmcall] \in Live

\* Every thread that can run does, and a lock that is free again and again is
\* got in the end.
LiveSpec ==
    /\ Spec
    /\ WF_vars(Dchannel)
    /\ SF_vars(FrameQueued \/ AllQueued)
    /\ \A c \in Chans : /\ WF_vars(Pbx(c))
                        /\ SF_vars(Grab(c))

\* The d-channel thread gets through with every event and polls again, which
\* is what allochan_lock_sub_owner gives the pvt back for (chan_allogsm.c:1148,
\* "We must unlock the private to avoid the possibility of a deadlock").
DchanReturns == []<>(pc[Dchan] = "poll")
=============================================================================
