--------------------------- MODULE ChannelProofs ---------------------------
(***************************************************************************)
(* Proofs about Channel, for any channels, calls, events and commands.     *)
(* The locks are argued by an account: the count each lock has for a       *)
(* thread is what the thread's place in the driver owes.                   *)
(***************************************************************************)
EXTENDS Channel, TLAPS

ChanPlaces == {"idle", "born", "granted", "enter", "yielded", "grab", "regrab", "leave", "list"}
DchanPlaces == {"poll", "event", "frame", "unframed", "all", "tries", "ends", "ring_found",
                "ring_again", "ring", "ring_new", "ring_start", "ring_fail"}

LockType == {o \in [by : Threads \cup {Nobody}, n : Nat] : o.by = Nobody <=> o.n = 0}
PvtType == [owner : Chans \cup {Nobody}, real : Chans \cup {Nobody},
            callwait : Chans \cup {Nobody}, gsmcall : Calls \cup {NoCall},
            flags : SUBSET Flags]

PlaceOK ==
    /\ pc \in [Threads -> ChanPlaces \cup DchanPlaces]
    /\ \A c \in Chans : pc[c] \in ChanPlaces
    /\ pc[Dchan] \in DchanPlaces
    /\ pc[Cli] = "idle"
EventOK == ev \in [kind : EventKinds \cup {"none"}, call : Calls \cup {NoCall}]
ChanOK ==
    /\ doing \in [Chans -> Ops \cup {"none"}]
    /\ astate \in [Chans -> {"none", "reserved", "dialing", "ring", "ringing", "up"}]
    /\ attached \subseteq Chans /\ told \subseteq Chans
    /\ dialed \in [Chans -> Calls \cup {NoCall}]
LibStates == Live \cup {"none", "ending", "kept", "gone"}
CallOK ==
    /\ lib \in [Calls -> LibStates]
    /\ link \in BOOLEAN
    /\ traffic \in Traffic
TypeInv == PlaceOK /\ EventOK /\ ChanOK /\ CallOK /\ pvt \in PvtType /\ held \in [Locks -> LockType]

Bit(b) == IF b THEN 1 ELSE 0
Count(h, l, t) == IF h[l].by = t THEN h[l].n ELSE 0

\* What a channel's thread and the d-channel thread hold at each place.
ChanOwes(c, place, l) ==
    IF l = "if" THEN Bit(place = "granted")
    ELSE IF l = "pvt" THEN Bit(place \in {"grab", "leave"})
    ELSE IF l = c THEN Bit(place \in {"enter", "grab", "regrab", "leave", "list"})
    ELSE 0
DchanOwes(place, kind, l) ==
    IF l = "gsm" THEN Bit(place \in {"event", "frame", "unframed", "ring_found", "ring_again", "ring"})
    ELSE IF l = "pvt"
         THEN Bit(place \in {"frame", "tries", "ring_new", "ring_start", "ring_fail"})
              + Bit(kind = "RESTART" /\ place \in {"all", "tries", "ends"})
         ELSE 0
LockAccount == \A l \in Locks :
    /\ \A c \in Chans : Count(held, l, c) = ChanOwes(c, pc[c], l)
    /\ Count(held, l, Dchan) = DchanOwes(pc[Dchan], ev.kind, l)
    /\ Count(held, l, Cli) \in 0..2
------------------------------------------------------------------------------
(* Operators.                                                              *)

\* The names of threads, locks and nobody are apart.
LEMMA Names ==
    /\ Dchan \in Threads /\ Cli \in Threads /\ Chans \subseteq Threads
    /\ Dchan \notin Chans /\ Cli \notin Chans /\ Nobody \notin Chans /\ Dchan # Cli
    /\ Nobody \notin Threads /\ NoCall \notin Calls
    /\ "gsm" \in Locks /\ "pvt" \in Locks /\ "if" \in Locks /\ Chans \subseteq Locks
    /\ "gsm" \notin Chans /\ "pvt" \notin Chans /\ "if" \notin Chans
BY ChannelAssumption DEF ChannelAssumption, Threads, Locks, Dchan, Cli, Nobody, NoCall

\* Taking a lock that is free or one's own adds one to one's count, and to
\* no other.
LEMMA TakeCounts ==
    ASSUME NEW h \in [Locks -> LockType], NEW l \in Locks, NEW t \in Threads,
           h[l].by \in {t, Nobody}
    PROVE  /\ Take(h, l, t) \in [Locks -> LockType]
           /\ \A m \in Locks, u \in Threads :
                 Count(Take(h, l, t), m, u) = Count(h, m, u) + Bit(m = l /\ u = t)
<1>1. Take(h, l, t) = [h EXCEPT ![l] = [by |-> t, n |-> h[l].n + 1]]
  BY DEF Take
<1>2. h[l].n \in Nat /\ (h[l].by = Nobody <=> h[l].n = 0)
  BY DEF LockType
<1>3. [by |-> t, n |-> h[l].n + 1] \in LockType
  BY <1>2, Names DEF LockType
<1>4. Take(h, l, t) \in [Locks -> LockType]
  BY <1>1, <1>3
<1>5. ASSUME NEW m \in Locks, NEW u \in Threads
      PROVE  Count(Take(h, l, t), m, u) = Count(h, m, u) + Bit(m = l /\ u = t)
  BY <1>1, <1>2, Names DEF Count, Bit, LockType
<1> QED BY <1>4, <1>5

\* Unlocking takes one from one's count where one holds the lock, and changes
\* nothing else.
LEMMA DropCounts ==
    ASSUME NEW h \in [Locks -> LockType], NEW l \in Locks, NEW t \in Threads
    PROVE  /\ Drop(h, l, t) \in [Locks -> LockType]
           /\ \A m \in Locks, u \in Threads :
                 Count(Drop(h, l, t), m, u)
                 = Count(h, m, u) - Bit(m = l /\ u = t /\ Count(h, l, t) > 0)
<1>1. CASE h[l].by # t
  BY <1>1 DEF Drop, Count, Bit, LockType
<1>2. CASE h[l].by = t
  <2>1. h[l].n \in Nat /\ h[l].n > 0
    BY <1>2, Names DEF LockType
  <2>2. CASE h[l].n = 1
    <3>1. Drop(h, l, t) = [h EXCEPT ![l] = Unheld]
      BY <1>2, <2>2 DEF Drop
    <3>2. Unheld \in LockType
      BY DEF Unheld, LockType
    <3> QED BY <3>1, <3>2, <1>2, <2>2, Names DEF Count, Bit, LockType, Unheld
  <2>3. CASE h[l].n # 1
    <3>1. Drop(h, l, t) = [h EXCEPT ![l] = [by |-> t, n |-> h[l].n - 1]]
      BY <1>2, <2>3 DEF Drop
    <3>2. [by |-> t, n |-> h[l].n - 1] \in LockType
      BY <2>1, <2>3, Names DEF LockType
    <3> QED BY <3>1, <3>2, <1>2, <2>1, <2>3 DEF Count, Bit, LockType
  <2> QED BY <2>2, <2>3
<1> QED BY <1>1, <1>2

\* A count is the number in the lock, for its owner.
LEMMA CountIsNat ==
    ASSUME NEW h \in [Locks -> LockType], NEW l \in Locks, NEW t \in Threads
    PROVE  Count(h, l, t) \in Nat /\ (h[l].by = t <=> Count(h, l, t) > 0)
BY Names DEF Count, LockType

\* Setting and clearing flags leaves the rest of the pvt alone.
LEMMA FlagsOnly ==
    ASSUME NEW p \in PvtType, NEW fs \in SUBSET Flags
    PROVE  /\ With(p, fs) \in PvtType /\ Without(p, fs) \in PvtType
           /\ \A q \in {With(p, fs), Without(p, fs)} :
                 /\ q.owner = p.owner /\ q.real = p.real /\ q.callwait = p.callwait
                 /\ q.gsmcall = p.gsmcall
BY DEF With, Without, PvtType

\* alreadyhungup stays but where it is cleared by name.
LEMMA MarkStays ==
    ASSUME NEW p \in PvtType, "alreadyhungup" \in p.flags, NEW fs \in SUBSET Flags
    PROVE  /\ "alreadyhungup" \in With(p, fs).flags
           /\ "alreadyhungup" \notin fs => "alreadyhungup" \in Without(p, fs).flags
           /\ \A c : "alreadyhungup" \in Left(p, c).flags
BY DEF With, Without, Left, PvtType

\* Setting gsmcall leaves the rest alone, too.
LEMMA CallOnly ==
    ASSUME NEW p \in PvtType, NEW k \in Calls \cup {NoCall}
    PROVE  LET q == [p EXCEPT !.gsmcall = k]
           IN  /\ q \in PvtType /\ q.gsmcall = k
               /\ q.owner = p.owner /\ q.real = p.real /\ q.callwait = p.callwait
BY DEF PvtType

\* Forgetting the call after changes of flags.
LEMMA Forgotten ==
    ASSUME NEW p \in PvtType, NEW q, q = [p EXCEPT !.gsmcall = NoCall]
    PROVE  q.gsmcall = NoCall /\ q.owner = p.owner /\ q.real = p.real /\ q.callwait = p.callwait
BY DEF PvtType

\* allochan_new gives the sub to the channel, and the span where it is free.
LEMMA AttachPvt ==
    ASSUME NEW p \in PvtType, NEW c \in Chans, NEW sub \in {"real", "callwait"}
    PROVE  /\ Attach(p, c, sub) \in PvtType
           /\ Attach(p, c, sub).gsmcall = p.gsmcall
           /\ Attach(p, c, sub).owner = IF p.owner = Nobody THEN c ELSE p.owner
           /\ Attach(p, c, sub).real = IF sub = "real" THEN c ELSE p.real
           /\ Attach(p, c, sub).callwait = IF sub = "callwait" THEN c ELSE p.callwait
BY DEF Attach, PvtType

\* A channel that leaves its sub is no sub's owner; the last to leave frees
\* the span.
LEMMA LeftPvt ==
    ASSUME NEW p \in PvtType, NEW c \in Chans, p.owner = p.real, p.callwait = Nobody
    PROVE  LET q == Left(p, c)
           IN  /\ q \in PvtType /\ q.owner = q.real /\ q.callwait = Nobody
               /\ q.gsmcall = p.gsmcall
               /\ q.real = IF p.real = c THEN Nobody ELSE p.real
BY Names DEF Left, PvtType, Without, Flags

LEMMA LeftType ==
    ASSUME NEW p \in PvtType, NEW c \in Chans
    PROVE  Left(p, c) \in PvtType /\ Left(p, c).gsmcall = p.gsmcall
BY Names DEF Left, PvtType, Without, Flags
------------------------------------------------------------------------------
(* The account of the locks.                                               *)

\* A step of a channel's thread keeps the account when its own counts are
\* those of the place it goes to.
LEMMA ChanAccount ==
    ASSUME TypeInv, LockAccount, NEW c \in Chans, NEW label \in ChanPlaces,
           Goes(c, label), ev' = ev,
           \A m \in Locks, u \in Threads \ {c} : Count(held', m, u) = Count(held, m, u),
           \A m \in Locks : Count(held', m, c) = ChanOwes(c, label, m)
    PROVE  LockAccount'
<1>1. pc' = [pc EXCEPT ![c] = label] /\ pc \in [Threads -> ChanPlaces \cup DchanPlaces]
  BY DEF Goes, TypeInv, PlaceOK
<1> QED BY <1>1, Names DEF LockAccount

\* The same for the d-channel thread, and the event it handles.
LEMMA DchanAccount ==
    ASSUME TypeInv, LockAccount, NEW label \in DchanPlaces, Goes(Dchan, label),
           \A m \in Locks, u \in Threads \ {Dchan} : Count(held', m, u) = Count(held, m, u),
           \A m \in Locks : Count(held', m, Dchan) = DchanOwes(label, ev'.kind, m)
    PROVE  LockAccount'
<1>1. pc' = [pc EXCEPT ![Dchan] = label] /\ pc \in [Threads -> ChanPlaces \cup DchanPlaces]
  BY DEF Goes, TypeInv, PlaceOK
<1> QED BY <1>1, Names DEF LockAccount

\* At the start nobody holds a lock.
LEMMA InitType == Init => TypeInv /\ LockAccount
<1> SUFFICES ASSUME Init PROVE TypeInv /\ LockAccount
  OBVIOUS
<1>1. held \in [Locks -> LockType]
  BY DEF Init, LockType, Unheld
<1>2. PlaceOK
  BY Names DEF Init, PlaceOK, ChanPlaces, DchanPlaces, Threads
<1>3. EventOK /\ ChanOK /\ CallOK
  BY DEF Init, EventOK, NoEvent, ChanOK, CallOK, LibStates
<1>4. pvt \in PvtType
  BY DEF Init, PvtType
<1>5. LockAccount
  BY <1>2, Names DEF Init, LockAccount, Count, Unheld, ChanOwes, DchanOwes, Bit, Threads, PlaceOK
<1> QED BY <1>1, <1>2, <1>3, <1>4, <1>5 DEF TypeInv

\* Every step of a channel's thread takes and gives back what its places say.
LEMMA PbxLocks ==
    ASSUME TypeInv, LockAccount, NEW c \in Chans, Pbx(c)
    PROVE  held' \in [Locks -> LockType] /\ LockAccount'
<1> USE DEF CanTake
<1>0. /\ held \in [Locks -> LockType] /\ c \in Threads /\ c \in Locks
      /\ c \notin {"gsm", "pvt", "if"}
  BY Names DEF TypeInv
<1>1. \A l \in Locks : Count(held, l, c) = ChanOwes(c, pc[c], l)
  BY DEF LockAccount
<1> DEFINE Goal == held' \in [Locks -> LockType] /\ LockAccount'
<1>t. ASSUME NEW l \in Locks, NEW label \in ChanPlaces, CanTake(l, c), held' = Take(held, l, c),
             Goes(c, label), ev' = ev,
             \A m \in Locks : ChanOwes(c, label, m) = ChanOwes(c, pc[c], m) + Bit(m = l)
      PROVE  Goal
  <2>1. /\ held' \in [Locks -> LockType]
        /\ \A m \in Locks, u \in Threads :
              Count(held', m, u) = Count(held, m, u) + Bit(m = l /\ u = c)
    BY <1>0, <1>t, TakeCounts
  <2>2. \A m \in Locks, u \in Threads \ {c} : Count(held', m, u) = Count(held, m, u)
    BY <2>1, <1>0, CountIsNat DEF Bit
  <2>3. \A m \in Locks : Count(held', m, c) = ChanOwes(c, label, m)
    BY <2>1, <1>0, <1>1, <1>t DEF Bit
  <2> QED BY <2>1, <2>2, <2>3, <1>t, ChanAccount
<1>d. ASSUME NEW l \in Locks, NEW label \in ChanPlaces, held' = Drop(held, l, c),
             Goes(c, label), ev' = ev, ChanOwes(c, pc[c], l) = 1,
             \A m \in Locks : ChanOwes(c, label, m) = ChanOwes(c, pc[c], m) - Bit(m = l)
      PROVE  Goal
  <2>1. /\ held' \in [Locks -> LockType]
        /\ \A m \in Locks, u \in Threads :
              Count(held', m, u) = Count(held, m, u) - Bit(m = l /\ u = c /\ Count(held, l, c) > 0)
    BY <1>0, <1>d, DropCounts
  <2>2. \A m \in Locks, u \in Threads \ {c} : Count(held', m, u) = Count(held, m, u)
    BY <2>1, <1>0, CountIsNat DEF Bit
  <2>3. \A m \in Locks : Count(held', m, c) = ChanOwes(c, label, m)
    BY <2>1, <1>0, <1>1, <1>d DEF Bit
  <2> QED BY <2>1, <2>2, <2>3, <1>d, ChanAccount
<1>u. ASSUME NEW label \in ChanPlaces, held' = held, Goes(c, label), ev' = ev,
             \A m \in Locks : ChanOwes(c, label, m) = ChanOwes(c, pc[c], m)
      PROVE  Goal
  BY <1>u, <1>0, <1>1, ChanAccount
<1>2. CASE Request(c)
  BY <1>2, <1>t, <1>0, Names DEF Request, ChanPlaces, ChanOwes, Bit
<1>3. CASE Granted(c)
  BY <1>3, <1>d, <1>0, Names DEF Granted, ChanPlaces, ChanOwes, Bit
<1>4. CASE \E o \in Ops : Start(c, o)
  BY <1>4, <1>t, <1>0, Names DEF Start, ChanPlaces, ChanOwes, Bit
<1>5. CASE Enter(c)
  <2>1. \E o : Enters(c, o)
    BY <1>5 DEF Enter, ReadEnters, CallEnters, AnswerEnters, IndicateEnters, HangupEnters
  <2>2. \E label \in {"grab", "leave"} : Goes(c, label)
    BY <1>5 DEF Enter, ReadEnters, CallEnters, AnswerEnters, IndicateEnters, HangupEnters
  <2>3. ev' = ev
    BY <1>5 DEF Enter
  <2> QED BY <2>1, <2>2, <2>3, <1>t, <1>0, Names DEF Enters, ChanPlaces, ChanOwes, Bit
<1>6. CASE ReadYields(c)
  BY <1>6, <1>d, <1>0, Names DEF ReadYields, ChanPlaces, ChanOwes, Bit
<1>7. CASE ReadAgain(c)
  BY <1>7, <1>t, <1>0, Names DEF ReadAgain, ChanPlaces, ChanOwes, Bit
<1>8. CASE GrabFails(c)
  BY <1>8, <1>d, <1>0, Names DEF GrabFails, Avoids, ChanPlaces, ChanOwes, Bit
<1>9. CASE Regrab(c)
  BY <1>9, <1>t, <1>0, Names DEF Regrab, ChanPlaces, ChanOwes, Bit
<1>10. CASE Grab(c)
  BY <1>10, <1>u, <1>0, Names DEF Grab, ChanPlaces, ChanOwes, Bit
<1>11. CASE Leave(c)
  <2>1. CASE doing[c] = "hangup"
    BY <1>11, <2>1, <1>d, <1>0, Names DEF Leave, ChanPlaces, ChanOwes, Bit
  <2>2. CASE doing[c] # "hangup"
    <3>1. pc[c] = "leave" /\ held' = Drop(Drop(held, "pvt", c), c, c) /\ Goes(c, "idle") /\ ev' = ev
      BY <1>11, <2>2 DEF Leave
    <3> DEFINE h == Drop(held, "pvt", c)
    <3>2. /\ h \in [Locks -> LockType]
          /\ \A m \in Locks, u \in Threads :
                Count(h, m, u) = Count(held, m, u) - Bit(m = "pvt" /\ u = c /\ Count(held, "pvt", c) > 0)
      BY <1>0, Names, DropCounts
    <3>3. /\ held' \in [Locks -> LockType]
          /\ \A m \in Locks, u \in Threads :
                Count(held', m, u) = Count(h, m, u) - Bit(m = c /\ u = c /\ Count(h, c, c) > 0)
      <4> HIDE DEF h
      <4> QED BY <1>0, <3>1, <3>2, DropCounts DEF h
    <3> HIDE DEF h
    <3>4. Count(held, "pvt", c) = 1 /\ Count(held, c, c) = 1
      BY <1>0, <1>1, <3>1, Names DEF ChanOwes, Bit
    <3>5. \A m \in Locks, u \in Threads \ {c} : Count(held', m, u) = Count(held, m, u)
      BY <3>2, <3>3, <1>0, CountIsNat DEF Bit
    <3>6. \A m \in Locks : Count(held', m, c) = ChanOwes(c, "idle", m)
      BY <3>1, <3>2, <3>3, <3>4, <1>0, <1>1, Names DEF Bit, ChanOwes
    <3> QED BY <3>1, <3>3, <3>5, <3>6, ChanAccount DEF ChanPlaces
  <2> QED BY <2>1, <2>2
<1>12. CASE Freed(c)
  BY <1>12, <1>d, <1>0, Names DEF Freed, ChanPlaces, ChanOwes, Bit
<1> QED BY <1>2, <1>3, <1>4, <1>5, <1>6, <1>7, <1>8, <1>9, <1>10, <1>11, <1>12 DEF Pbx

\* Every step of the d-channel thread takes and gives back what its places say.
LEMMA DchanLocks ==
    ASSUME TypeInv, LockAccount, Dchannel
    PROVE  held' \in [Locks -> LockType] /\ LockAccount'
<1> USE DEF CanTake
<1>0. held \in [Locks -> LockType]
  BY DEF TypeInv
<1>1. \A l \in Locks : Count(held, l, Dchan) = DchanOwes(pc[Dchan], ev.kind, l)
  BY DEF LockAccount
<1> DEFINE Goal == held' \in [Locks -> LockType] /\ LockAccount'
<1>t. ASSUME NEW l \in Locks, NEW label \in DchanPlaces, CanTake(l, Dchan),
             held' = Take(held, l, Dchan), Goes(Dchan, label),
             \A m \in Locks : DchanOwes(label, ev'.kind, m)
                               = DchanOwes(pc[Dchan], ev.kind, m) + Bit(m = l)
      PROVE  Goal
  <2>1. /\ held' \in [Locks -> LockType]
        /\ \A m \in Locks, u \in Threads :
              Count(held', m, u) = Count(held, m, u) + Bit(m = l /\ u = Dchan)
    BY <1>0, <1>t, Names, TakeCounts
  <2>2. \A m \in Locks, u \in Threads \ {Dchan} : Count(held', m, u) = Count(held, m, u)
    BY <2>1, <1>0, CountIsNat DEF Bit
  <2>3. \A m \in Locks : Count(held', m, Dchan) = DchanOwes(label, ev'.kind, m)
    BY <2>1, <1>0, <1>1, <1>t, Names DEF Bit
  <2> QED BY <2>1, <2>2, <2>3, <1>t, DchanAccount
<1>b. ASSUME NEW h \in [Locks -> LockType], NEW l \in Locks, NEW label \in DchanPlaces,
             held' = Drop(h, l, Dchan), Goes(Dchan, label), Count(h, l, Dchan) > 0,
             \A m \in Locks, u \in Threads \ {Dchan} : Count(h, m, u) = Count(held, m, u),
             \A m \in Locks : DchanOwes(label, ev'.kind, m) = Count(h, m, Dchan) - Bit(m = l)
      PROVE  Goal
  <2>1. /\ held' \in [Locks -> LockType]
        /\ \A m \in Locks, u \in Threads :
              Count(held', m, u)
              = Count(h, m, u) - Bit(m = l /\ u = Dchan /\ Count(h, l, Dchan) > 0)
    BY <1>b, Names, DropCounts
  <2>2. \A m \in Locks, u \in Threads \ {Dchan} : Count(held', m, u) = Count(held, m, u)
    BY <2>1, <1>0, <1>b, CountIsNat DEF Bit
  <2>3. \A m \in Locks : Count(held', m, Dchan) = DchanOwes(label, ev'.kind, m)
    BY <2>1, <1>b, Names DEF Bit
  <2> QED BY <2>1, <2>2, <2>3, <1>b, DchanAccount
<1>d. ASSUME NEW l \in Locks, NEW label \in DchanPlaces, held' = Drop(held, l, Dchan),
             Goes(Dchan, label), DchanOwes(pc[Dchan], ev.kind, l) > 0,
             \A m \in Locks : DchanOwes(label, ev'.kind, m)
                               = DchanOwes(pc[Dchan], ev.kind, m) - Bit(m = l)
      PROVE  Goal
  BY <1>b, <1>0, <1>1, <1>d
<1>u. ASSUME NEW label \in DchanPlaces, held' = held, Goes(Dchan, label),
             \A m \in Locks : DchanOwes(label, ev'.kind, m) = DchanOwes(pc[Dchan], ev.kind, m)
      PROVE  Goal
  BY <1>u, <1>0, <1>1, Names, DchanAccount
<1>x. ASSUME NEW label \in DchanPlaces, CanTake("pvt", Dchan),
             held' = Drop(Take(held, "pvt", Dchan), "gsm", Dchan), Goes(Dchan, label),
             DchanOwes(pc[Dchan], ev.kind, "gsm") = 1,
             \A m \in Locks : DchanOwes(label, ev'.kind, m) =
                 DchanOwes(pc[Dchan], ev.kind, m) + Bit(m = "pvt") - Bit(m = "gsm")
      PROVE  Goal
  <2> DEFINE h == Take(held, "pvt", Dchan)
  <2>1. /\ h \in [Locks -> LockType]
        /\ \A m \in Locks, u \in Threads :
              Count(h, m, u) = Count(held, m, u) + Bit(m = "pvt" /\ u = Dchan)
    BY <1>0, <1>x, Names, TakeCounts
  <2> HIDE DEF h
  <2>2. \A m \in Locks, u \in Threads \ {Dchan} : Count(h, m, u) = Count(held, m, u)
    BY <2>1, <1>0, CountIsNat DEF Bit
  <2>3. \A m \in Locks : Count(h, m, Dchan) = DchanOwes(pc[Dchan], ev.kind, m) + Bit(m = "pvt")
    BY <2>1, <1>1, Names DEF Bit
  <2>4. held' = Drop(h, "gsm", Dchan)
    BY <1>x DEF h
  <2>5. Count(h, "gsm", Dchan) > 0
    BY <2>3, <1>x, Names DEF Bit
  <2>6. \A m \in Locks : DchanOwes(label, ev'.kind, m) = Count(h, m, Dchan) - Bit(m = "gsm")
    BY <2>3, <1>x DEF DchanOwes, Bit
  <2> QED BY <2>1, <2>2, <2>4, <2>5, <2>6, <1>b, <1>x, Names
<1>2. CASE Poll
  BY <1>2, <1>t, Names DEF Poll, At, DchanPlaces, DchanOwes, Bit
<1>3. CASE Notes \/ LinkUp \/ HangsUp \/ FrameUnwanted \/ RingAnonymous
  BY <1>3, <1>d, Names DEF Notes, LinkUp, HangsUp, FrameUnwanted, RingAnonymous, Handling, At,
     Done, NoEvent, DchanPlaces, DchanOwes, Bit
<1>4. CASE RingRefused \/ RingNoExtension
  BY <1>4, <1>d, Names DEF RingRefused, RingNoExtension, At, Done, NoEvent, DchanPlaces,
     DchanOwes, Bit
<1>5. CASE FrameLocks \/ AllLocks
  BY <1>5, <1>t, Names DEF FrameLocks, AllLocks, Handling, At, Frames, DchanPlaces, DchanOwes, Bit
<1>6. CASE FrameQueued
  <2> DEFINE h == Drop(held, "pvt", Dchan)
  <2>1. pc[Dchan] = "frame" /\ held' = Drop(h, "gsm", Dchan) /\ Goes(Dchan, "poll") /\ ev' = NoEvent
    BY <1>6 DEF FrameQueued, At, Done
  <2>2. /\ h \in [Locks -> LockType]
        /\ \A m \in Locks, u \in Threads :
              Count(h, m, u)
              = Count(held, m, u) - Bit(m = "pvt" /\ u = Dchan /\ Count(held, "pvt", Dchan) > 0)
    BY <1>0, Names, DropCounts
  <2> HIDE DEF h
  <2>3. \A m \in Locks, u \in Threads \ {Dchan} : Count(h, m, u) = Count(held, m, u)
    BY <2>2, <1>0, CountIsNat DEF Bit
  <2>4. \A m \in Locks : Count(h, m, Dchan) = Bit(m = "gsm")
    BY <2>1, <2>2, <1>1, Names DEF Bit, DchanOwes
  <2> QED BY <2>1, <2>2, <2>3, <2>4, <1>b, Names DEF NoEvent, DchanPlaces, DchanOwes, Bit
<1>7. CASE FrameWaits \/ AllWaits \/ LinkDown \/ AllQueued \/ RingFails
  BY <1>7, <1>d, Names DEF FrameWaits, AllWaits, LinkDown, AllQueued, RingFails, Avoids, Handling,
     At, NoEvent, DchanPlaces, DchanOwes, Bit
<1>8. CASE Restart \/ RingTakes
  BY <1>8, <1>x, Names DEF Restart, RingTakes, Handling, At, DchanPlaces, DchanOwes, Bit
<1>9. CASE AllEnds
  BY <1>9, <1>d, <1>u, Names DEF AllEnds, At, NoEvent, DchanPlaces, DchanOwes, Bit
<1>10. CASE RingLooks \/ RingLooksAgain \/ RingUnborn
  BY <1>10, <1>u, Names DEF RingLooks, RingLooksAgain, RingUnborn, Handling, At, DchanPlaces,
     DchanOwes, Bit
<1>13. CASE RingChecks
  <2>1. CASE pvt.owner # Nobody /\ pvt.gsmcall = ev.call
    BY <1>13, <2>1, <1>d, Names DEF RingChecks, At, Done, NoEvent, DchanPlaces, DchanOwes, Bit
  <2>2. CASE ~(pvt.owner # Nobody /\ pvt.gsmcall = ev.call)
    BY <1>13, <2>2, <1>u, Names DEF RingChecks, At, DchanPlaces, DchanOwes, Bit
  <2> QED BY <2>1, <2>2
<1>14. CASE DialTimer
  BY <1>14, <1>0 DEF DialTimer, LockAccount
<1>11. CASE RingNew
  <2>1. PICK c \in Chans : /\ pc[c] = "idle"
                           /\ pc' = [pc EXCEPT ![c] = "born", ![Dchan] = "ring_start"]
    BY <1>11 DEF RingNew
  <2>2. held' = held /\ ev' = ev /\ pc[Dchan] = "ring_new"
    BY <1>11 DEF RingNew, At
  <2>3. \A d \in Chans : pc'[d] = pc[d] \/ (pc[d] = "idle" /\ pc'[d] = "born")
    BY <2>1, Names DEF TypeInv, PlaceOK
  <2>4. pc'[Dchan] = "ring_start"
    BY <2>1, Names DEF TypeInv, PlaceOK
  <2> QED BY <1>0, <2>2, <2>3, <2>4 DEF LockAccount, ChanOwes, DchanOwes, Bit
<1>12. CASE RingStarts
  <2>1. /\ pc' = [t \in Threads |-> IF t = Dchan THEN "poll"
                                    ELSE IF pc[t] = "born" THEN "idle" ELSE pc[t]]
        /\ held' = Drop(held, "pvt", Dchan) /\ ev' = NoEvent /\ pc[Dchan] = "ring_start"
    BY <1>12 DEF RingStarts, At
  <2>2. /\ held' \in [Locks -> LockType]
        /\ \A m \in Locks, u \in Threads :
              Count(held', m, u)
              = Count(held, m, u) - Bit(m = "pvt" /\ u = Dchan /\ Count(held, "pvt", Dchan) > 0)
    BY <2>1, <1>0, Names, DropCounts
  <2>3. \A m \in Locks, u \in Threads \ {Dchan} : Count(held', m, u) = Count(held, m, u)
    BY <2>2, <1>0, CountIsNat DEF Bit
  <2>4. \A m \in Locks : Count(held', m, Dchan) = 0
    BY <2>1, <2>2, <1>1, Names DEF Bit, DchanOwes
  <2>5. \A d \in Chans : pc'[d] = pc[d] \/ (pc[d] = "born" /\ pc'[d] = "idle")
    BY <2>1, Names
  <2>6. pc'[Dchan] = "poll" /\ ev'.kind = "none"
    BY <2>1, Names DEF NoEvent
  <2> QED BY <2>2, <2>3, <2>4, <2>5, <2>6, Names DEF LockAccount, ChanOwes, DchanOwes, Bit
<1> QED BY <1>2, <1>3, <1>4, <1>5, <1>6, <1>7, <1>8, <1>9, <1>10, <1>11, <1>12, <1>13, <1>14
        DEF Dchannel

\* The console keeps the account: it takes the span's lock only when nobody
\* has it, and twice.
LEMMA ConsoleLocks ==
    ASSUME TypeInv, LockAccount, Console
    PROVE  held' \in [Locks -> LockType] /\ LockAccount'
<1>0. held \in [Locks -> LockType]
  BY DEF TypeInv
<1>1. CASE PowerOff \/ PowerReset
  BY <1>0, <1>1 DEF PowerOff, PowerReset, PowerDown, LockAccount
<1>2. CASE PowerStat
  <2> DEFINE h == Take(held, "gsm", Cli)
  <2>1. /\ held["gsm"].by = Nobody /\ held' = Take(h, "gsm", Cli)
        /\ UNCHANGED <<pc, ev>>
    BY <1>2 DEF PowerStat
  <2>2. /\ h \in [Locks -> LockType]
        /\ \A m \in Locks, u \in Threads :
              Count(h, m, u) = Count(held, m, u) + Bit(m = "gsm" /\ u = Cli)
    BY <2>1, <1>0, Names, TakeCounts
  <2>3. h["gsm"].by = Cli
    BY <1>0, Names DEF Take
  <2>4. /\ held' \in [Locks -> LockType]
        /\ \A m \in Locks, u \in Threads :
              Count(held', m, u) = Count(h, m, u) + Bit(m = "gsm" /\ u = Cli)
    <3> HIDE DEF h
    <3> QED BY <2>1, <2>2, <2>3, Names, TakeCounts
  <2> HIDE DEF h
  <2>5. \A m \in Locks, u \in Threads \ {Cli} : Count(held', m, u) = Count(held, m, u)
    BY <2>2, <2>4, <1>0, CountIsNat DEF Bit
  <2>6. Count(held, "gsm", Cli) = 0
    BY <2>1, Names DEF Count
  <2>7. \A m \in Locks : Count(held', m, Cli) \in 0..2
    BY <2>2, <2>4, <2>6, Names DEF Bit, LockAccount
  <2> QED BY <2>1, <2>4, <2>5, <2>7, Names DEF LockAccount
<1> QED BY <1>1, <1>2 DEF Console
------------------------------------------------------------------------------
(* The other types.                                                        *)
OtherTypes == PlaceOK /\ EventOK /\ ChanOK /\ CallOK /\ pvt \in PvtType

\* The library's call records keep their type.
LEMMA LibTypes ==
    ASSUME CallOK, NEW k
    PROVE  /\ LibHungUp(k) \subseteq [Calls -> LibStates]
           /\ LibDestroyed(k) \in [Calls -> LibStates]
BY DEF CallOK, LibStates, Live, LibHungUp, LibDestroyed

\* A thread's step to a place of its kind.
LEMMA PlaceStep ==
    ASSUME PlaceOK, NEW t \in Chans \cup {Dchan},
           NEW label, Goes(t, label),
           IF t = Dchan THEN label \in DchanPlaces ELSE label \in ChanPlaces
    PROVE  PlaceOK'
BY Names DEF PlaceOK, Goes

\* Every step of a channel's thread keeps the types.
LEMMA PbxTypes ==
    ASSUME TypeInv, NEW c \in Chans, Pbx(c)
    PROVE  OtherTypes'
<1>0. /\ PlaceOK /\ EventOK /\ ChanOK /\ CallOK /\ pvt \in PvtType /\ c # Dchan
      /\ c \in Chans \cup {Dchan}
  BY Names DEF TypeInv
<1>1. CASE Request(c)
  BY <1>1, <1>0, PlaceStep DEF Request, EventOK, ChanOK, CallOK, ChanPlaces, OtherTypes
<1>2. CASE Granted(c)
  <2>1. PlaceOK'
    BY <1>2, <1>0, PlaceStep DEF Granted, ChanPlaces
  <2>2. pvt' \in PvtType
    BY <1>2, <1>0, FlagsOnly, AttachPvt DEF Granted, Flags
  <2>3. ChanOK'
    BY <1>2, <1>0 DEF Granted, ChanOK
  <2> QED BY <2>1, <2>2, <2>3, <1>2, <1>0 DEF Granted, EventOK, CallOK, OtherTypes
<1>3. CASE \E o \in Ops : Start(c, o)
  BY <1>3, <1>0, PlaceStep DEF Start, EventOK, ChanOK, CallOK, ChanPlaces, OtherTypes
<1>4. CASE Enter(c)
  <2>1. PlaceOK'
    BY <1>4, <1>0, PlaceStep DEF Enter, ReadEnters, CallEnters, AnswerEnters, IndicateEnters,
       HangupEnters, ChanPlaces
  <2>2. pvt' \in PvtType
    BY <1>4, <1>0, FlagsOnly, LeftType DEF Enter, ReadEnters, Need, CallEnters, AnswerEnters,
       IndicateEnters, HangupEnters, Flags
  <2>3. ChanOK'
    BY <1>4, <1>0 DEF Enter, ReadEnters, Need, Hears, CallEnters, AnswerEnters, IndicateEnters,
       HangupEnters, ChanOK
  <2> QED BY <2>1, <2>2, <2>3, <1>4, <1>0 DEF Enter, EventOK, CallOK, OtherTypes
<1>5. CASE ReadYields(c) \/ ReadAgain(c)
  BY <1>5, <1>0, PlaceStep DEF ReadYields, ReadAgain, EventOK, ChanOK, CallOK, ChanPlaces,
     OtherTypes
<1>6. CASE GrabFails(c) \/ Regrab(c)
  BY <1>6, <1>0, PlaceStep DEF GrabFails, Avoids, Regrab, EventOK, ChanOK, CallOK, ChanPlaces,
     OtherTypes
<1>7. CASE Grab(c)
  <2>1. PlaceOK'
    BY <1>7, <1>0, PlaceStep DEF Grab, ChanPlaces
  <2>2. pvt' \in PvtType
    <3>1. CASE CallWorks(c) \/ HangupWorks(c)
      BY <3>1, <1>0, FlagsOnly, CallOnly DEF CallWorks, HangupWorks, Flags
    <3>2. CASE AnswerWorks(c) \/ IndicateWorks(c)
      BY <3>2, <1>0, FlagsOnly DEF AnswerWorks, IndicateWorks, Tells, Flags
    <3> QED BY <3>1, <3>2, <1>7 DEF Grab
  <2>3. ChanOK'
    BY <1>7, <1>0 DEF Grab, CallWorks, HangupWorks, AnswerWorks, IndicateWorks, ChanOK
  <2>4. CallOK'
    BY <1>7, <1>0, LibTypes DEF Grab, CallWorks, HangupWorks, AnswerWorks, IndicateWorks, CallOK,
       LibStates, Live
  <2> QED BY <2>1, <2>2, <2>3, <2>4, <1>7, <1>0 DEF Grab, EventOK, OtherTypes
<1>8. CASE Leave(c) \/ Freed(c)
  BY <1>8, <1>0, PlaceStep DEF Leave, Freed, EventOK, ChanOK, CallOK, ChanPlaces, OtherTypes
<1> QED BY <1>1, <1>2, <1>3, <1>4, <1>5, <1>6, <1>7, <1>8 DEF Pbx

\* Every step of the d-channel thread keeps the types.
LEMMA DchanTypes ==
    ASSUME TypeInv, Dchannel
    PROVE  OtherTypes'
<1>0. /\ PlaceOK /\ EventOK /\ ChanOK /\ CallOK /\ pvt \in PvtType
      /\ Dchan \in Chans \cup {Dchan} /\ NoEvent \in [kind : EventKinds \cup {"none"}, call : Calls \cup {NoCall}]
  BY Names DEF TypeInv, NoEvent
<1> USE DEF OtherTypes
<1>1. CASE Poll
  <2>1. PlaceOK'
    BY <1>1, <1>0, PlaceStep DEF Poll, DchanPlaces
  <2>2. PICK kind \in EventKinds :
           \/ \E k \in Calls : Reports(kind, k) /\ ev' = [kind |-> kind, call |-> k]
           \/ ReportsLink(kind) /\ ev' = [kind |-> kind, call |-> NoCall]
    BY <1>1 DEF Poll
  <2>3. EventOK'
    BY <2>2 DEF EventOK
  <2>4. CallOK'
    <3>1. traffic' = traffic
      BY <1>1 DEF Poll
    <3>2. CASE \E k \in Calls : Reports(kind, k)
      BY <3>1, <3>2, <1>0 DEF CallOK, LibStates, Live, Reports
    <3>3. CASE ReportsLink(kind)
      BY <3>1, <3>3, <1>0 DEF CallOK, ReportsLink
    <3> QED BY <3>2, <3>3, <2>2
  <2> QED BY <2>1, <2>3, <2>4, <1>0, <1>1 DEF Poll, ChanOK
<1>2. CASE Notes
  BY <1>2, <1>0, PlaceStep, FlagsOnly
     DEF Notes, Done, ChanSame, LibSame, Flags, DchanPlaces, EventOK, ChanOK, CallOK
<1>3. CASE LinkUp \/ FrameUnwanted
  BY <1>3, <1>0, PlaceStep, FlagsOnly
     DEF LinkUp, FrameUnwanted, Done, ChanSame, LibSame, Flags, DchanPlaces, EventOK, ChanOK, CallOK
<1>4. CASE HangsUp
  <2>1. PlaceOK' /\ EventOK'
    BY <1>4, <1>0, PlaceStep DEF HangsUp, Done, DchanPlaces, EventOK
  <2>2. pvt' \in PvtType
    <3>1. ASSUME NEW cause \in {"needbusy", "needcongestion", "other"}
          PROVE  Heard(cause) \subseteq Flags
      BY <3>1 DEF Heard, Flags
    <3> QED BY <1>4, <1>0, <3>1, FlagsOnly, CallOnly DEF HangsUp, Flags
  <2>3. ChanOK'
    <3>1. \A cause : Told(cause) \subseteq Chans
      BY <1>0 DEF Told, PvtType
    <3> QED BY <1>4, <1>0, <3>1 DEF HangsUp, ChanOK
  <2>4. CallOK'
    BY <1>4, <1>0, LibTypes DEF HangsUp, CallOK
  <2> QED BY <2>1, <2>2, <2>3, <2>4
<1>5. CASE FrameLocks \/ FrameWaits \/ AllLocks \/ AllWaits \/ RingLooks \/ RingLooksAgain
           \/ RingUnborn
  BY <1>5, <1>0, PlaceStep
     DEF FrameLocks, FrameWaits, AllLocks, AllWaits, RingLooks, RingLooksAgain, RingUnborn, Avoids,
         ChanSame, LibSame, DchanPlaces, EventOK, ChanOK, CallOK
<1>6. CASE FrameQueued
  <2>1. PlaceOK' /\ EventOK'
    BY <1>6, <1>0, PlaceStep DEF FrameQueued, Done, DchanPlaces, EventOK
  <2>2. pvt' \in PvtType
    BY <1>6, <1>0, FlagsOnly DEF FrameQueued, Flags
  <2> QED BY <2>1, <2>2, <1>6, <1>0 DEF FrameQueued, ChanSame, LibSame, ChanOK, CallOK
<1>7. CASE LinkDown \/ Restart
  <2>1. PlaceOK' /\ EventOK'
    BY <1>7, <1>0, PlaceStep DEF LinkDown, Restart, DchanPlaces, EventOK
  <2>2. pvt' \in PvtType
    BY <1>7, <1>0, FlagsOnly, CallOnly DEF LinkDown, Restart, Flags
  <2>3. ChanOK'
    BY <1>7, <1>0 DEF LinkDown, Restart, ChanOK, ChanSame
  <2>4. CallOK'
    BY <1>7, <1>0, LibTypes DEF LinkDown, Restart, CallOK, ChanSame
  <2> QED BY <2>1, <2>2, <2>3, <2>4
<1>8. CASE AllQueued
  BY <1>8, <1>0, PlaceStep DEF AllQueued, Owners, LibSame, DchanPlaces, EventOK, ChanOK, CallOK
<1>9. CASE AllEnds
  BY <1>9, <1>0, PlaceStep, FlagsOnly
     DEF AllEnds, LibSame, Flags, DchanPlaces, EventOK, ChanOK, CallOK
<1>10. CASE RingAnonymous \/ RingRefused \/ RingNoExtension \/ RingFails
  <2>1. PlaceOK' /\ EventOK'
    BY <1>10, <1>0, PlaceStep
       DEF RingAnonymous, RingRefused, RingNoExtension, RingFails, Done, DchanPlaces, EventOK
  <2>2. pvt' \in PvtType
    BY <1>10, <1>0, CallOnly DEF RingAnonymous, RingRefused, RingNoExtension, RingFails
  <2>3. ChanOK'
    BY <1>10, <1>0 DEF RingAnonymous, RingRefused, RingNoExtension, RingFails, ChanOK, ChanSame
  <2>4. CallOK'
    BY <1>10, <1>0, LibTypes
       DEF RingAnonymous, RingRefused, RingNoExtension, RingFails, CallOK, ChanSame
  <2> QED BY <2>1, <2>2, <2>3, <2>4
<1>14. CASE RingChecks
  <2>1. PlaceOK' /\ EventOK'
    BY <1>14, <1>0, PlaceStep DEF RingChecks, Done, DchanPlaces, EventOK
  <2> QED BY <2>1, <1>14, <1>0 DEF RingChecks, ChanSame, LibSame, ChanOK, CallOK
<1>15. CASE DialTimer
  BY <1>15, <1>0 DEF DialTimer, ChanSame, PlaceOK, EventOK, ChanOK, CallOK, LibStates
<1>11. CASE RingTakes
  <2>1. ev.call \in Calls \cup {NoCall}
    BY <1>0 DEF EventOK
  <2>2. pvt' \in PvtType
    BY <2>1, <1>11, <1>0, FlagsOnly, CallOnly DEF RingTakes, Flags
  <2> QED BY <2>2, <1>11, <1>0, PlaceStep
          DEF RingTakes, ChanSame, LibSame, DchanPlaces, EventOK, ChanOK, CallOK
<1>12. CASE RingNew
  <2>1. PICK c \in Chans :
           /\ pvt' = Attach(pvt, c, "real")
           /\ astate' = [astate EXCEPT ![c] = "ring"]
           /\ attached' = attached \cup {c}
           /\ dialed' = [dialed EXCEPT ![c] = ev.call]
           /\ pc' = [pc EXCEPT ![c] = "born", ![Dchan] = "ring_start"]
    BY <1>12 DEF RingNew
  <2>2. PlaceOK'
    BY <2>1, <1>0, Names DEF PlaceOK, ChanPlaces, DchanPlaces
  <2>3. pvt' \in PvtType
    BY <2>1, <1>0, AttachPvt
  <2>4. ChanOK'
    BY <2>1, <1>12, <1>0 DEF RingNew, ChanOK, EventOK
  <2> QED BY <2>2, <2>3, <2>4, <1>12, <1>0 DEF RingNew, EventOK, CallOK
<1>13. CASE RingStarts
  <2>1. PlaceOK'
    BY <1>13, <1>0, Names DEF RingStarts, PlaceOK, ChanPlaces, DchanPlaces
  <2> QED BY <2>1, <1>13, <1>0 DEF RingStarts, ChanSame, LibSame, EventOK, ChanOK, CallOK
<1> QED BY <1>1, <1>2, <1>3, <1>4, <1>5, <1>6, <1>7, <1>8, <1>9, <1>10, <1>11, <1>12, <1>13,
           <1>14, <1>15 DEF Dchannel

\* The console's commands keep the types.
LEMMA ConsoleTypes ==
    ASSUME TypeInv, Console
    PROVE  OtherTypes'
<1>0. PlaceOK /\ EventOK /\ ChanOK /\ CallOK /\ pvt \in PvtType
  BY DEF TypeInv
<1>1. CASE PowerDown
  <2>1. pvt' \in PvtType
    BY <1>1, <1>0, FlagsOnly, CallOnly DEF PowerDown, Flags
  <2>2. ChanOK'
    BY <1>1, <1>0 DEF PowerDown, ChanOK
  <2>3. CallOK'
    BY <1>1, <1>0, LibTypes DEF PowerDown, CallOK
  <2> QED BY <2>1, <2>2, <2>3, <1>1, <1>0 DEF PowerDown, PlaceOK, EventOK, OtherTypes
<1>2. CASE PowerStat
  BY <1>2, <1>0 DEF PowerStat, ChanSame, LibSame, OtherTypes, PlaceOK, EventOK, ChanOK, CallOK
<1> QED BY <1>1, <1>2 DEF Console, PowerOff, PowerReset

\* Types and account are inductive.
THEOREM Accounting == Spec => [](TypeInv /\ LockAccount)
<1>1. TypeInv /\ LockAccount /\ [Next]_vars => (TypeInv /\ LockAccount)'
  <2> SUFFICES ASSUME TypeInv, LockAccount, [Next]_vars PROVE TypeInv' /\ LockAccount'
    OBVIOUS
  <2>1. ASSUME NEW c \in Chans, Pbx(c) PROVE TypeInv' /\ LockAccount'
    BY <2>1, PbxLocks, PbxTypes DEF TypeInv, OtherTypes
  <2>2. CASE Dchannel
    BY <2>2, DchanLocks, DchanTypes DEF TypeInv, OtherTypes
  <2>3. CASE Console
    BY <2>3, ConsoleLocks, ConsoleTypes DEF TypeInv, OtherTypes
  <2>4. CASE UNCHANGED vars
    BY <2>4 DEF vars, TypeInv, PlaceOK, EventOK, ChanOK, CallOK, LockAccount
  <2> QED BY <2>1, <2>2, <2>3, <2>4 DEF Next
<1> QED BY InitType, <1>1, PTL DEF Spec

\* No lock is taken more than three deep and every part of the state has its
\* type: TypeOK.
THEOREM Typing == Spec => []TypeOK
<1>1. ASSUME TypeInv, LockAccount PROVE TypeOK
  <2>1. held \in [Locks -> LockType]
    BY <1>1 DEF TypeInv
  <2>2. \A l \in Locks : /\ held[l].by \in Threads \cup {Nobody} /\ held[l].n \in Nat
                         /\ held[l].by = Nobody <=> held[l].n = 0
    BY <2>1 DEF LockType
  <2>3. \A l \in Locks : held[l].n \in 0..3
    <3> TAKE l \in Locks
    <3>1. CASE held[l].by = Nobody
      BY <3>1, <2>2
    <3>2. CASE held[l].by = Dchan
      BY <3>2, <2>2, <1>1 DEF LockAccount, Count, DchanOwes, Bit
    <3>3. CASE held[l].by = Cli
      BY <3>3, <2>2, <1>1 DEF LockAccount, Count
    <3>4. CASE held[l].by \in Chans
      BY <3>4, <2>2, <1>1 DEF LockAccount, Count, ChanOwes, Bit
    <3> QED BY <2>2, <3>1, <3>2, <3>3, <3>4 DEF Threads
  <2>4. /\ attached \subseteq Chans /\ told \subseteq Chans
        /\ pvt.owner \in Chans \cup {Nobody} /\ pvt.gsmcall \in Calls \cup {NoCall}
        /\ {pvt.real, pvt.callwait} \subseteq Chans \cup {Nobody}
        /\ pvt.flags \subseteq Flags
        /\ link \in BOOLEAN
    BY <1>1 DEF TypeInv, ChanOK, CallOK, PvtType
  <2> QED BY <2>2, <2>3, <2>4 DEF TypeOK
<1> QED BY <1>1, Accounting, PTL

\* A thread at rest holds no lock: its account is empty there.
THEOREM LocksReturned == Spec => []AtRest
<1>1. ASSUME TypeInv, LockAccount PROVE AtRest
  <2> SUFFICES ASSUME NEW t \in Threads \ {Cli}, pc[t] \in {"idle", "poll"}, NEW l \in Locks
               PROVE  held[l].by # t
    BY DEF AtRest
  <2>1. held \in [Locks -> LockType] /\ PlaceOK
    BY <1>1 DEF TypeInv
  <2>2. Count(held, l, t) = 0
    <3>1. CASE t \in Chans
      BY <3>1, <1>1 DEF LockAccount, ChanOwes, Bit
    <3>2. CASE t = Dchan
      BY <3>2, <2>1, <1>1 DEF LockAccount, DchanOwes, Bit, PlaceOK, DchanPlaces
    <3> QED BY <3>1, <3>2 DEF Threads
  <2> QED BY <2>1, <2>2, CountIsNat
<1> QED BY <1>1, Accounting, PTL
------------------------------------------------------------------------------
(* gsmcall and the library's records.                                      *)

RingPlaces == {"ring_found", "ring_again", "ring", "ring_new", "ring_start", "ring_fail"}
Untaken == {"event", "ring_found", "ring_again", "ring"}

\* A HANGUP is handled before anything else comes; a RING speaks of a call
\* gsmcall does not know yet, and no one hangs it up before it has its channel;
\* and gsmcall's record outlives all but a HANGUP and the driver's own hangup.
StaleInv ==
    /\ ev.kind = "HANGUP" => pc[Dchan] = "event"
    /\ ev.kind = "RING" => ev.call \in Calls
    /\ pc[Dchan] \in RingPlaces => ev.kind = "RING"
    /\ ev.kind = "RING" /\ pc[Dchan] \in Untaken
           => lib[ev.call] = "in" /\ pvt.gsmcall # ev.call
    /\ pc[Dchan] = "ring_new" /\ pvt.gsmcall # NoCall => lib[pvt.gsmcall] \in Live
    /\ pvt.gsmcall # NoCall => lib[pvt.gsmcall] # "none"
    /\ NoStaleCall

\* Of the flags only alreadyhungup matters to it.
LEMMA StaleSame ==
    ASSUME StaleInv, pvt'.gsmcall = pvt.gsmcall, lib' = lib, ev' = ev, pc'[Dchan] = pc[Dchan],
           "alreadyhungup" \in pvt.flags => "alreadyhungup" \in pvt'.flags \/ pvt.gsmcall = NoCall
    PROVE  StaleInv'
BY DEF StaleInv, RingPlaces, Untaken, NoStaleCall, Has

\* Hanging up and destroying: what becomes of a record.
LEMMA LibMoves ==
    ASSUME CallOK, NEW k \in Calls \cup {NoCall}
    PROVE  /\ \A j \in Calls \ {k} : LibDestroyed(k)[j] = lib[j]
           /\ k \in Calls => LibDestroyed(k)[k] = "gone"
           /\ \A next \in LibHungUp(k), j \in Calls :
                 /\ next[j] = lib[j] \/ (lib[j] \in Live /\ next[j] \in {"ending", "kept"})
                 /\ j = k => next[j] \notin Live
                 /\ k \in Calls /\ lib[k] \in Live /\ j # k => next[j] = lib[j]
<1>0. NoCall \notin Calls /\ DOMAIN lib = Calls
  BY Names DEF CallOK
<1>1. /\ \A j \in Calls \ {k} : LibDestroyed(k)[j] = lib[j]
      /\ k \in Calls => LibDestroyed(k)[k] = "gone"
  BY <1>0 DEF LibDestroyed
<1>2. ASSUME NEW next \in LibHungUp(k), NEW j \in Calls
      PROVE  /\ next[j] = lib[j] \/ (lib[j] \in Live /\ next[j] \in {"ending", "kept"})
             /\ j = k => next[j] \notin Live
             /\ k \in Calls /\ lib[k] \in Live /\ j # k => next[j] = lib[j]
  <2>1. CASE k \notin Calls
    BY <2>1 DEF LibHungUp
  <2>2. CASE k \in Calls /\ lib[k] \in Live
    <3>1. PICK s \in {"ending", "kept"} : next = [lib EXCEPT ![k] = s]
      BY <2>2 DEF LibHungUp
    <3> QED BY <3>1, <2>2, <1>0, CallOK DEF CallOK, Live
  <2>3. CASE k \in Calls /\ lib[k] \notin Live
    <3>1. next = lib \/ \E m \in Calls : lib[m] \in Live /\ next = [lib EXCEPT ![m] = "ending"]
      BY <2>3 DEF LibHungUp
    <3> QED BY <3>1, <2>3, <1>0, CallOK DEF CallOK
  <2> QED BY <2>1, <2>2, <2>3
<1> QED BY <1>1, <1>2

\* Every step of a channel's thread keeps StaleInv, if a span that was granted
\* has no call.
LEMMA PbxStale ==
    ASSUME TypeInv, LockAccount, StaleInv, NEW c \in Chans, Pbx(c),
           pc[c] = "granted" => pvt.gsmcall = NoCall
    PROVE  StaleInv'
<1>0. /\ PlaceOK /\ EventOK /\ ChanOK /\ CallOK /\ pvt \in PvtType /\ c # Dchan
  BY Names DEF TypeInv
<1>1. /\ ev' = ev
      /\ \E label : Goes(c, label)
  BY DEF Pbx, Request, Granted, Start, Enter, ReadEnters, CallEnters, AnswerEnters,
     IndicateEnters, HangupEnters, ReadYields, ReadAgain, GrabFails, Avoids, Regrab, Grab, Leave, Freed
<1>2. pc'[Dchan] = pc[Dchan]
  BY <1>0, <1>1, Names DEF Goes, PlaceOK
<1>3. CASE Granted(c)
  <2>1. pvt'.gsmcall = pvt.gsmcall /\ lib' = lib
    BY <1>3, <1>0, FlagsOnly, AttachPvt DEF Granted, Flags
  <2>2. pvt.gsmcall = NoCall
    BY <1>3 DEF Granted
  <2> QED BY <2>1, <2>2, <1>1, <1>2, StaleSame
<1>4. CASE Enter(c)
  <2>1. pvt'.gsmcall = pvt.gsmcall
    BY <1>4, <1>0, FlagsOnly, LeftType DEF Enter, ReadEnters, Need, CallEnters, AnswerEnters,
       IndicateEnters, HangupEnters, Flags
  <2>2. "alreadyhungup" \in pvt.flags => "alreadyhungup" \in pvt'.flags
    BY <1>4, <1>0, MarkStays DEF Enter, ReadEnters, Need, CallEnters, AnswerEnters,
       IndicateEnters, HangupEnters, Flags
  <2> QED BY <2>1, <2>2, <1>4, <1>1, <1>2, StaleSame DEF Enter
<1>5. CASE Grab(c)
  <2>1. CASE CallWorks(c)
    BY <2>1, <1>0, <1>1, <1>2, CallOnly, Names
       DEF CallWorks, StaleInv, RingPlaces, Untaken, NoStaleCall, Live, LibStates, CallOK
  <2>2. CASE HangupWorks(c)
    <3>1. pvt.gsmcall \in Calls \cup {NoCall}
      BY <1>0 DEF PvtType
    <3>2. pvt'.gsmcall = NoCall \/ (pvt'.gsmcall = pvt.gsmcall /\ "alreadyhungup" \in pvt'.flags)
      <4>1. CASE Has("alreadyhungup")
        BY <4>1, <2>2, <1>0, CallOnly DEF HangupWorks
      <4>2. CASE ~Has("alreadyhungup")
        <5>1. pvt' = With(pvt, {"alreadyhungup"})
          BY <4>2, <2>2 DEF HangupWorks
        <5>2. "alreadyhungup" \in pvt'.flags /\ pvt'.gsmcall = pvt.gsmcall
          BY <5>1, <1>0 DEF With, PvtType
        <5> QED BY <5>2
      <4> QED BY <4>1, <4>2
    <3>3. lib' \in LibHungUp(pvt.gsmcall)
      BY <2>2 DEF HangupWorks
    <3>4. \A j \in Calls : lib[j] # "none" => lib'[j] # "none"
      BY <3>1, <3>3, <1>0, LibMoves DEF Live
    <3>5. pc[Dchan] \notin Untaken \cup {"ring_new"}
      <4>1. Count(held, "gsm", Dchan) = 0
        BY <1>5, <1>0, Names DEF Grab, CanTake, Count
      <4>2. Count(held, "pvt", c) = 1
        BY <1>5, Names DEF LockAccount, ChanOwes, Bit, Grab
      <4>3. Count(held, "pvt", Dchan) = 0
        BY <4>2, <1>0 DEF Count
      <4> QED BY <4>1, <4>3, Names DEF LockAccount, DchanOwes, Bit, Untaken
    <3> QED BY <3>1, <3>2, <3>4, <3>5, <1>1, <1>2, Names DEF StaleInv, NoStaleCall, Has
  <2>3. CASE AnswerWorks(c)
    <3>1. pvt'.gsmcall = pvt.gsmcall
      BY <2>3, <1>0, FlagsOnly DEF AnswerWorks, Flags
    <3>2. "alreadyhungup" \in pvt.flags => "alreadyhungup" \in pvt'.flags
      <4> DEFINE w == With(pvt, {"proceeding"})
      <4>1. w \in PvtType /\ ("alreadyhungup" \in pvt.flags => "alreadyhungup" \in w.flags)
        BY <1>0, MarkStays, FlagsOnly DEF Flags
      <4>2. pvt' = Without(w, {"dialing"})
        BY <2>3 DEF AnswerWorks
      <4> HIDE DEF w
      <4> QED BY <4>1, <4>2, MarkStays DEF Flags
    <3>3. \A j \in Calls : lib'[j] = lib[j] \/ (lib[j] = "in" /\ j = pvt.gsmcall /\ lib'[j] = "up")
      <4>1. CASE pvt.gsmcall \in Calls /\ lib[pvt.gsmcall] = "in"
        <5>1. lib' = [lib EXCEPT ![pvt.gsmcall] = "up"]
          BY <4>1, <2>3 DEF AnswerWorks
        <5> QED BY <5>1, <4>1, <1>0 DEF CallOK
      <4>2. CASE ~(pvt.gsmcall \in Calls /\ lib[pvt.gsmcall] = "in")
        BY <4>2, <2>3 DEF AnswerWorks
      <4> QED BY <4>1, <4>2
    <3> QED BY <3>1, <3>2, <3>3, <1>0, <1>1, <1>2, Names
            DEF StaleInv, RingPlaces, Untaken, NoStaleCall, Has, Live, PvtType
  <2>4. CASE IndicateWorks(c)
    <3> DEFINE w == With(pvt, {Tells(doing[c])})
    <3>1. w \in PvtType /\ w.gsmcall = pvt.gsmcall
          /\ ("alreadyhungup" \in pvt.flags => "alreadyhungup" \in w.flags)
      BY <2>4, <1>0, MarkStays, FlagsOnly DEF IndicateWorks, Tells, Flags
    <3>2. pvt' = w \/ pvt' = Without(w, {"dialing"})
      BY <2>4 DEF IndicateWorks
    <3>3. lib' = lib
      BY <2>4 DEF IndicateWorks
    <3> HIDE DEF w
    <3>4. pvt'.gsmcall = pvt.gsmcall /\ ("alreadyhungup" \in pvt.flags => "alreadyhungup" \in pvt'.flags)
      BY <3>1, <3>2, MarkStays, FlagsOnly DEF Flags
    <3> QED BY <3>3, <3>4, <1>1, <1>2, StaleSame
  <2> QED BY <2>1, <2>2, <2>3, <2>4, <1>5 DEF Grab
<1>6. CASE Request(c) \/ (\E o \in Ops : Start(c, o)) \/ ReadYields(c) \/ ReadAgain(c)
           \/ GrabFails(c) \/ Regrab(c) \/ Leave(c) \/ Freed(c)
  <2>1. pvt' = pvt /\ lib' = lib
    BY <1>6 DEF Request, Start, ReadYields, ReadAgain, GrabFails, Regrab, Leave, Freed
  <2> QED BY <2>1, <1>1, <1>2, StaleSame
<1> QED BY <1>3, <1>4, <1>5, <1>6 DEF Pbx

\* A step that forgets gsmcall keeps StaleInv when it leaves no HANGUP and no
\* RING to be looked at.
LEMMA StaleForgets ==
    ASSUME StaleInv, pvt'.gsmcall = NoCall, ev'.kind # "HANGUP",
           ev' = ev \/ ev' = NoEvent, pc'[Dchan] \notin Untaken,
           pc'[Dchan] \in RingPlaces => ev'.kind = "RING"
    PROVE  StaleInv'
BY DEF StaleInv, RingPlaces, Untaken, NoStaleCall, NoEvent

\* A step that hangs up the call of a RING, which is not gsmcall's, and polls.
LEMMA StaleRefuses ==
    ASSUME TypeInv, StaleInv, ev.kind = "RING", pc[Dchan] \in Untaken,
           lib' \in LibHungUp(ev.call), pvt' = pvt, ev' = NoEvent, pc'[Dchan] = "poll"
    PROVE  StaleInv'
<1>1. CallOK /\ pvt \in PvtType /\ ev.call \in Calls /\ lib[ev.call] \in Live /\ pvt.gsmcall # ev.call
  BY DEF TypeInv, StaleInv, Live
<1>2. \A j \in Calls \ {ev.call} : lib'[j] = lib[j]
  BY <1>1, LibMoves
<1>3. pvt.gsmcall # NoCall => lib'[pvt.gsmcall] = lib[pvt.gsmcall]
  BY <1>1, <1>2 DEF PvtType
<1> QED BY <1>3 DEF StaleInv, RingPlaces, Untaken, NoStaleCall, NoEvent, Has

\* Every step of the d-channel thread keeps StaleInv.
LEMMA DchanStale ==
    ASSUME TypeInv, StaleInv, Dchannel
    PROVE  StaleInv'
<1>0. /\ PlaceOK /\ EventOK /\ ChanOK /\ CallOK /\ pvt \in PvtType
      /\ pvt.gsmcall \in Calls \cup {NoCall}
  BY DEF TypeInv, PvtType
<1>g. ASSUME NEW label, Goes(Dchan, label) PROVE pc'[Dchan] = label
  BY <1>g, <1>0, Names DEF Goes, PlaceOK
<1>m. ASSUME NEW p \in PvtType, NEW fs \in SUBSET Flags, "alreadyhungup" \notin fs
      PROVE  /\ "alreadyhungup" \in p.flags => "alreadyhungup" \in With(p, fs).flags
             /\ "alreadyhungup" \in p.flags => "alreadyhungup" \in Without(p, fs).flags
  BY <1>m, MarkStays
<1>1. CASE Poll
  <2>1. pc[Dchan] = "poll" /\ pc'[Dchan] = "event" /\ pvt' = pvt
    BY <1>1, <1>g DEF Poll, At
  <2>2. PICK kind \in EventKinds :
           \/ \E k \in Calls : Reports(kind, k) /\ ev' = [kind |-> kind, call |-> k]
           \/ ReportsLink(kind) /\ ev' = [kind |-> kind, call |-> NoCall]
    BY <1>1 DEF Poll
  <2>3. pvt.gsmcall # NoCall => /\ pvt.gsmcall \in Calls /\ lib[pvt.gsmcall] # "none"
                                /\ ~Has("alreadyhungup") => lib[pvt.gsmcall] \in Live
    BY <1>0, <2>1 DEF StaleInv, RingPlaces, NoStaleCall
  <2>4. CASE ReportsLink(kind) /\ ev' = [kind |-> kind, call |-> NoCall]
    BY <2>1, <2>3, <2>4 DEF ReportsLink, StaleInv, RingPlaces, Untaken, NoStaleCall, Has
  <2>5. ASSUME NEW k \in Calls, Reports(kind, k), ev' = [kind |-> kind, call |-> k]
        PROVE  StaleInv'
    <3>1. CASE kind = "RING"
      <4>1. lib[k] = "none" /\ lib' = [lib EXCEPT ![k] = "in"]
        BY <2>5, <3>1 DEF Reports
      <4>2. pvt.gsmcall # k /\ lib'[k] = "in" /\ \A j \in Calls \ {k} : lib'[j] = lib[j]
        BY <4>1, <2>3, <1>0, Names DEF CallOK
      <4>3. ev'.kind = "RING" /\ ev'.call = k
        BY <2>5, <3>1
      <4> QED BY <4>2, <4>3, <2>1, <2>3, <2>5, <3>1, <1>0
              DEF StaleInv, RingPlaces, Untaken, NoStaleCall, Has
    <3>2. CASE kind = "HANGUP"
      <4>1. lib' = [lib EXCEPT ![k] = "gone"]
        BY <2>5, <3>2 DEF Reports
      <4>2. \A j \in Calls : lib'[j] = lib[j] \/ lib'[j] = "gone"
        BY <4>1, <1>0 DEF CallOK
      <4> QED BY <4>2, <2>1, <2>3, <2>5, <3>2, <1>0 DEF StaleInv, RingPlaces, Untaken, NoStaleCall
    <3>3. CASE kind \notin {"RING", "HANGUP"}
      <4>1. lib' = lib \/ (lib[k] = "out" /\ lib' = [lib EXCEPT ![k] = "up"])
        BY <2>5, <3>3 DEF Reports
      <4>2. \A j \in Calls : lib'[j] = lib[j] \/ (lib[j] = "out" /\ lib'[j] = "up")
        BY <4>1, <1>0 DEF CallOK
      <4> QED BY <4>2, <2>1, <2>3, <2>5, <3>3, <1>0
              DEF StaleInv, RingPlaces, Untaken, NoStaleCall, Has, Live
    <3> QED BY <3>1, <3>2, <3>3
  <2> QED BY <2>2, <2>4, <2>5
<1>2. CASE Notes \/ LinkUp \/ FrameUnwanted
  <2>1. /\ lib' = lib /\ ev' = NoEvent /\ pc'[Dchan] = "poll" /\ ev.kind # "HANGUP"
    BY <1>2, <1>g DEF Notes, LinkUp, FrameUnwanted, Handling, Frames, Done, LibSame
  <2>2. /\ pvt'.gsmcall = pvt.gsmcall
        /\ "alreadyhungup" \in pvt.flags => "alreadyhungup" \in pvt'.flags
    <3> DEFINE w == Without(pvt, {"dialing"})
    <3>1. /\ w \in PvtType /\ w.gsmcall = pvt.gsmcall
          /\ "alreadyhungup" \in pvt.flags => "alreadyhungup" \in w.flags
      BY <1>0, <1>m, FlagsOnly DEF Flags
    <3>2. pvt' \in {pvt, With(pvt, {"alerting"}), With(w, {"needanswer"}), Without(pvt, {"inalarm"})}
      BY <1>2 DEF Notes, LinkUp, FrameUnwanted
    <3> HIDE DEF w
    <3> QED BY <3>1, <3>2, <1>0, <1>m, FlagsOnly DEF Flags
  <2> QED BY <2>1, <2>2 DEF StaleInv, RingPlaces, Untaken, NoStaleCall, NoEvent, Has
<1>3. CASE HangsUp
  <2>1. ev' = NoEvent /\ pc'[Dchan] = "poll"
    BY <1>3, <1>g DEF HangsUp, Done
  <2>2. pvt'.gsmcall = NoCall
    <3>1. ASSUME NEW cause \in {"needbusy", "needcongestion", "other"}
          PROVE  Heard(cause) \subseteq Flags
      BY <3>1 DEF Heard, Flags
    <3>2. ASSUME NEW cause \in {"needbusy", "needcongestion", "other"}
          PROVE  Without(With(pvt, Heard(cause)), {"resetting"}) \in PvtType
      BY <3>1, <1>0, FlagsOnly DEF Flags
    <3> QED BY <1>3, <1>0, <3>2, Forgotten DEF HangsUp
  <2> QED BY <2>1, <2>2, StaleForgets DEF NoEvent, RingPlaces, Untaken
<1>4. CASE FrameLocks \/ FrameWaits \/ AllLocks \/ AllWaits \/ RingLooks \/ RingLooksAgain \/ RingUnborn
  <2>1. pvt' = pvt /\ lib' = lib /\ ev' = ev
    BY <1>4 DEF FrameLocks, FrameWaits, AllLocks, AllWaits, RingLooks, RingLooksAgain, RingUnborn, LibSame
  <2>2. /\ ev.kind # "HANGUP"
        /\ pc'[Dchan] \in Untaken => pc[Dchan] \in Untaken
        /\ pc'[Dchan] \in RingPlaces => ev.kind = "RING"
        /\ pc'[Dchan] # "ring_new"
    BY <1>4, <1>g DEF FrameLocks, FrameWaits, AllLocks, AllWaits, RingLooks, RingLooksAgain, RingUnborn,
       Avoids, Handling, At, Frames, StaleInv, RingPlaces, Untaken
  <2> QED BY <2>1, <2>2 DEF StaleInv, NoStaleCall, Has
<1>5. CASE FrameQueued
  <2>1. lib' = lib /\ ev' = NoEvent /\ pc'[Dchan] = "poll"
    BY <1>5, <1>g DEF FrameQueued, Done, LibSame
  <2>2. ev.kind # "HANGUP"
    BY <1>5 DEF FrameQueued, At, StaleInv, RingPlaces
  <2>3. /\ pvt'.gsmcall = pvt.gsmcall
        /\ "alreadyhungup" \in pvt.flags => "alreadyhungup" \in pvt'.flags
    <3> DEFINE a == With(pvt, {"progress"})
               b == With(pvt, {"proceeding"})
    <3>1. \A w \in {a, b} :
             /\ w \in PvtType /\ w.gsmcall = pvt.gsmcall
             /\ "alreadyhungup" \in pvt.flags => "alreadyhungup" \in w.flags
      BY <1>0, <1>m, FlagsOnly DEF Flags
    <3>2. pvt' \in {pvt, Without(a, {"dialing"}), Without(b, {"dialing"})}
      BY <1>5 DEF FrameQueued
    <3> HIDE DEF a, b
    <3> QED BY <3>1, <3>2, <1>0, <1>m, FlagsOnly DEF Flags
  <2> QED BY <2>1, <2>2, <2>3 DEF StaleInv, RingPlaces, Untaken, NoStaleCall, NoEvent, Has
<1>6. CASE LinkDown \/ Restart
  <2>1. pvt'.gsmcall = NoCall
    <3>1. Without(pvt, {"resetting"}) \in PvtType
      BY <1>0, FlagsOnly DEF Flags
    <3> QED BY <1>6, <1>0, <3>1, Forgotten DEF LinkDown, Restart
  <2>2. ev' = ev /\ ev.kind # "HANGUP" /\ pc'[Dchan] = "all"
    BY <1>6, <1>g DEF LinkDown, Restart, Handling
  <2> QED BY <2>1, <2>2, StaleForgets DEF RingPlaces, Untaken
<1>7. CASE AllQueued \/ AllEnds
  <2>1. /\ pvt'.gsmcall = pvt.gsmcall /\ lib' = lib
        /\ "alreadyhungup" \in pvt.flags => "alreadyhungup" \in pvt'.flags
    BY <1>7, <1>0, <1>m, FlagsOnly DEF AllQueued, AllEnds, LibSame, Flags
  <2>2. /\ ev' = ev \/ ev' = NoEvent
        /\ ev.kind # "HANGUP" /\ pc'[Dchan] \notin RingPlaces \cup {"event"}
    BY <1>7, <1>g DEF AllQueued, AllEnds, At, StaleInv, RingPlaces
  <2> QED BY <2>1, <2>2 DEF StaleInv, RingPlaces, Untaken, NoStaleCall, NoEvent, Has
<1>8. CASE RingAnonymous \/ RingRefused
  <2>1. /\ ev.kind = "RING" /\ pc[Dchan] \in Untaken
        /\ lib' \in LibHungUp(ev.call) /\ pvt' = pvt /\ ev' = NoEvent /\ pc'[Dchan] = "poll"
    BY <1>8, <1>g DEF RingAnonymous, RingRefused, Handling, At, Done, StaleInv, RingPlaces, Untaken
  <2> QED BY <2>1, StaleRefuses
<1>9. CASE RingNoExtension \/ RingFails
  <2>1. pvt'.gsmcall = NoCall
    BY <1>9, <1>0, Forgotten DEF RingNoExtension, RingFails
  <2>2. ev' = NoEvent /\ pc'[Dchan] = "poll"
    BY <1>9, <1>g DEF RingNoExtension, RingFails, Done
  <2> QED BY <2>1, <2>2, StaleForgets DEF NoEvent, RingPlaces, Untaken
<1>10. CASE RingTakes
  <2>1. ev' = ev /\ lib' = lib /\ pc[Dchan] = "ring" /\ pc'[Dchan] = "ring_new"
    BY <1>10, <1>g DEF RingTakes, At, LibSame
  <2>2. pvt'.gsmcall = ev.call
    BY <1>10, <1>0, FlagsOnly, CallOnly DEF RingTakes, Flags, EventOK
  <2>3. ev.kind = "RING"
    BY <2>1 DEF StaleInv, RingPlaces
  <2> QED BY <2>1, <2>2, <2>3, <1>0 DEF StaleInv, RingPlaces, Untaken, NoStaleCall, Live
<1>11. CASE RingNew
  <2>1. /\ pvt'.gsmcall = pvt.gsmcall /\ lib' = lib /\ ev' = ev
        /\ pc[Dchan] = "ring_new" /\ pc'[Dchan] = "ring_start"
    BY <1>11, <1>0, AttachPvt, Names DEF RingNew, At, PlaceOK
  <2> QED BY <2>1 DEF StaleInv, RingPlaces, Untaken, NoStaleCall
<1>12. CASE RingStarts
  <2>1. /\ pvt' = pvt /\ lib' = lib /\ ev' = NoEvent
        /\ pc[Dchan] = "ring_start" /\ pc'[Dchan] = "poll"
    BY <1>12, Names DEF RingStarts, At, LibSame
  <2> QED BY <2>1 DEF StaleInv, RingPlaces, Untaken, NoStaleCall, NoEvent, Has
<1>13. CASE RingChecks
  <2>1. pvt' = pvt /\ lib' = lib /\ pc[Dchan] = "ring_found" /\ ev.kind = "RING"
    BY <1>13 DEF RingChecks, At, LibSame, StaleInv, RingPlaces
  <2>2. \/ ev' = NoEvent /\ pc'[Dchan] = "poll"
        \/ ev' = ev /\ pc'[Dchan] \in {"ring", "ring_again"}
    BY <1>13, <1>g DEF RingChecks, Done
  <2> QED BY <2>1, <2>2 DEF StaleInv, RingPlaces, Untaken, NoStaleCall, NoEvent, Has
<1>14. CASE DialTimer
  <2>1. /\ pvt' = pvt /\ ev' = ev /\ pc' = pc /\ pc[Dchan] = "poll"
        /\ \A j \in Calls : lib'[j] = lib[j] \/ (lib[j] = "kept" /\ lib'[j] = "ending")
    BY <1>14, <1>0 DEF DialTimer, At, CallOK
  <2> QED BY <2>1, <1>0 DEF StaleInv, RingPlaces, Untaken, NoStaleCall, Has, Live
<1> QED BY <1>1, <1>2, <1>3, <1>4, <1>5, <1>6, <1>7, <1>8, <1>9, <1>10, <1>11, <1>12, <1>13, <1>14
        DEF Dchannel

\* A power command destroys the call it makes gsmcall forget.
LEMMA ConsoleStale ==
    ASSUME TypeInv, StaleInv, Console
    PROVE  StaleInv'
<1>0. /\ CallOK /\ pvt \in PvtType /\ pvt.gsmcall \in Calls \cup {NoCall}
  BY DEF TypeInv, PvtType
<1>1. CASE PowerDown
  <2>1. ev' = ev /\ pc' = pc
    BY <1>1 DEF PowerDown
  <2>2. CASE link \/ pvt.gsmcall = NoCall
    BY <1>1, <2>1, <2>2, StaleSame DEF PowerDown
  <2>3. CASE ~(link \/ pvt.gsmcall = NoCall)
    <3>1. pvt'.gsmcall = NoCall /\ lib' = LibDestroyed(pvt.gsmcall)
      <4>1. Without(pvt, {"resetting"}) \in PvtType
        BY <1>0, FlagsOnly DEF Flags
      <4> QED BY <1>1, <2>3, <4>1, Forgotten DEF PowerDown
    <3>2. \A j \in Calls \ {pvt.gsmcall} : lib'[j] = lib[j]
      BY <3>1, <1>0, LibMoves
    <3>3. ev.kind = "RING" /\ pc[Dchan] \in Untaken => lib'[ev.call] = "in"
      BY <3>2 DEF StaleInv
    <3>4. ev.kind = "RING" /\ pc[Dchan] \in Untaken => NoCall # ev.call
      BY Names DEF StaleInv
    <3> QED BY <3>1, <3>3, <3>4, <2>1 DEF StaleInv, RingPlaces, NoStaleCall
  <2> QED BY <2>2, <2>3
<1>2. CASE PowerStat
  BY <1>2, StaleSame DEF PowerStat, LibSame
<1> QED BY <1>1, <1>2 DEF Console, PowerOff, PowerReset
------------------------------------------------------------------------------
(* One direction of traffic at a time.                                     *)
Leaving(c) == doing[c] = "hangup" /\ pc[c] \in {"grab", "regrab", "leave"}

\* The owner is the one channel that is attached and does not leave; what a
\* request was granted stays free; a channel that calls has no call yet.
OwnerInv(c) ==
    /\ pvt.owner = c <=> c \in attached /\ ~Leaving(c)
    /\ pc[c] = "granted" => pvt.owner = Nobody /\ pvt.gsmcall = NoCall /\ traffic = "out"
    /\ pc[c] \in {"enter", "yielded", "grab", "regrab", "leave"} => c \in attached
    /\ pc[c] = "list" => c \notin attached
    /\ astate[c] = "reserved" => traffic = "out"
    /\ traffic = "out" /\ pvt.owner = c /\ dialed[c] = NoCall => pvt.gsmcall = NoCall
    /\ doing[c] = "call" /\ pc[c] \in {"enter", "yielded", "grab", "regrab"}
           => traffic = "out" /\ dialed[c] = NoCall
OneWay ==
    /\ pvt.owner = pvt.real /\ pvt.callwait = Nobody
    /\ \A c \in Chans : OwnerInv(c)
    /\ ev.kind = "RING" => traffic = "in"

\* A step of one channel's thread is not seen in the state of another channel.
LEMMA OthersSame ==
    ASSUME TypeInv, NEW c \in Chans, Pbx(c), NEW d \in Chans \ {c}
    PROVE  /\ pc'[d] = pc[d] /\ doing'[d] = doing[d] /\ astate'[d] = astate[d]
           /\ dialed'[d] = dialed[d] /\ (d \in attached' <=> d \in attached)
<1>0. PlaceOK /\ ChanOK
  BY DEF TypeInv
<1>1. pc'[d] = pc[d]
  BY <1>0, Names DEF Pbx, Request, Granted, Start, Enter, ReadEnters, CallEnters, AnswerEnters,
     IndicateEnters, HangupEnters, ReadYields, ReadAgain, GrabFails, Avoids, Regrab, Grab, Leave,
     Freed, Goes, PlaceOK
<1>2. doing'[d] = doing[d] /\ (d \in attached' <=> d \in attached)
  BY <1>0 DEF Pbx, Request, Granted, Start, Enter, ReadYields, ReadAgain, GrabFails, Regrab,
     Grab, Leave, Freed, ChanOK
<1>3. dialed'[d] = dialed[d]
  BY <1>0 DEF Pbx, Request, Granted, Start, Enter, ReadYields, ReadAgain, GrabFails, Regrab,
     Grab, CallWorks, AnswerWorks, IndicateWorks, HangupWorks, Leave, Freed, ChanOK
<1>4. astate'[d] = astate[d]
  BY <1>0 DEF Pbx, Request, Granted, Start, Enter, ReadEnters, Need, CallEnters, AnswerEnters,
     IndicateEnters, HangupEnters, ReadYields, ReadAgain, GrabFails, Regrab,
     Grab, CallWorks, AnswerWorks, IndicateWorks, HangupWorks, Leave, Freed, ChanOK
<1> QED BY <1>1, <1>2, <1>3, <1>4

\* Where owner and gsmcall stay, only the channel that moves matters.
LEMMA OwnerFrame ==
    ASSUME TypeInv, NEW c \in Chans, Pbx(c), OneWay, OwnerInv(c)',
           pvt'.owner = pvt.owner, pvt'.real = pvt.real, pvt'.callwait = pvt.callwait,
           pvt'.gsmcall \in {pvt.gsmcall, NoCall}
    PROVE  OneWay'
<1>1. \A d \in Chans \ {c} : OwnerInv(d)'
  BY OthersSame DEF OneWay, OwnerInv, Leaving, Pbx, Request, Granted, Start, Enter, ReadYields,
     ReadAgain, GrabFails, Regrab, Grab, Leave, Freed
<1>2. ev' = ev /\ traffic' = traffic
  BY DEF Pbx, Request, Granted, Start, Enter, ReadYields, ReadAgain, GrabFails, Regrab, Grab,
     Leave, Freed
<1> QED BY <1>1, <1>2 DEF OneWay

\* Every step of a channel's thread keeps the owner the one channel there is.
LEMMA PbxOneWay ==
    ASSUME TypeInv, LockAccount, "both" \notin Traffic, OneWay, NEW c \in Chans, Pbx(c)
    PROVE  OneWay'
<1>0. /\ PlaceOK /\ ChanOK /\ CallOK /\ pvt \in PvtType /\ c # Nobody
      /\ traffic \in {"in", "out"}
  BY Names, ChannelAssumption DEF TypeInv, CallOK, ChannelAssumption
<1>g. ASSUME NEW label, Goes(c, label) PROVE pc'[c] = label
  BY <1>g, <1>0, Names DEF Goes, PlaceOK
<1>i. OwnerInv(c) /\ pvt.owner = pvt.real /\ pvt.callwait = Nobody
  BY DEF OneWay
<1>1. CASE Request(c)
  <2>1. /\ pc[c] = "idle" /\ pc'[c] = "granted" /\ traffic = "out" /\ Available(pvt)
        /\ UNCHANGED <<doing, astate, attached, pvt, dialed, traffic>>
    BY <1>1, <1>0, <1>g DEF Request
  <2> QED BY <2>1, <1>i, OwnerFrame DEF OwnerInv, Leaving, Available
<1>2. CASE Granted(c)
  <2>1. /\ pc[c] = "granted" /\ pc'[c] = "idle" /\ pvt.owner = Nobody /\ pvt.gsmcall = NoCall
        /\ traffic = "out"
        /\ UNCHANGED <<doing, dialed, traffic, ev>>
    BY <1>2, <1>i, <1>g DEF Granted, OwnerInv
  <2>2. CASE pvt' = Without(pvt, {"outgoing"}) /\ UNCHANGED <<astate, attached>>
    <3>1. /\ pvt'.owner = pvt.owner /\ pvt'.real = pvt.real /\ pvt'.callwait = pvt.callwait
          /\ pvt'.gsmcall = pvt.gsmcall
      BY <2>2, <1>0, FlagsOnly DEF Flags
    <3> QED BY <2>1, <2>2, <3>1, <1>i, OwnerFrame DEF OwnerInv, Leaving
  <2>3. CASE /\ pvt' = Attach(With(pvt, {"outgoing"}), c, "real")
             /\ astate' = [astate EXCEPT ![c] = "reserved"]
             /\ attached' = attached \cup {c}
    <3>1. /\ pvt'.owner = c /\ pvt'.real = c /\ pvt'.callwait = Nobody /\ pvt'.gsmcall = NoCall
      <4>1. With(pvt, {"outgoing"}) \in PvtType
        BY <1>0, FlagsOnly DEF Flags
      <4>2. With(pvt, {"outgoing"}).owner = Nobody /\ With(pvt, {"outgoing"}).gsmcall = NoCall
            /\ With(pvt, {"outgoing"}).callwait = Nobody
        BY <1>0, <1>i, <2>1, FlagsOnly DEF Flags
      <4> QED BY <2>3, <4>1, <4>2, AttachPvt
    <3>2. OwnerInv(c)'
      BY <2>1, <2>3, <3>1, <1>i, <1>0 DEF OwnerInv, Leaving
    <3>3. ASSUME NEW d \in Chans \ {c} PROVE OwnerInv(d)'
      <4>1. pc[d] # "granted"
        <5>1. held["if"].by = c
          BY <2>1, Names, CountIsNat DEF LockAccount, ChanOwes, Bit, TypeInv
        <5> QED BY <5>1, Names, CountIsNat DEF LockAccount, ChanOwes, Bit, TypeInv
      <4>2. ~(d \in attached /\ ~Leaving(d))
        BY <2>1, Names DEF OneWay, OwnerInv
      <4>3. /\ pc'[d] = pc[d] /\ doing'[d] = doing[d] /\ astate'[d] = astate[d]
            /\ dialed'[d] = dialed[d] /\ (d \in attached' <=> d \in attached)
        BY OthersSame
      <4> QED BY <4>1, <4>2, <4>3, <3>1, <2>1 DEF OneWay, OwnerInv, Leaving
    <3> QED BY <3>1, <3>2, <3>3, <2>1 DEF OneWay
  <2> QED BY <2>1, <2>2, <2>3, <1>2 DEF Granted
<1>3. CASE \E o \in Ops : Start(c, o)
  <2>1. PICK o \in Ops : Start(c, o)
    BY <1>3
  <2>2. /\ pc[c] = "idle" /\ pc'[c] = "enter" /\ c \in attached /\ Sensible(c, o) /\ doing'[c] = o
        /\ astate'[c] = astate[c] \/ astate'[c] = "up"
        /\ UNCHANGED <<attached, pvt, dialed, traffic>>
    BY <2>1, <1>0, <1>g DEF Start, ChanOK
  <2>3. o = "call" => astate[c] = "reserved" /\ dialed[c] = NoCall
    BY <2>2 DEF Sensible
  <2> QED BY <2>2, <2>3, <1>i, OwnerFrame DEF OwnerInv, Leaving
<1>4. CASE Enter(c)
  <2>1. /\ pc[c] = "enter" /\ pc'[c] \in {"grab", "leave"}
        /\ UNCHANGED <<doing, attached, dialed, traffic, ev>>
        /\ astate'[c] \in {astate[c], "ringing", "up"}
    BY <1>4, <1>0, <1>g DEF Enter, Enters, ReadEnters, Need, CallEnters, AnswerEnters,
       IndicateEnters, HangupEnters, ChanOK
  <2>2. CASE HangupEnters(c)
    <3>1. doing[c] = "hangup" /\ pvt' = Left(pvt, c)
      BY <2>2 DEF HangupEnters, Enters
    <3>2. /\ pvt'.owner = pvt'.real /\ pvt'.callwait = Nobody /\ pvt'.gsmcall = pvt.gsmcall
          /\ pvt'.real = IF pvt.real = c THEN Nobody ELSE pvt.real
      BY <3>1, <1>0, <1>i, LeftPvt
    <3>3. OwnerInv(c)'
      BY <2>1, <3>1, <3>2, <1>i, <1>0 DEF OwnerInv, Leaving
    <3>4. ASSUME NEW d \in Chans \ {c} PROVE OwnerInv(d)'
      <4>1. /\ pc'[d] = pc[d] /\ doing'[d] = doing[d] /\ astate'[d] = astate[d]
            /\ dialed'[d] = dialed[d] /\ (d \in attached' <=> d \in attached)
        BY OthersSame
      <4>2. pvt'.owner = d <=> pvt.owner = d
        BY <3>2, <1>i, Names
      <4>3. pvt.owner = Nobody => pvt'.owner = Nobody
        BY <3>2, <1>i
      <4> QED BY <4>1, <4>2, <4>3, <3>2, <2>1 DEF OneWay, OwnerInv, Leaving
    <3> QED BY <2>1, <3>2, <3>3, <3>4 DEF OneWay
  <2>3. CASE ~HangupEnters(c)
    <3>1. doing[c] # "hangup"
      BY <1>4, <2>3 DEF Enter, Enters, ReadEnters, CallEnters, AnswerEnters, IndicateEnters
    <3>2. /\ pvt'.owner = pvt.owner /\ pvt'.real = pvt.real /\ pvt'.callwait = pvt.callwait
          /\ pvt'.gsmcall = pvt.gsmcall
      BY <1>4, <2>3, <1>0, FlagsOnly DEF Enter, ReadEnters, Need, CallEnters, AnswerEnters,
         IndicateEnters, Flags
    <3> QED BY <2>1, <3>1, <3>2, <1>i, OwnerFrame DEF OwnerInv, Leaving
  <2> QED BY <2>2, <2>3
<1>5. CASE ReadYields(c) \/ ReadAgain(c) \/ GrabFails(c) \/ Regrab(c)
  <2>1. /\ UNCHANGED <<doing, attached, dialed, traffic, pvt, astate>>
        /\ \/ pc[c] = "enter" /\ pc'[c] = "yielded" /\ doing[c] = "read"
           \/ pc[c] = "yielded" /\ pc'[c] = "enter"
           \/ pc[c] = "grab" /\ pc'[c] = "regrab"
           \/ pc[c] = "regrab" /\ pc'[c] = "grab"
    BY <1>5, <1>g DEF ReadYields, ReadAgain, GrabFails, Avoids, Regrab
  <2> QED BY <2>1, <1>i, OwnerFrame DEF OwnerInv, Leaving
<1>6. CASE Grab(c)
  <2>1. /\ pc[c] = "grab" /\ pc'[c] = "leave"
        /\ UNCHANGED <<doing, attached, traffic, ev>>
    BY <1>6, <1>g DEF Grab
  <2>2. CASE CallWorks(c)
    <3>1. PICK k \in Calls : /\ pvt' = [pvt EXCEPT !.gsmcall = k]
                            /\ dialed' = [dialed EXCEPT ![c] = k]
      BY <2>2 DEF CallWorks
    <3>2. doing[c] = "call" /\ astate' = [astate EXCEPT ![c] = "dialing"]
      BY <2>2 DEF CallWorks
    <3>3. pvt'.owner = pvt.owner /\ pvt'.real = pvt.real /\ pvt'.callwait = pvt.callwait
      BY <3>1, <1>0, CallOnly
    <3>4. pvt.owner = c /\ dialed'[c] # NoCall
      BY <2>1, <3>1, <3>2, <1>i, <1>0, Names DEF OwnerInv, Leaving, ChanOK
    <3>5. OwnerInv(c)'
      BY <2>1, <3>2, <3>3, <3>4, <1>i, <1>0 DEF OwnerInv, Leaving, ChanOK
    <3>6. ASSUME NEW d \in Chans \ {c} PROVE OwnerInv(d)'
      <4>1. /\ pc'[d] = pc[d] /\ doing'[d] = doing[d] /\ astate'[d] = astate[d]
            /\ dialed'[d] = dialed[d] /\ (d \in attached' <=> d \in attached)
        BY OthersSame
      <4> QED BY <4>1, <3>3, <3>4, <2>1, <1>0 DEF OneWay, OwnerInv, Leaving
    <3> QED BY <3>3, <3>5, <3>6, <2>1 DEF OneWay
  <2>3. CASE HangupWorks(c) \/ AnswerWorks(c) \/ IndicateWorks(c)
    <3>1. astate' = astate /\ dialed' = dialed
      BY <2>3 DEF HangupWorks, AnswerWorks, IndicateWorks
    <3>2. /\ pvt'.owner = pvt.owner /\ pvt'.real = pvt.real /\ pvt'.callwait = pvt.callwait
          /\ pvt'.gsmcall \in {pvt.gsmcall, NoCall}
      <4>1. CASE HangupWorks(c)
        BY <4>1, <1>0, FlagsOnly, CallOnly DEF HangupWorks, Flags
      <4>2. CASE AnswerWorks(c) \/ IndicateWorks(c)
        BY <4>2, <1>0, FlagsOnly DEF AnswerWorks, IndicateWorks, Tells, Flags
      <4> QED BY <4>1, <4>2, <2>3
    <3> QED BY <2>1, <3>1, <3>2, <1>i, OwnerFrame DEF OwnerInv, Leaving
  <2> QED BY <2>2, <2>3, <1>6 DEF Grab
<1>7. CASE Leave(c)
  <2>1. /\ pc[c] = "leave" /\ UNCHANGED <<dialed, traffic, pvt, astate>>
        /\ \/ doing[c] = "hangup" /\ pc'[c] = "list" /\ attached' = attached \ {c} /\ doing' = doing
           \/ doing[c] # "hangup" /\ pc'[c] = "idle" /\ attached' = attached /\ doing'[c] = "none"
    BY <1>7, <1>0, <1>g DEF Leave, ChanOK
  <2> QED BY <2>1, <1>i, OwnerFrame DEF OwnerInv, Leaving
<1>8. CASE Freed(c)
  <2>1. /\ pc[c] = "list" /\ pc'[c] = "idle" /\ UNCHANGED <<attached, traffic, pvt>>
        /\ astate'[c] = "none" /\ doing'[c] = "none" /\ dialed'[c] = NoCall
    BY <1>8, <1>0, <1>g DEF Freed, ChanOK
  <2> QED BY <2>1, <1>i, OwnerFrame DEF OwnerInv, Leaving
<1> QED BY <1>1, <1>2, <1>3, <1>4, <1>5, <1>6, <1>7, <1>8 DEF Pbx

\* The d-channel thread and the console mostly leave owner and channels alone.
LEMMA OwnerStays ==
    ASSUME OneWay, UNCHANGED <<doing, astate, attached, dialed, traffic>>,
           \A c \in Chans : pc'[c] = pc[c] \/ (pc[c] = "born" /\ pc'[c] = "idle"),
           pvt'.owner = pvt.owner, pvt'.real = pvt.real, pvt'.callwait = pvt.callwait,
           pvt'.gsmcall \in {pvt.gsmcall, NoCall} \/ traffic = "in",
           ev'.kind = "RING" => traffic = "in"
    PROVE  OneWay'
<1>1. ASSUME NEW c \in Chans PROVE OwnerInv(c)'
  <2>1. CASE pvt'.gsmcall \in {pvt.gsmcall, NoCall}
    BY <2>1 DEF OneWay, OwnerInv, Leaving
  <2>2. CASE traffic = "in"
    BY <2>2 DEF OneWay, OwnerInv, Leaving
  <2> QED BY <2>1, <2>2
<1> QED BY <1>1 DEF OneWay

\* Every step of the d-channel thread keeps the owner the one channel there is.
LEMMA DchanOneWay ==
    ASSUME TypeInv, StaleInv, "both" \notin Traffic, OneWay, Dchannel
    PROVE  OneWay'
<1>0. /\ PlaceOK /\ EventOK /\ ChanOK /\ CallOK /\ pvt \in PvtType /\ traffic \in {"in", "out"}
  BY ChannelAssumption DEF TypeInv, CallOK, ChannelAssumption
<1>g. ASSUME NEW label, Goes(Dchan, label) PROVE \A c \in Chans : pc'[c] = pc[c]
  BY <1>g, <1>0, Names DEF Goes, PlaceOK
<1>1. CASE Poll
  <2>1. ev'.kind = "RING" => traffic = "in"
    BY <1>0, <1>1 DEF Poll, Reports, ReportsLink
  <2> QED BY <2>1, <1>1, <1>g, OwnerStays DEF Poll
<1>2. CASE Notes \/ LinkUp \/ FrameUnwanted \/ FrameQueued \/ AllQueued \/ AllEnds
  <2>1. /\ pvt'.owner = pvt.owner /\ pvt'.real = pvt.real /\ pvt'.callwait = pvt.callwait
        /\ pvt'.gsmcall = pvt.gsmcall
    BY <1>2, <1>0, FlagsOnly DEF Notes, LinkUp, FrameUnwanted, FrameQueued, AllQueued, AllEnds, Flags
  <2>2. /\ UNCHANGED <<doing, astate, attached, dialed, traffic>>
        /\ ev' = NoEvent \/ ev' = ev
        /\ \E label : Goes(Dchan, label)
    BY <1>2 DEF Notes, LinkUp, FrameUnwanted, FrameQueued, AllQueued, AllEnds, Done, ChanSame, LibSame
  <2> QED BY <2>1, <2>2, <1>g, OwnerStays DEF NoEvent, OneWay
<1>3. CASE FrameLocks \/ FrameWaits \/ AllLocks \/ AllWaits \/ RingAnonymous \/ RingLooks
           \/ RingChecks \/ RingLooksAgain \/ RingRefused \/ RingUnborn
  <2>1. /\ UNCHANGED <<doing, astate, attached, dialed, traffic, pvt>>
        /\ ev' = NoEvent \/ ev' = ev
        /\ \E label : Goes(Dchan, label)
    BY <1>3 DEF FrameLocks, FrameWaits, AllLocks, AllWaits, RingAnonymous, RingLooks, RingChecks,
       RingLooksAgain, RingRefused, RingUnborn, Avoids, Done, ChanSame, LibSame
  <2> QED BY <2>1, <1>g, OwnerStays DEF NoEvent, OneWay
<1>4. CASE HangsUp \/ LinkDown \/ Restart \/ RingNoExtension \/ RingFails
  <2>1. ASSUME NEW cause \in {"needbusy", "needcongestion", "other"}
        PROVE  Heard(cause) \subseteq Flags
    BY <2>1 DEF Heard, Flags
  <2>2. PICK p \in PvtType : /\ p.owner = pvt.owner /\ p.real = pvt.real
                             /\ p.callwait = pvt.callwait
                             /\ pvt' = [p EXCEPT !.gsmcall = NoCall]
    <3>1. CASE HangsUp
      <4>1. ASSUME NEW cause \in {"needbusy", "needcongestion", "other"}
            PROVE  LET q == Without(With(pvt, Heard(cause)), {"resetting"})
                   IN  /\ q \in PvtType /\ q.owner = pvt.owner /\ q.real = pvt.real
                       /\ q.callwait = pvt.callwait
        <5> DEFINE w == With(pvt, Heard(cause))
        <5>1. w \in PvtType /\ w.owner = pvt.owner /\ w.real = pvt.real /\ w.callwait = pvt.callwait
          BY <2>1, <1>0, FlagsOnly
        <5> HIDE DEF w
        <5>2. /\ Without(w, {"resetting"}) \in PvtType
              /\ Without(w, {"resetting"}).owner = w.owner
              /\ Without(w, {"resetting"}).real = w.real
              /\ Without(w, {"resetting"}).callwait = w.callwait
          BY <5>1, FlagsOnly DEF Flags
        <5> QED BY <5>1, <5>2 DEF w
      <4> QED BY <3>1, <4>1, <1>0 DEF HangsUp
    <3>2. CASE LinkDown
      <4>1. /\ Without(pvt, {"resetting"}) \in PvtType
            /\ Without(pvt, {"resetting"}).owner = pvt.owner
            /\ Without(pvt, {"resetting"}).real = pvt.real
            /\ Without(pvt, {"resetting"}).callwait = pvt.callwait
        BY <1>0, FlagsOnly DEF Flags
      <4> QED BY <3>2, <4>1 DEF LinkDown
    <3>3. CASE Restart \/ RingNoExtension \/ RingFails
      BY <3>3, <1>0 DEF Restart, RingNoExtension, RingFails
    <3> QED BY <3>1, <3>2, <3>3, <1>4
  <2>3. /\ pvt'.owner = pvt.owner /\ pvt'.real = pvt.real /\ pvt'.callwait = pvt.callwait
        /\ pvt'.gsmcall = NoCall
    BY <2>2, Forgotten
  <2>4. /\ UNCHANGED <<doing, astate, attached, dialed, traffic>>
        /\ ev' = NoEvent \/ ev' = ev
        /\ \E label : Goes(Dchan, label)
    BY <1>4 DEF HangsUp, LinkDown, Restart, RingNoExtension, RingFails, Done, ChanSame
  <2> QED BY <2>3, <2>4, <1>g, OwnerStays DEF NoEvent, OneWay
<1>5. CASE RingTakes
  <2>1. /\ UNCHANGED <<doing, astate, attached, dialed, traffic, ev>>
        /\ \E label : Goes(Dchan, label)
    BY <1>5 DEF RingTakes, ChanSame, LibSame
  <2>2. pvt'.owner = pvt.owner /\ pvt'.real = pvt.real /\ pvt'.callwait = pvt.callwait
    BY <1>5, <1>0, FlagsOnly, CallOnly DEF RingTakes, Flags, EventOK
  <2>3. traffic = "in"
    BY <1>5 DEF RingTakes, At, StaleInv, RingPlaces, OneWay
  <2> QED BY <2>1, <2>2, <2>3, <1>g, OwnerStays
<1>6. CASE RingNew
  <2>1. PICK c \in Chans :
           /\ pc[c] = "idle" /\ astate[c] = "none"
           /\ pvt' = Attach(pvt, c, "real")
           /\ astate' = [astate EXCEPT ![c] = "ring"]
           /\ attached' = attached \cup {c}
           /\ dialed' = [dialed EXCEPT ![c] = ev.call]
           /\ pc' = [pc EXCEPT ![c] = "born", ![Dchan] = "ring_start"]
    BY <1>6 DEF RingNew
  <2>2. pvt.real = Nobody /\ UNCHANGED <<doing, traffic, ev>> /\ traffic = "in"
    BY <1>6 DEF RingNew, At, StaleInv, RingPlaces, OneWay
  <2>3. /\ pvt'.owner = c /\ pvt'.real = c /\ pvt'.callwait = Nobody
    BY <2>1, <2>2, <1>0, AttachPvt DEF OneWay
  <2>4. pc'[c] = "born" /\ astate'[c] = "ring" /\ \A d \in Chans \ {c} : pc'[d] = pc[d] /\ astate'[d] = astate[d]
    BY <2>1, <1>0, Names DEF PlaceOK, ChanOK
  <2>5. OwnerInv(c)'
    BY <2>1, <2>2, <2>3, <2>4 DEF OwnerInv, Leaving
  <2>6. ASSUME NEW d \in Chans \ {c} PROVE OwnerInv(d)'
    <3>1. ~(d \in attached /\ ~Leaving(d)) /\ d # c
      BY <2>2, Names DEF OneWay, OwnerInv
    <3>2. ~(doing[d] = "call" /\ pc[d] \in {"enter", "yielded", "grab", "regrab"}) /\ pc[d] # "granted"
      BY <2>2 DEF OneWay, OwnerInv
    <3>3. /\ pc'[d] = pc[d] /\ doing'[d] = doing[d] /\ astate'[d] = astate[d]
          /\ (d \in attached' <=> d \in attached) /\ traffic' = "in" /\ pvt'.owner # d
      BY <3>1, <2>1, <2>2, <2>3, <2>4
    <3>4. ~(d \in attached' /\ ~Leaving(d)') /\ pc'[d] # "granted"
          /\ ~(doing'[d] = "call" /\ pc'[d] \in {"enter", "yielded", "grab", "regrab"})
      BY <3>1, <3>2, <3>3 DEF Leaving
    <3>5. OwnerInv(d)
      BY DEF OneWay
    <3> QED BY <3>3, <3>4, <3>5, <2>2 DEF OwnerInv
  <2> QED BY <2>2, <2>3, <2>5, <2>6 DEF OneWay
<1>7. CASE RingStarts
  <2>1. /\ UNCHANGED <<doing, astate, attached, dialed, traffic, pvt>> /\ ev' = NoEvent
        /\ \A c \in Chans : pc'[c] = pc[c] \/ (pc[c] = "born" /\ pc'[c] = "idle")
    BY <1>7, Names DEF RingStarts, ChanSame, LibSame
  <2> QED BY <2>1, OwnerStays DEF NoEvent
<1>8. CASE DialTimer
  BY <1>8, OwnerStays DEF DialTimer, ChanSame, OneWay
<1> QED BY <1>1, <1>2, <1>3, <1>4, <1>5, <1>6, <1>7, <1>8 DEF Dchannel

\* The console's commands leave the owner alone.
LEMMA ConsoleOneWay ==
    ASSUME TypeInv, OneWay, Console
    PROVE  OneWay'
<1>0. pvt \in PvtType
  BY DEF TypeInv
<1>1. CASE PowerDown
  <2>1. /\ pvt'.owner = pvt.owner /\ pvt'.real = pvt.real /\ pvt'.callwait = pvt.callwait
        /\ pvt'.gsmcall \in {pvt.gsmcall, NoCall}
    <3>1. /\ Without(pvt, {"resetting"}) \in PvtType
          /\ Without(pvt, {"resetting"}).owner = pvt.owner
          /\ Without(pvt, {"resetting"}).real = pvt.real
          /\ Without(pvt, {"resetting"}).callwait = pvt.callwait
      BY <1>0, FlagsOnly DEF Flags
    <3> QED BY <3>1, <1>1, Forgotten DEF PowerDown
  <2> QED BY <1>1, <2>1, OwnerStays DEF PowerDown, OneWay
<1>2. CASE PowerStat
  BY <1>2, OwnerStays DEF PowerStat, ChanSame, LibSame, OneWay
<1> QED BY <1>1, <1>2 DEF Console, PowerOff, PowerReset

\* Both invariants hold in every state.
LEMMA OneWayHolds == ASSUME "both" \notin Traffic PROVE Spec => [](StaleInv /\ OneWay)
<1>1. Init => StaleInv /\ OneWay
  BY Names DEF Init, StaleInv, RingPlaces, Untaken, NoStaleCall, NoEvent, OneWay, OwnerInv, Leaving
<1>2. TypeInv /\ LockAccount /\ StaleInv /\ OneWay /\ [Next]_vars => StaleInv' /\ OneWay'
  <2> SUFFICES ASSUME TypeInv, LockAccount, StaleInv, OneWay, [Next]_vars
               PROVE  StaleInv' /\ OneWay'
    OBVIOUS
  <2>1. ASSUME NEW c \in Chans, Pbx(c) PROVE StaleInv' /\ OneWay'
    BY <2>1, PbxStale, PbxOneWay DEF OneWay, OwnerInv
  <2>2. CASE UNCHANGED vars
    BY <2>2, StaleSame, OwnerStays DEF vars, OneWay
  <2> QED BY <2>1, <2>2, DchanStale, DchanOneWay, ConsoleStale, ConsoleOneWay DEF Next
<1> QED BY <1>1, <1>2, Accounting, PTL DEF Spec

\* With one kind of traffic at a time gsmcall outlives the library's record only
\* where the driver has hung up itself or the HANGUP is on its way.
THEOREM RecordsAlive == ASSUME "both" \notin Traffic PROVE Spec => []NoStaleCall
<1>1. StaleInv => NoStaleCall
  BY DEF StaleInv
<1> QED BY <1>1, OneWayHolds, PTL

\* With one kind of traffic at a time no owner points to a freed channel.
THEOREM OwnerAlive == ASSUME "both" \notin Traffic PROVE Spec => []OwnerIsLive
<1>1. TypeInv /\ OneWay => OwnerIsLive
  BY Names DEF TypeInv, PvtType, OneWay, OwnerInv, OwnerIsLive
<1> QED BY <1>1, Accounting, OneWayHolds, PTL
------------------------------------------------------------------------------
(* No live call is forgotten.                                              *)
Over == {"none", "gone"}

\* What an event says of the other calls; incoming calls come one at a time.
OneCall ==
    /\ ev.kind = "RING" => \A k \in Calls \ {ev.call} : lib[k] \in Over
    /\ ev.kind = "HANGUP" => ev.call \in Calls /\ lib[ev.call] = "gone"
    /\ traffic = "in" => \A j, k \in Calls : lib[j] \notin Over /\ lib[k] \notin Over => j = k
    /\ traffic = "in" /\ ev.kind = "HANGUP" => \A k \in Calls : lib[k] \in Over

\* What a step that is no report does to the records: none comes up, but by a
\* call of a channel, and none that is gone comes back.
RecordsEnd ==
    /\ \A k \in Calls : lib[k] = "gone" => lib'[k] = "gone"
    /\ traffic = "in" => \A k \in Calls : lib[k] \in Over => lib'[k] \in Over

LEMMA OneCallStays ==
    ASSUME OneWay, OneCall, CallOK, CallOK', RecordsEnd, traffic' = traffic, ev' = ev \/ ev' = NoEvent
    PROVE  OneCall'
BY DEF OneCall, RecordsEnd, NoEvent, OneWay, Over, CallOK

\* Hanging up and destroying end records.
LEMMA EndsRecords ==
    ASSUME CallOK, NEW k \in Calls \cup {NoCall},
           lib' = lib \/ lib' \in LibHungUp(k) \/ lib' = LibDestroyed(k)
    PROVE  RecordsEnd
<1>1. \A j \in Calls : lib'[j] = lib[j] \/ lib'[j] = "gone" \/ (lib[j] \in Live /\ lib'[j] \notin Live)
  <2>1. CASE lib' \in LibHungUp(k)
    BY <2>1, LibMoves DEF Live
  <2>2. CASE lib' = LibDestroyed(k)
    BY <2>2, LibMoves
  <2> QED BY <2>1, <2>2
<1> QED BY <1>1 DEF RecordsEnd, Over, Live

\* A channel calls only on a span that has no call.
LEMMA CallsFree ==
    ASSUME TypeInv, OneWay, NEW c \in Chans, Grab(c), CallWorks(c)
    PROVE  pvt.gsmcall = NoCall /\ traffic = "out"
BY DEF Grab, CallWorks, OneWay, OwnerInv, Leaving

\* Every step of a channel's thread only ends records, and gsmcall lets a call
\* go only with its record.
LEMMA PbxKeeps ==
    ASSUME TypeInv, OneWay, OneCall, NEW c \in Chans, Pbx(c)
    PROVE  /\ RecordsEnd /\ ev' = ev /\ traffic' = traffic
           /\ \A k \in Calls : pvt.gsmcall = k /\ pvt'.gsmcall # k => lib'[k] \notin Live
<1>0. /\ CallOK /\ pvt \in PvtType /\ pvt.gsmcall \in Calls \cup {NoCall} /\ NoCall \notin Calls
  BY Names DEF TypeInv, PvtType
<1>1. ev' = ev /\ traffic' = traffic
  BY DEF Pbx, Request, Granted, Start, Enter, ReadYields, ReadAgain, GrabFails, Regrab, Grab, Leave, Freed
<1>2. CASE Granted(c)
  <2>1. pvt'.gsmcall = pvt.gsmcall /\ lib' = lib
    BY <1>2, <1>0, FlagsOnly, AttachPvt DEF Granted, Flags
  <2> QED BY <2>1, <1>1 DEF RecordsEnd
<1>3. CASE Enter(c)
  <2>1. pvt'.gsmcall = pvt.gsmcall
    BY <1>3, <1>0, FlagsOnly, LeftType DEF Enter, ReadEnters, Need, CallEnters, AnswerEnters,
       IndicateEnters, HangupEnters, Flags
  <2> QED BY <2>1, <1>1, <1>3 DEF Enter, RecordsEnd
<1>4. CASE Grab(c) /\ CallWorks(c)
  <2>1. pvt.gsmcall = NoCall /\ traffic = "out"
    BY <1>4, CallsFree
  <2> QED BY <2>1, <1>1, <1>4, <1>0 DEF CallWorks, RecordsEnd, CallOK
<1>5. CASE Grab(c) /\ HangupWorks(c)
  <2>1. lib' \in LibHungUp(pvt.gsmcall)
    BY <1>5 DEF HangupWorks
  <2>2. pvt.gsmcall \in Calls => lib'[pvt.gsmcall] \notin Live
    BY <2>1, <1>0, LibMoves DEF Live
  <2> QED BY <2>1, <2>2, <1>1, <1>0, EndsRecords
<1>6. CASE Grab(c) /\ AnswerWorks(c)
  <2>1. pvt'.gsmcall = pvt.gsmcall
    BY <1>6, <1>0, FlagsOnly DEF AnswerWorks, Flags
  <2> QED BY <2>1, <1>1, <1>6, <1>0 DEF AnswerWorks, RecordsEnd, CallOK, Over
<1>7. CASE Grab(c) /\ IndicateWorks(c)
  <2>1. pvt'.gsmcall = pvt.gsmcall
    BY <1>7, <1>0, FlagsOnly DEF IndicateWorks, Tells, Flags
  <2> QED BY <2>1, <1>1, <1>7 DEF IndicateWorks, RecordsEnd
<1>8. CASE Request(c) \/ (\E o \in Ops : Start(c, o)) \/ ReadYields(c) \/ ReadAgain(c)
           \/ GrabFails(c) \/ Regrab(c) \/ Leave(c) \/ Freed(c)
  <2>1. pvt' = pvt /\ lib' = lib
    BY <1>8 DEF Request, Start, ReadYields, ReadAgain, GrabFails, Regrab, Leave, Freed
  <2> QED BY <2>1, <1>1 DEF RecordsEnd
<1> QED BY <1>2, <1>3, <1>4, <1>5, <1>6, <1>7, <1>8 DEF Pbx, Grab

\* A report keeps incoming calls one at a time.
LEMMA PollOneCall ==
    ASSUME TypeInv, StaleInv, OneWay, OneCall, "both" \notin Traffic, Poll
    PROVE  OneCall' /\ pvt' = pvt
<1>0. CallOK /\ traffic' = traffic /\ pvt' = pvt /\ traffic \in {"in", "out"}
  BY ChannelAssumption DEF TypeInv, Poll, CallOK, ChannelAssumption
<1>1. PICK kind \in EventKinds :
         \/ \E k \in Calls : Reports(kind, k) /\ ev' = [kind |-> kind, call |-> k]
         \/ ReportsLink(kind) /\ ev' = [kind |-> kind, call |-> NoCall]
  BY DEF Poll
<1>2. CASE ReportsLink(kind) /\ ev' = [kind |-> kind, call |-> NoCall]
  <2>1. kind \notin {"RING", "HANGUP"} /\ lib' = lib
    BY <1>2 DEF ReportsLink
  <2> QED BY <2>1, <1>0, <1>2 DEF OneCall
<1>3. ASSUME NEW k \in Calls, Reports(kind, k), ev' = [kind |-> kind, call |-> k]
      PROVE  OneCall'
  <2>1. CASE kind = "RING"
    <3>1. /\ lib[k] = "none" /\ \A j \in Calls : lib[j] \in Over
          /\ lib' = [lib EXCEPT ![k] = "in"]
      BY <1>3, <2>1 DEF Reports, Over
    <3>2. \A j \in Calls \ {k} : lib'[j] \in Over
      BY <3>1, <1>0 DEF CallOK
    <3> QED BY <3>2, <1>3, <2>1 DEF OneCall
  <2>2. CASE kind = "HANGUP"
    <3>1. lib[k] \notin Over /\ lib' = [lib EXCEPT ![k] = "gone"]
      BY <1>3, <2>2 DEF Reports, Over, Live
    <3>2. lib'[k] = "gone" /\ \A j \in Calls \ {k} : lib'[j] = lib[j]
      BY <3>1, <1>0 DEF CallOK
    <3>3. traffic = "in" => \A j \in Calls : lib'[j] \in Over
      BY <3>1, <3>2 DEF OneCall, Over
    <3> QED BY <3>2, <3>3, <1>0, <1>3, <2>2 DEF OneCall
  <2>3. CASE kind \notin {"RING", "HANGUP"}
    <3>1. lib' = lib \/ (lib[k] = "out" /\ lib' = [lib EXCEPT ![k] = "up"])
      BY <1>3, <2>3 DEF Reports
    <3>2. \A j \in Calls : lib'[j] \in Over <=> lib[j] \in Over
      BY <3>1, <1>0 DEF CallOK, Over
    <3> QED BY <3>2, <1>0, <1>3, <2>3 DEF OneCall
  <2> QED BY <2>1, <2>2, <2>3
<1> QED BY <1>0, <1>1, <1>2, <1>3

\* The d-channel thread ends records too, and lets a live call go only by the
\* late HANGUP of another.
LEMMA DchanKeeps ==
    ASSUME TypeInv, StaleInv, OneWay, OneCall, "both" \notin Traffic, Dchannel, ~Poll
    PROVE  /\ RecordsEnd /\ (ev' = ev \/ ev' = NoEvent) /\ traffic' = traffic
           /\ \A k \in Calls : pvt.gsmcall = k /\ pvt'.gsmcall # k /\ lib'[k] \in Live
                 => traffic = "out" /\ ev.kind = "HANGUP" /\ ev.call # k
<1>0. /\ CallOK /\ pvt \in PvtType /\ pvt.gsmcall \in Calls \cup {NoCall} /\ NoCall \notin Calls
      /\ traffic \in {"in", "out"} /\ ev.call \in Calls \cup {NoCall}
  BY Names, ChannelAssumption DEF TypeInv, PvtType, EventOK, CallOK, ChannelAssumption
<1>1. (ev' = ev \/ ev' = NoEvent) /\ traffic' = traffic
  BY DEF Dchannel, Notes, LinkUp, HangsUp, FrameUnwanted, FrameLocks, FrameQueued, FrameWaits,
     LinkDown, Restart, AllLocks, AllQueued, AllWaits, AllEnds, DialTimer, RingAnonymous, RingLooks,
     RingChecks, RingLooksAgain, RingRefused, RingNoExtension, RingTakes, RingNew, RingUnborn, RingStarts, RingFails, Done, ChanSame
<1>2. CASE Notes \/ LinkUp \/ FrameUnwanted \/ FrameQueued \/ AllQueued \/ AllEnds
  <2>1. pvt'.gsmcall = pvt.gsmcall /\ lib' = lib
    BY <1>2, <1>0, FlagsOnly
       DEF Notes, LinkUp, FrameUnwanted, FrameQueued, AllQueued, AllEnds, LibSame, Flags
  <2> QED BY <2>1, <1>1 DEF RecordsEnd
<1>3. CASE FrameLocks \/ FrameWaits \/ AllLocks \/ AllWaits \/ RingLooks \/ RingChecks
           \/ RingLooksAgain \/ RingUnborn \/ RingStarts
  <2>1. pvt' = pvt /\ lib' = lib
    BY <1>3 DEF FrameLocks, FrameWaits, AllLocks, AllWaits, RingLooks, RingChecks, RingLooksAgain,
       RingUnborn, RingStarts, LibSame
  <2> QED BY <2>1, <1>1 DEF RecordsEnd
<1>4. CASE RingNew
  <2>1. pvt'.gsmcall = pvt.gsmcall /\ lib' = lib
    BY <1>4, <1>0, AttachPvt DEF RingNew
  <2> QED BY <2>1, <1>1 DEF RecordsEnd
<1>5. CASE HangsUp
  <2>1. ev.kind = "HANGUP" /\ ev.call \in Calls /\ lib[ev.call] = "gone"
    BY <1>5 DEF HangsUp, Handling, OneCall
  <2>2. lib' = lib \/ lib' \in LibHungUp(pvt.gsmcall)
    BY <1>5 DEF HangsUp
  <2>3. RecordsEnd
    BY <2>2, <1>0, EndsRecords
  <2>4. lib'[ev.call] = "gone"
    BY <2>1, <2>3 DEF RecordsEnd
  <2>5. traffic = "in" => \A k \in Calls : lib'[k] \in Over
    BY <2>1, <2>3 DEF RecordsEnd, OneCall
  <2> QED BY <2>1, <2>3, <2>4, <2>5, <1>0, <1>1 DEF Live, Over
<1>6. CASE LinkDown \/ Restart
  <2>1. lib' = LibDestroyed(pvt.gsmcall)
    BY <1>6 DEF LinkDown, Restart
  <2>2. pvt.gsmcall \in Calls => lib'[pvt.gsmcall] \notin Live
    BY <2>1, <1>0, LibMoves DEF Live
  <2> QED BY <2>1, <2>2, <1>0, <1>1, EndsRecords
<1>7. CASE RingAnonymous \/ RingRefused
  <2>1. lib' \in LibHungUp(ev.call) /\ pvt' = pvt
    BY <1>7 DEF RingAnonymous, RingRefused
  <2> QED BY <2>1, <1>0, <1>1, EndsRecords
<1>8. CASE RingNoExtension \/ RingFails
  <2>1. lib' \in LibHungUp(ev.call)
    BY <1>8 DEF RingNoExtension, RingFails
  <2>2. ev.kind = "RING" /\ ev.call \in Calls /\ traffic = "in"
    BY <1>8 DEF RingNoExtension, RingFails, At, StaleInv, RingPlaces, OneWay
  <2>3. lib'[ev.call] \notin Live
    BY <2>1, <2>2, <1>0, LibMoves DEF Live
  <2>4. RecordsEnd
    BY <2>1, <1>0, EndsRecords
  <2>5. \A k \in Calls \ {ev.call} : lib'[k] \in Over
    BY <2>2, <2>4 DEF RecordsEnd, OneCall
  <2> QED BY <2>3, <2>4, <2>5, <1>0, <1>1 DEF Live, Over
<1>9. CASE RingTakes
  <2>1. lib' = lib
    BY <1>9 DEF RingTakes, LibSame
  <2>2. ev.kind = "RING" /\ ev.call \in Calls
    BY <1>9 DEF RingTakes, At, StaleInv, RingPlaces
  <2>3. pvt'.gsmcall = ev.call
    BY <1>9, <1>0, FlagsOnly, CallOnly DEF RingTakes, Flags
  <2>4. \A k \in Calls \ {ev.call} : lib[k] \in Over
    BY <2>2 DEF OneCall
  <2> QED BY <2>1, <2>2, <2>3, <2>4, <1>1 DEF RecordsEnd, Live, Over
<1>10. CASE DialTimer
  <2>1. pvt' = pvt /\ \A k \in Calls : lib'[k] = lib[k] \/ (lib[k] = "kept" /\ lib'[k] = "ending")
    BY <1>10, <1>0 DEF DialTimer, CallOK
  <2> QED BY <2>1, <1>1 DEF RecordsEnd, Over
<1> QED BY <1>2, <1>3, <1>4, <1>5, <1>6, <1>7, <1>8, <1>9, <1>10 DEF Dchannel

\* So does the console.
LEMMA ConsoleKeeps ==
    ASSUME TypeInv, Console
    PROVE  /\ RecordsEnd /\ ev' = ev /\ traffic' = traffic
           /\ \A k \in Calls : pvt.gsmcall = k /\ pvt'.gsmcall # k => lib'[k] \notin Live
<1>0. /\ CallOK /\ pvt \in PvtType /\ pvt.gsmcall \in Calls \cup {NoCall}
  BY DEF TypeInv, PvtType
<1>1. CASE UNCHANGED <<pvt, lib, ev, traffic>>
  BY <1>1 DEF RecordsEnd
<1>2. CASE PowerDown /\ ~UNCHANGED <<pvt, lib>>
  <2>1. lib' = LibDestroyed(pvt.gsmcall) /\ ev' = ev /\ traffic' = traffic
    BY <1>2 DEF PowerDown
  <2>2. pvt.gsmcall \in Calls => lib'[pvt.gsmcall] \notin Live
    BY <2>1, <1>0, LibMoves DEF Live
  <2> QED BY <2>1, <2>2, <1>0, EndsRecords
<1> QED BY <1>1, <1>2 DEF Console, PowerOff, PowerReset, PowerDown, PowerStat, ChanSame, LibSame

\* With one kind of traffic at a time no step forgets a live call, but for the
\* late HANGUP of an outgoing one.
THEOREM LiveCallKept == ASSUME "both" \notin Traffic PROVE Spec => CallKept
<1> DEFINE Keeps == \A k \in Calls :
              pvt.gsmcall = k /\ pvt'.gsmcall # k /\ lib'[k] \in Live
                 => traffic = "out" /\ ev.kind = "HANGUP" /\ ev.call # k
<1>1. Init => OneCall
  BY DEF Init, OneCall, NoEvent, Over
<1>2. TypeInv /\ TypeInv' /\ StaleInv /\ OneWay /\ OneCall /\ [Next]_vars => OneCall' /\ [Keeps]_vars
  <2> SUFFICES ASSUME TypeInv, TypeInv', StaleInv, OneWay, OneCall, [Next]_vars
               PROVE  OneCall' /\ [Keeps]_vars
    OBVIOUS
  <2>0. CallOK /\ CallOK'
    BY DEF TypeInv
  <2>1. ASSUME NEW c \in Chans, Pbx(c) PROVE OneCall' /\ Keeps
    BY <2>0, <2>1, PbxKeeps, OneCallStays
  <2>2. CASE Poll
    BY <2>2, PollOneCall
  <2>3. CASE Dchannel /\ ~Poll
    BY <2>0, <2>3, DchanKeeps, OneCallStays
  <2>4. CASE Console
    BY <2>0, <2>4, ConsoleKeeps, OneCallStays
  <2>5. CASE UNCHANGED vars
    BY <2>5 DEF vars, OneCall
  <2> QED BY <2>1, <2>2, <2>3, <2>4, <2>5 DEF Next
<1>3. Spec => [][Keeps]_vars
  <2> HIDE DEF Keeps
  <2> QED BY <1>1, <1>2, Accounting, OneWayHolds, PTL DEF Spec
<1> QED BY <1>3 DEF CallKept
=============================================================================
