------------------------------ MODULE AeFile ------------------------------
(***************************************************************************)
(* The file events of ae.c: the events[] table indexed by fd with its      *)
(* mask and read and write procs, maxfd and setsize, and the dispatch of   *)
(* the events one aeApiPoll reported. Between polls the server registers   *)
(* and removes events and may resize the table; during the dispatch every  *)
(* handler may itself register or remove events on any fd (a client is    *)
(* freed, a connection accepted, a reply handler installed).               *)
(***************************************************************************)
EXTENDS Integers, Sequences, SequencesExt, Bitwise

CONSTANTS
  MaxSetSize,  \* fds are 0..MaxSetSize-1
  Procs,       \* the handler functions (rfileProc / wfileProc values)
  NoProc       \* the proc of a slot never set

ASSUME NoProc \notin Procs

AE_NONE == 0
AE_READABLE == 1
AE_WRITABLE == 2
AE_BARRIER == 4
AllBits == 7

Fds == 0..(MaxSetSize - 1)

VARIABLES
  events,      \* eventLoop->events[fd]: [mask, rfileProc, wfileProc]
  setsize,     \* eventLoop->setsize
  maxfd,       \* eventLoop->maxfd
  registered,  \* history: the [fd, bit] a successful aeCreateFileEvent added
               \*          and no aeDeleteFileEvent has since removed
  pc,          \* "idle" between polls, "dispatch" while handlers run
  fired,       \* eventLoop->fired[0..numevents-1]: <<[fd, mask], ...>>
  j,           \* aeProcessEvents: j, the fired event being dispatched
  stage,       \* "read1", "write", "read2": the next call site for fired[j]
  nfired,      \* aeProcessEvents: fired, the calls made for fired[j]
  invert,      \* aeProcessEvents: invert
  calls,       \* history: the kinds ("R", "W") of the procs called for fired[j]
  barrier0,    \* history: fired[j]'s fd had AE_BARRIER when its dispatch began
  staleCall    \* history: a proc ran for an event not registered at the time

vars == <<events, setsize, maxfd, registered, pc, fired, j, stage, nfired, invert,
          calls, barrier0, staleCall>>

Masks == 0..AllBits

TypeOK ==
  /\ events \in [Fds -> [mask : Masks, rfileProc : Procs \cup {NoProc},
                         wfileProc : Procs \cup {NoProc}]]
  /\ setsize \in 1..MaxSetSize
  /\ maxfd \in -1..(setsize - 1)
  /\ registered \subseteq [fd : Fds, bit : {AE_READABLE, AE_WRITABLE}]
  /\ pc \in {"idle", "dispatch"}
  /\ fired \in Seq([fd : Fds, mask : Masks])
  /\ stage \in {"read1", "write", "read2"}
  /\ nfired \in 0..2

\* aeCreateEventLoop(setsize): every mask AE_NONE.
Init ==
  /\ events = [fd \in Fds |-> [mask |-> AE_NONE, rfileProc |-> NoProc, wfileProc |-> NoProc]]
  /\ setsize \in 1..MaxSetSize
  /\ maxfd = -1
  /\ registered = {}
  /\ pc = "idle" /\ fired = <<>> /\ j = 1 /\ stage = "read1" /\ nfired = 0
  /\ invert = FALSE /\ calls = <<>> /\ barrier0 = FALSE /\ staleCall = FALSE

\* Mutant: the downward scan stops before fd 0.
HighestFromAboveZero(ev, fd) ==
  IF \E i \in 1..fd : ev[i].mask # AE_NONE
  THEN CHOOSE i \in 1..fd : ev[i].mask # AE_NONE /\ \A k \in (i + 1)..fd : ev[k].mask = AE_NONE
  ELSE 0

\* for (j = maxfd-1; j >= 0; j--) if (events[j].mask != AE_NONE) break;
HighestFrom(ev, fd) ==
  IF \E i \in 0..fd : ev[i].mask # AE_NONE
  THEN CHOOSE i \in 0..fd : ev[i].mask # AE_NONE /\ \A k \in (i + 1)..fd : ev[k].mask = AE_NONE
  ELSE -1

\* Mutant: the new mask replaces the registered one (= for |=).
CreateFileEventOverwrite(ev, mfd, fd, mask, proc, ok) ==
  IF fd >= setsize \/ ~ok THEN [ev |-> ev, maxfd |-> mfd]
  ELSE [ev |-> [ev EXCEPT ![fd].mask = mask,
                          ![fd].rfileProc = IF (mask & AE_READABLE) # 0 THEN proc ELSE @,
                          ![fd].wfileProc = IF (mask & AE_WRITABLE) # 0 THEN proc ELSE @],
        maxfd |-> IF fd > mfd THEN fd ELSE mfd]

\* aeCreateFileEvent(fd, mask, proc) with the aeApiAddEvent result ok:
\* [ev, maxfd] after the call.
CreateFileEvent(ev, mfd, fd, mask, proc, ok) ==
  IF fd >= setsize \/ ~ok THEN [ev |-> ev, maxfd |-> mfd]
  ELSE [ev |-> [ev EXCEPT ![fd].mask = @ | mask,
                          ![fd].rfileProc = IF (mask & AE_READABLE) # 0 THEN proc ELSE @,
                          ![fd].wfileProc = IF (mask & AE_WRITABLE) # 0 THEN proc ELSE @],
        maxfd |-> IF fd > mfd THEN fd ELSE mfd]

\* aeDeleteFileEvent(fd, mask): removing AE_WRITABLE removes AE_BARRIER.
DeleteFileEvent(ev, mfd, fd, mask) ==
  IF fd >= setsize \/ ev[fd].mask = AE_NONE THEN [ev |-> ev, maxfd |-> mfd]
  ELSE LET m   == IF (mask & AE_WRITABLE) # 0 THEN mask | AE_BARRIER ELSE mask
           ev1 == [ev EXCEPT ![fd].mask = @ & (AllBits - m)]
       IN [ev |-> ev1,
           maxfd |-> IF fd = mfd /\ ev1[fd].mask = AE_NONE
                     THEN HighestFrom(ev1, mfd - 1) ELSE mfd]

\* The registrations after aeCreateFileEvent (when it succeeds) or
\* aeDeleteFileEvent of mask on fd.
Bits(mask) == {b \in {AE_READABLE, AE_WRITABLE} : (mask & b) # 0}
AddReg(reg, fd, mask) == reg \cup {[fd |-> fd, bit |-> b] : b \in Bits(mask)}
DelReg(reg, fd, mask) == reg \ {[fd |-> fd, bit |-> b] : b \in Bits(mask)}

\* A handler's calls on the loop: none, aeCreateFileEvent or aeDeleteFileEvent
\* on any fd.
Effects ==
  {[op |-> "none"]}
    \cup {[op |-> "create", fd |-> fd, mask |-> m, proc |-> p] :
           fd \in Fds, m \in {AE_READABLE, AE_WRITABLE, AE_WRITABLE | AE_BARRIER}, p \in Procs}
    \cup {[op |-> "delete", fd |-> fd, mask |-> m] :
           fd \in Fds, m \in {AE_READABLE, AE_WRITABLE, AE_READABLE | AE_WRITABLE}}

\* The events, maxfd and registrations after the call e.
Apply(e) ==
  IF e.op = "create"
  THEN LET r == CreateFileEvent(events, maxfd, e.fd, e.mask, e.proc, TRUE)
       IN [ev |-> r.ev, maxfd |-> r.maxfd,
           reg |-> IF e.fd < setsize THEN AddReg(registered, e.fd, e.mask) ELSE registered]
  ELSE IF e.op = "delete"
  THEN LET r == DeleteFileEvent(events, maxfd, e.fd, e.mask)
       IN [ev |-> r.ev, maxfd |-> r.maxfd, reg |-> DelReg(registered, e.fd, e.mask)]
  ELSE [ev |-> events, maxfd |-> maxfd, reg |-> registered]

\* Between polls: aeCreateFileEvent, where aeApiAddEvent may fail (ok).
Create(fd, mask, proc, ok) ==
  /\ pc = "idle"
  /\ LET r == CreateFileEvent(events, maxfd, fd, mask, proc, ok)
     IN events' = r.ev /\ maxfd' = r.maxfd
  /\ registered' = IF fd < setsize /\ ok THEN AddReg(registered, fd, mask) ELSE registered
  /\ UNCHANGED <<setsize, pc, fired, j, stage, nfired, invert, calls, barrier0, staleCall>>

\* Between polls: aeDeleteFileEvent.
Delete(fd, mask) ==
  /\ pc = "idle"
  /\ LET r == DeleteFileEvent(events, maxfd, fd, mask)
     IN events' = r.ev /\ maxfd' = r.maxfd
  /\ registered' = DelReg(registered, fd, mask)
  /\ UNCHANGED <<setsize, pc, fired, j, stage, nfired, invert, calls, barrier0, staleCall>>

\* Mutant: a table may shrink to exactly maxfd slots.
ResizeRefusedAbove(n) == maxfd > n

\* aeResizeSetSize refuses a size that would drop fd maxfd.
ResizeRefused(n) == maxfd >= n

\* aeResizeSetSize(n): new slots above maxfd get AE_NONE.
ResizeSetSize(n) ==
  /\ pc = "idle"
  /\ n # setsize /\ ~ResizeRefused(n)
  /\ setsize' = n
  /\ events' = [fd \in Fds |-> IF fd > maxfd /\ fd < n
                               THEN [events[fd] EXCEPT !.mask = AE_NONE] ELSE events[fd]]
  /\ UNCHANGED <<maxfd, registered, pc, fired, j, stage, nfired, invert, calls, barrier0, staleCall>>

\* aeApiPoll reports readiness on some of the fds with events, in any order;
\* the multiplexer reports errors and hang-ups as AE_WRITABLE, so the mask
\* reported need not be the one registered.
Poll ==
  /\ pc = "idle"
  /\ \E S \in SUBSET {fd \in Fds : (events[fd].mask & (AE_READABLE | AE_WRITABLE)) # 0} \ {{}} :
     \E order \in SetToSeqs(S), m \in [S -> {AE_READABLE, AE_WRITABLE, AE_READABLE | AE_WRITABLE}] :
       fired' = [i \in DOMAIN order |-> [fd |-> order[i], mask |-> m[order[i]]]]
  /\ pc' = "dispatch" /\ j' = 1 /\ stage' = "read1"
  /\ UNCHANGED <<events, setsize, maxfd, registered, nfired, invert, calls, barrier0, staleCall>>

\* Mutant: invert ignores AE_BARRIER.
InvertNever(mask) == FALSE

\* int invert = fe->mask & AE_BARRIER;
Invert(mask) == (mask & AE_BARRIER) # 0

\* Mutant: a proc is called for what the poll reported, whatever fe->mask is now.
FiresIfReported(femask, mask, bit) == (mask & bit) # 0

\* fe->mask & mask & bit: the event fired and is still registered.
Fires(femask, mask, bit) == (femask & mask & bit) # 0

\* !fired || fe->wfileProc != fe->rfileProc
MayFireSecond(fe, n) == n = 0 \/ fe.wfileProc # fe.rfileProc

\* The proc for bit of fd runs and makes the call e on the loop.
CallProc(fd, bit, e) ==
  /\ staleCall' = (staleCall \/ [fd |-> fd, bit |-> bit] \notin registered)
  /\ LET r == Apply(e)
     IN events' = r.ev /\ maxfd' = r.maxfd /\ registered' = r.reg

NoCall == UNCHANGED <<events, maxfd, registered, staleCall>>

\* fired[j]: invert is read, then the readable proc runs unless inverted.
ReadFirst ==
  /\ pc = "dispatch" /\ stage = "read1"
  /\ LET f == fired[j]
         fe == events[f.fd]
         inv == Invert(fe.mask)
     IN /\ invert' = inv
        /\ barrier0' = ((fe.mask & AE_BARRIER) # 0)
        /\ \/ /\ ~inv /\ Fires(fe.mask, f.mask, AE_READABLE)
              /\ \E e \in Effects : CallProc(f.fd, AE_READABLE, e)
              /\ nfired' = 1 /\ calls' = <<"R">>
           \/ /\ ~(~inv /\ Fires(fe.mask, f.mask, AE_READABLE))
              /\ NoCall /\ nfired' = 0 /\ calls' = <<>>
  /\ stage' = "write"
  /\ UNCHANGED <<setsize, pc, fired, j>>

\* The writable proc, unless it is the readable proc and that already ran.
Writable ==
  /\ pc = "dispatch" /\ stage = "write"
  /\ LET f == fired[j]
         fe == events[f.fd]
     IN \/ /\ Fires(fe.mask, f.mask, AE_WRITABLE) /\ MayFireSecond(fe, nfired)
           /\ \E e \in Effects : CallProc(f.fd, AE_WRITABLE, e)
           /\ nfired' = nfired + 1 /\ calls' = Append(calls, "W")
        \/ /\ ~(Fires(fe.mask, f.mask, AE_WRITABLE) /\ MayFireSecond(fe, nfired))
           /\ NoCall /\ UNCHANGED <<nfired, calls>>
  /\ stage' = "read2"
  /\ UNCHANGED <<setsize, pc, fired, j, invert, barrier0>>

\* With invert, the readable proc runs after the writable one; then the
\* loop moves to fired[j+1], or aeProcessEvents goes on to the time events.
ReadAfter ==
  /\ pc = "dispatch" /\ stage = "read2"
  /\ LET f == fired[j]
         fe == events[f.fd]
     IN \/ /\ invert /\ Fires(fe.mask, f.mask, AE_READABLE) /\ MayFireSecond(fe, nfired)
           /\ \E e \in Effects : CallProc(f.fd, AE_READABLE, e)
           /\ nfired' = nfired + 1 /\ calls' = Append(calls, "R")
        \/ /\ ~(invert /\ Fires(fe.mask, f.mask, AE_READABLE) /\ MayFireSecond(fe, nfired))
           /\ NoCall /\ UNCHANGED <<nfired, calls>>
  /\ stage' = "read1"
  /\ IF j < Len(fired) THEN j' = j + 1 /\ UNCHANGED pc
                       ELSE j' = 1 /\ pc' = "idle"
  /\ UNCHANGED <<setsize, fired, invert, barrier0>>

Next ==
  \/ \E fd \in Fds, p \in Procs, ok \in BOOLEAN :
       \E m \in {AE_READABLE, AE_WRITABLE, AE_WRITABLE | AE_BARRIER} : Create(fd, m, p, ok)
  \/ \E fd \in Fds, m \in {AE_READABLE, AE_WRITABLE, AE_READABLE | AE_WRITABLE} : Delete(fd, m)
  \/ \E n \in 1..MaxSetSize : ResizeSetSize(n)
  \/ Poll \/ ReadFirst \/ Writable \/ ReadAfter

Spec == Init /\ [][Next]_vars

-----------------------------------------------------------------------------
\* maxfd is the highest fd with an event, -1 if none: aeCreateFileEvent
\* raises it and aeDeleteFileEvent scans down for the next fd in use when
\* the last event of fd maxfd goes, including when a handler removes it
\* in the middle of a dispatch.
MaxfdIsHighest ==
  /\ maxfd = -1 \/ events[maxfd].mask # AE_NONE
  /\ \A fd \in Fds : fd > maxfd => events[fd].mask = AE_NONE

\* events[] holds exactly the events the callers registered and did not
\* remove, all below setsize: aeResizeSetSize never drops a slot in use,
\* relying on maxfd.
EventsMatchRegistrations ==
  \A fd \in Fds, b \in {AE_READABLE, AE_WRITABLE} :
    [fd |-> fd, bit |-> b] \in registered <=> (fd < setsize /\ (events[fd].mask & b) # 0)

\* With AE_BARRIER set when an fd's dispatch begins, its writable proc is
\* never called after its readable proc for the same poll.
BarrierWritableFirst ==
  barrier0 => \A a, b \in DOMAIN calls : calls[a] = "R" /\ calls[b] = "W" => b < a

\* A proc is never called for an event that an earlier handler of the same
\* dispatch removed, nor for a readiness the fd was not registered for.
NoCallForRemovedEvent == ~staleCall
=============================================================================
