------------------------------ MODULE AeTimer ------------------------------
(***************************************************************************)
(* The time events of ae.c, inside the aeMain loop: each iteration polls   *)
(* (sleeping at most until the nearest timer), runs the file handlers      *)
(* (which may create or delete timers), then processTimeEvents walks the  *)
(* timer list one timer per step. A timer handler may create or delete     *)
(* timers, itself included, and returns AE_NOMORE or the milliseconds to  *)
(* its next run. The wall clock read by time() and gettimeofday() ticks    *)
(* forward and may be set forwards or backwards (clock skew).              *)
(*                                                                         *)
(* Times are [sec, ms] as aeGetTime returns them. MsPerSec stands for the *)
(* 1000 of the code, so that a few values cover the carry of               *)
(* aeAddMillisecondsToNow.                                                 *)
(***************************************************************************)
EXTENDS Integers, Sequences, SequencesExt

CONSTANTS
  MsPerSec,   \* milliseconds per second (1000 in the code)
  MaxSec,     \* the wall clock stays within seconds 0..MaxSec
  Periods,    \* the milliseconds a timer is created with or a handler returns
  MaxTimers,  \* bound on aeCreateTimeEvent calls (timeEventNextId)
  MaxJumps    \* bound on the times the clock is set

ASSUME Periods \subseteq Nat \ {0}

AE_NOMORE == -1
AE_DELETED_EVENT_ID == -1

VARIABLES
  timers,     \* timeEventHead, head first: [id, tid, when_sec, when_ms, deadline, forced]
  nextId,     \* timeEventNextId
  lastTime,   \* eventLoop->lastTime
  clock,      \* gettimeofday(): [sec, ms]; time() is clock.sec
  jumps,      \* times the clock has been set
  pc,         \* the phase of aeProcessEvents: "poll", "files" or "timers"
  pos,        \* processTimeEvents: te, as a position in timers
  maxId,      \* processTimeEvents: maxId
  deleted,    \* history: tids for which aeDeleteTimeEvent returned AE_OK or
              \*          whose handler returned AE_NOMORE
  firedDeleted, \* history: a handler ran for a timer in deleted
  early,      \* history: a handler ran before its timer's deadline although
              \*          no clock skew had forced the timer
  ran         \* history: tid -> a bit that flips each time its handler runs
(* tid is the id a timer was created with (id becomes -1 when deleted);   *)
(* deadline is when_sec/when_ms as last scheduled, and forced says the     *)
(* skew check has since zeroed when_sec. These three fields are ghosts.    *)

vars == <<timers, nextId, lastTime, clock, jumps, pc, pos, maxId,
          deleted, firedDeleted, early, ran>>

Time == [sec : Nat, ms : 0..(MsPerSec - 1)]

TypeOK ==
  /\ timers \in Seq([id : {AE_DELETED_EVENT_ID} \cup 0..(MaxTimers - 1),
                     tid : 0..(MaxTimers - 1),
                     when_sec : Nat, when_ms : 0..(MsPerSec - 1),
                     deadline : Time, forced : BOOLEAN])
  /\ nextId \in 0..MaxTimers
  /\ clock \in [sec : 0..MaxSec, ms : 0..(MsPerSec - 1)]
  /\ pc \in {"poll", "files", "timers"}
  /\ pos \in 1..(Len(timers) + 1)
  /\ deleted \subseteq 0..(MaxTimers - 1)
  /\ ran \in [0..(MaxTimers - 1) -> BOOLEAN]

\* Mutant: when_ms is not brought back below a second.
AddMillisecondsToNowNoCarry(c, milliseconds) ==
  [sec |-> c.sec + milliseconds \div MsPerSec, ms |-> c.ms + (milliseconds % MsPerSec)]

\* aeAddMillisecondsToNow, from the clock c.
AddMillisecondsToNow(c, milliseconds) ==
  LET when_sec == c.sec + milliseconds \div MsPerSec
      when_ms  == c.ms + (milliseconds % MsPerSec)
  IN IF when_ms >= MsPerSec THEN [sec |-> when_sec + 1, ms |-> when_ms - MsPerSec]
     ELSE [sec |-> when_sec, ms |-> when_ms]

\* A time as milliseconds, to compare with (not used by the code).
AsMs(t) == t.sec * MsPerSec + t.ms

\* Mutant: the new timer is linked at the tail.
LinkTimerAtTail(ts, t) == Append(ts, t)

\* aeCreateTimeEvent links the new timer at the head of the list.
LinkTimer(ts, t) == <<t>> \o ts

\* aeCreateTimeEvent: the new timer.
NewTimer(id, c, milliseconds) ==
  LET w == AddMillisecondsToNow(c, milliseconds)
  IN [id |-> id, tid |-> id, when_sec |-> w.sec, when_ms |-> w.ms,
      deadline |-> w, forced |-> FALSE]

\* aeDeleteTimeEvent: the position of the timer with this id, 0 if none.
TimerPos(ts, id) ==
  IF \E i \in DOMAIN ts : ts[i].id = id THEN CHOOSE i \in DOMAIN ts : ts[i].id = id ELSE 0

\* Mutant: a timer already due is treated like no timer: poll blocks.
PollTimeoutBlockIfDue ==
  IF timers = <<>> THEN -1
  ELSE LET shortest == CHOOSE i \in DOMAIN timers :
             \A j \in DOMAIN timers :
               \/ timers[i].when_sec < timers[j].when_sec
               \/ timers[i].when_sec = timers[j].when_sec /\ timers[i].when_ms < timers[j].when_ms
               \/ timers[i].when_sec = timers[j].when_sec /\ timers[i].when_ms = timers[j].when_ms /\ i <= j
           ms == (timers[shortest].when_sec - clock.sec) * MsPerSec
                   + timers[shortest].when_ms - clock.ms
       IN IF ms > 0 THEN ms ELSE -1

\* aeSearchNearestTimer, then the poll timeout in milliseconds (-1: block).
PollTimeout ==
  IF timers = <<>> THEN -1
  ELSE LET shortest == CHOOSE i \in DOMAIN timers :
             \A j \in DOMAIN timers :
               \/ timers[i].when_sec < timers[j].when_sec
               \/ timers[i].when_sec = timers[j].when_sec /\ timers[i].when_ms < timers[j].when_ms
               \/ timers[i].when_sec = timers[j].when_sec /\ timers[i].when_ms = timers[j].when_ms /\ i <= j
           ms == (timers[shortest].when_sec - clock.sec) * MsPerSec
                   + timers[shortest].when_ms - clock.ms
       IN IF ms > 0 THEN ms ELSE 0

\* Mutant: the millisecond part of the due check is left out.
DueSecondsOnly(c, te) == c.sec >= te.when_sec

\* processTimeEvents: the timer is due at clock c.
Due(c, te) == c.sec > te.when_sec \/ (c.sec = te.when_sec /\ c.ms >= te.when_ms)

Init ==
  /\ timers = <<>> /\ nextId = 0
  /\ clock = [sec |-> 0, ms |-> 0] /\ lastTime = 0 /\ jumps = 0
  /\ pc = "poll" /\ pos = 1 /\ maxId = -1
  /\ deleted = {} /\ firedDeleted = FALSE /\ early = FALSE
  /\ ran = [t \in 0..(MaxTimers - 1) |-> FALSE]

\* The clock moves forward by one millisecond.
Tick ==
  /\ pc # "poll"
  /\ LET c == AddMillisecondsToNow(clock, 1)
     IN c.sec <= MaxSec /\ clock' = c
  /\ UNCHANGED <<timers, nextId, lastTime, jumps, pc, pos, maxId, deleted, firedDeleted, early, ran>>

\* The system clock is set, forwards or backwards.
Jump ==
  /\ jumps < MaxJumps
  /\ \E c \in [sec : 0..MaxSec, ms : 0..(MsPerSec - 1)] : c # clock /\ clock' = c
  /\ jumps' = jumps + 1
  /\ UNCHANGED <<timers, nextId, lastTime, pc, pos, maxId, deleted, firedDeleted, early, ran>>

\* aeApiPoll returns after d milliseconds.
PollFor(d) ==
  /\ pc = "poll"
  /\ LET c == AddMillisecondsToNow(clock, d) IN c.sec <= MaxSec /\ clock' = c
  /\ pc' = "files"
  /\ UNCHANGED <<timers, nextId, lastTime, jumps, pos, maxId, deleted, firedDeleted, early, ran>>

\* aeApiPoll sleeps at most until the nearest timer is due (for ever if
\* there is none); a file event may wake it earlier.
Poll ==
  \E d \in 0..(MaxSec * MsPerSec) :
    /\ PollTimeout = -1 \/ d <= PollTimeout
    /\ PollFor(d)

\* aeCreateTimeEvent, called by a file handler or a command.
CreateTimeEvent(milliseconds) ==
  /\ pc = "files" /\ nextId < MaxTimers
  /\ timers' = LinkTimer(timers, NewTimer(nextId, clock, milliseconds))
  /\ nextId' = nextId + 1
  /\ UNCHANGED <<lastTime, clock, jumps, pc, pos, maxId, deleted, firedDeleted, early, ran>>

\* aeDeleteTimeEvent: mark the timer; processTimeEvents unlinks it later.
DeleteTimeEvent(id) ==
  /\ pc = "files"
  /\ LET i == TimerPos(timers, id)
     IN /\ timers' = IF i = 0 THEN timers ELSE [timers EXCEPT ![i].id = AE_DELETED_EVENT_ID]
        /\ deleted' = IF i = 0 THEN deleted ELSE deleted \cup {timers[i].tid}
  /\ UNCHANGED <<nextId, lastTime, clock, jumps, pc, pos, maxId, firedDeleted, early, ran>>

\* processTimeEvents, up to the walk: the skew check and maxId.
ProcessTimeEventsStart ==
  /\ pc = "files"
  /\ LET now == clock.sec
     IN /\ timers' = IF now < lastTime
                     THEN [i \in DOMAIN timers |-> [timers[i] EXCEPT !.when_sec = 0, !.forced = TRUE]]
                     ELSE timers
        /\ lastTime' = now
  /\ maxId' = nextId - 1
  /\ pos' = 1 /\ pc' = "timers"
  /\ UNCHANGED <<nextId, clock, jumps, deleted, firedDeleted, early, ran>>

\* The timer the walk is at (te).
te == timers[pos]

\* Mutant: a timer marked for deletion is not recognised as such.
MarkedNever(t) == FALSE

\* te->id == AE_DELETED_EVENT_ID
Marked(t) == t.id = AE_DELETED_EVENT_ID

\* What a timer handler does to the list besides its return value: nothing,
\* aeCreateTimeEvent (at the head: the walk's te moves one place down) or
\* aeDeleteTimeEvent of any id, its own included.
Handlers ==
  {[op |-> "none"]} \cup {[op |-> "create", ms |-> p] : p \in Periods}
    \cup {[op |-> "delete", id |-> i] : i \in 0..(MaxTimers - 1)}

HandlerEffect(h) ==
  IF h.op = "create"
  THEN LET ts == LinkTimer(timers, NewTimer(nextId, clock, h.ms))
       IN [ts |-> ts, next |-> nextId + 1, del |-> deleted,
           shift |-> IF ts[pos] = timers[pos] THEN 0 ELSE 1]
  ELSE IF h.op = "delete" /\ TimerPos(timers, h.id) # 0
  THEN LET i == TimerPos(timers, h.id)
       IN [ts |-> [timers EXCEPT ![i].id = AE_DELETED_EVENT_ID], next |-> nextId,
           del |-> deleted \cup {timers[i].tid}, shift |-> 0]
  ELSE [ts |-> timers, next |-> nextId, del |-> deleted, shift |-> 0]

\* The walk unlinks and frees a timer marked for deletion (finalizerProc).
RemoveDeleted ==
  /\ pc = "timers" /\ pos <= Len(timers) /\ Marked(te)
  /\ timers' = RemoveAt(timers, pos)
  /\ UNCHANGED <<nextId, lastTime, clock, jumps, pc, pos, maxId, deleted, firedDeleted, early, ran>>

\* A timer that is not yet due.
NotDue ==
  /\ pc = "timers" /\ pos <= Len(timers) /\ ~Marked(te) /\ te.id <= maxId
  /\ ~Due(clock, te)
  /\ pos' = pos + 1
  /\ UNCHANGED <<timers, nextId, lastTime, clock, jumps, pc, maxId, deleted, firedDeleted, early, ran>>

\* A due timer: timeProc runs (doing h) and returns retval; the timer is
\* rescheduled retval milliseconds from now, or marked if AE_NOMORE.
Fire(h, retval) ==
  /\ pc = "timers" /\ pos <= Len(timers) /\ ~Marked(te) /\ te.id <= maxId
  /\ Due(clock, te)
  /\ h.op = "create" => nextId < MaxTimers
  /\ firedDeleted' = (firedDeleted \/ te.tid \in deleted)
  /\ early' = (early \/ (AsMs(clock) < AsMs(te.deadline) /\ ~te.forced))
  /\ ran' = [ran EXCEPT ![te.tid] = ~@]
  /\ LET e == HandlerEffect(h)
         p == pos + e.shift
         w == AddMillisecondsToNow(clock, retval)
     IN /\ timers' = IF retval # AE_NOMORE
                     THEN [e.ts EXCEPT ![p].when_sec = w.sec, ![p].when_ms = w.ms,
                                       ![p].deadline = w, ![p].forced = FALSE]
                     ELSE [e.ts EXCEPT ![p].id = AE_DELETED_EVENT_ID]
        /\ deleted' = IF retval # AE_NOMORE THEN e.del ELSE e.del \cup {te.tid}
        /\ nextId' = e.next
        /\ pos' = p + 1
  /\ UNCHANGED <<lastTime, clock, jumps, pc, maxId>>

\* The walk reached the end of the list: back to aeMain's next iteration.
ProcessTimeEventsEnd ==
  /\ pc = "timers" /\ pos > Len(timers)
  /\ pc' = "poll"
  /\ UNCHANGED <<timers, nextId, lastTime, clock, jumps, pos, maxId, deleted, firedDeleted, early, ran>>

Next ==
  \/ Tick \/ Jump \/ Poll
  \/ \E p \in Periods : CreateTimeEvent(p)
  \/ \E i \in 0..(MaxTimers - 1) : DeleteTimeEvent(i)
  \/ ProcessTimeEventsStart
  \/ RemoveDeleted \/ NotDue
  \/ \E h \in Handlers, r \in Periods \cup {AE_NOMORE} : Fire(h, r)
  \/ ProcessTimeEventsEnd

Spec == Init /\ [][Next]_vars

\* One walk step of processTimeEvents.
WalkStep ==
  \/ RemoveDeleted \/ NotDue
  \/ \E h \in Handlers, r \in Periods \cup {AE_NOMORE} : Fire(h, r)
  \/ ProcessTimeEventsEnd

\* aeMain never stops: aeApiPoll returns when its timeout expires (a file
\* event may wake it earlier, but none has to), processTimeEvents is called
\* after the file handlers, and its walk goes on to the end of the list.
\* Time passes: an endless run of iterations that each take no time does
\* not happen, so the clock keeps ticking (Tick is enabled again and again,
\* between polls, hence strong fairness) up to the model's MaxSec.
\* Commands and clock jumps get no fairness.
FairSpec ==
  /\ Spec
  /\ SF_vars(Tick)
  /\ WF_vars(PollTimeout # -1 /\ PollFor(PollTimeout))
  /\ WF_vars(ProcessTimeEventsStart)
  /\ WF_vars(WalkStep)

-----------------------------------------------------------------------------
\* Once aeDeleteTimeEvent has returned AE_OK for a timer, or its handler
\* has returned AE_NOMORE, its handler never runs again, although the
\* timer stays linked (and its memory allocated) until a later walk of
\* processTimeEvents unlinks it, and the deletion may come from the
\* timer's own handler or another's while the walk is past or before it.
DeletedTimerNeverFires == ~firedDeleted

\* A timer handler never runs before the deadline aeAddMillisecondsToNow
\* set for it, unless the clock-skew check of processTimeEvents zeroed
\* when_sec to force it.
FiresOnlyAfterDeadline == ~early

\* processTimeEvents skips a timer with te->id > maxId, so that a timer a
\* handler creates is not run in the same walk. The check is never needed:
\* aeCreateTimeEvent links new timers at the head, behind the walk, so the
\* walk never meets a timer created after it started.
NewTimersNotWalked ==
  pc = "timers" /\ pos <= Len(timers) => te.id <= maxId

\* A timer that is linked, not marked for deletion and due is eventually
\* run (its handler runs once more) or deleted: aeProcessEvents sleeps no
\* longer than aeSearchNearestTimer allows, and the walk of
\* processTimeEvents reaches every timer it did not link itself, whatever
\* handlers create or delete on the way.
LiveDue(t) ==
  \E i \in DOMAIN timers : timers[i].tid = t /\ ~Marked(timers[i]) /\ Due(clock, timers[i])

DueTimersRun ==
  \A t \in 0..(MaxTimers - 1), b \in BOOLEAN :
    (LiveDue(t) /\ ran[t] = b) ~> (ran[t] # b \/ t \in deleted)
=============================================================================
