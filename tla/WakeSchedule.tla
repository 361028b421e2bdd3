---------------------------- MODULE WakeSchedule ----------------------------
(* The timer of one collection's exchanges: intervals that double while       *)
(* nothing happens, one opportunity in the second half of each.               *)
(*                                                                            *)
(*   src/triblespace-net/src/wake_schedule.rs                                 *)
(*                                                                            *)
(* Times are relative to now: what is past is zero or less.                   *)
EXTENDS Integers

CONSTANTS MinInterval, MaxInterval  \* MIN_INTERVAL and MAX_INTERVAL, in ticks

Taken == -99  \* transmit_at of an interval whose opportunity was taken

Half(interval) == interval \div 2

(* The intervals begin may start: the random word chooses the moment. *)
Begin(interval) ==
  {[interval |-> interval, left |-> interval, at |-> Half(interval) + jitter, short |-> FALSE] :
     jitter \in 0..(interval - Half(interval) - 1)}

Deadline(w) == IF w.at = Taken THEN w.left ELSE w.at

Transmits(w) == w.at # Taken /\ w.at <= 0

Longer(w) ==
  IF w.short THEN MinInterval
  ELSE IF 2 * w.interval < MaxInterval THEN 2 * w.interval ELSE MaxInterval

(* poll: the timers it may leave. *)
Polled(w) ==
  IF w.left <= 0 THEN Begin(Longer(w))
  ELSE {IF Transmits(w) THEN [w EXCEPT !.at = Taken] ELSE w}

(* Mutant of Expedite: a change within a short interval is forgotten. *)
ExpediteOnce(w) ==
  IF w.left <= 0 \/ w.interval > MinInterval THEN Begin(MinInterval) ELSE {w}

(* local_changed and neighbour_joined. *)
Expedite(w) ==
  IF w.left <= 0 \/ w.interval > MinInterval THEN Begin(MinInterval)
  ELSE {[w EXCEPT !.short = TRUE]}

Elapsed(w) == [w EXCEPT !.left = @ - 1, !.at = IF @ = Taken THEN Taken ELSE @ - 1]
=============================================================================
