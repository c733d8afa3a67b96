----------------------------- MODULE Hysteresis -----------------------------
(***************************************************************************)
(* systemlib::Hysteresis: a Boolean that follows a requested value once    *)
(* the request has stood for a while.  A hysteresis is a record [state,    *)
(* requested, age]; age is the time since the pending request was made,    *)
(* which the code computes from the clock, up to the delay.  Both users of *)
(* the class in the position loop delay the change to TRUE only.           *)
(***************************************************************************)
EXTENDS Naturals

HysteresisType(delay) ==
  [state : BOOLEAN, requested : BOOLEAN, age : 0 .. delay]

HysteresisInit == [state |-> FALSE, requested |-> FALSE, age |-> 0]

(* One sample period passes.                                               *)
Aged(h, delay) ==
  IF h.requested # h.state /\ h.age < delay THEN [h EXCEPT !.age = @ + 1] ELSE h

Update(h, delay) ==
  IF h.requested # h.state /\ (h.state \/ h.age >= delay)
    THEN [h EXCEPT !.state = h.requested]
    ELSE h

(* Mutant: every call restarts the time of the request.                    *)
SetStateAndUpdate_Restarts(h, new_state, delay) ==
  Update([h EXCEPT !.requested = new_state, !.age = 0], delay)

SetStateAndUpdate(h, new_state, delay) ==
  Update(IF new_state = h.state
           THEN [h EXCEPT !.requested = h.state]
           ELSE IF new_state # h.requested
                  THEN [h EXCEPT !.requested = new_state, !.age = 0]
                  ELSE h,
         delay)
=============================================================================
