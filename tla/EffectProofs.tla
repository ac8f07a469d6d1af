----------------------------- MODULE EffectProofs -----------------------------
(***************************************************************************)
(* No step takes effect twice.  A tool that can be probed is replayed      *)
(* under its key.  A call of one that cannot is the only call of its step  *)
(* that may take effect: the step is started again only after a call that  *)
(* took none, recovery never decides that such a call was not applied, and *)
(* a compensation is started once.                                         *)
(*                                                                         *)
(* What the attempts record agrees with the outside world (AccountInv), if *)
(* recovery waits for the tool threads of a coordinator that was closed:   *)
(* one that lands after the probe is an effect nobody knows of.            *)
(*                                                                         *)
(* Effects are undone in reverse dependency order, by what the recursive   *)
(* function of compensation_order computes.                                *)
(*                                                                         *)
(* Last come runs whose steps are done one after the other: the contract   *)
(* of RunContract, and what the end of such a run says of its effects.     *)
(***************************************************************************)
EXTENDS AttemptProofs, RunRefinement

\* A call that has taken effect reports success, with or without an effect.
LandedInv == \A t \in threads : t.stage = "landed" => t.out \in {"effect", "noop"}

\* A call of a tool that cannot be probed is the only one that may take effect.
UnprobedInv ==
    \A p \in Phases, s \in Steps : <<s, p>> \notin Idempotent =>
        /\ \A t, u \in threads :
              (t.step = s /\ t.phase = p /\ u.step = s /\ u.phase = p) => t = u
        /\ \A t \in threads :
              (/\ t.step = s /\ t.phase = p
               /\ \/ t.stage = "open"
                  \/ t.stage = "done" /\ t.out \in {"retryable", "permanent"})
              => effects[p][s] = 0

\* A forward step that may be started again has had no effect if it cannot be probed.
UnprobedForwardInv ==
    \A s \in Steps :
        <<s, "forward">> \notin Idempotent /\ step[s] \in {"pending", "ready", "retry_wait"} =>
            /\ effects["forward"][s] = 0
            /\ \A t \in threads : ~(t.step = s /\ t.phase = "forward")

\* A compensation that cannot be probed is started once.
UnprobedCompensationInv ==
    \A s \in Steps : <<s, "compensation">> \notin Idempotent =>
        /\ DOMAIN attempts["compensation"][s] = {} =>
              /\ effects["compensation"][s] = 0
              /\ \A t \in threads : ~(t.step = s /\ t.phase = "compensation")
        /\ (run = "compensating" /\ DOMAIN attempts["compensation"][s] # {}) =>
              \E n \in DOMAIN attempts["compensation"][s] :
                 attempts["compensation"][s][n].status \in {"running", "success", "succeeded"}

EffectInv ==
    /\ AtMostOnceEffect
    /\ LandedInv
    /\ UnprobedInv
    /\ UnprobedForwardInv
    /\ UnprobedCompensationInv

-----------------------------------------------------------------------------
(* Tool threads.                                                           *)

\* Tool t takes effect, or ends without a further one, as future w.
Lands(t, w) ==
    /\ t.stage = "open" /\ t.step \in Effectful
    /\ w.stage = "landed"
    /\ w.out = IF Replay(t.phase, t.step) THEN "noop" ELSE "effect"
    /\ effects' = IF Replay(t.phase, t.step) THEN effects
                  ELSE [effects EXCEPT ![t.phase][t.step] = @ + 1]

Ends(t, w) ==
    /\ w.stage = "done"
    /\ \/ t.stage = "landed" /\ w.out = t.out /\ w.out \in {"effect", "noop"}
       \/ t.stage = "open" /\ t.step \notin Effectful /\ w.out = "noop"
       \/ t.stage = "open" /\ w.out \in {"retryable", "permanent"}
       \/ w.out = "result_unknown"
    /\ effects' = effects

LEMMA ToolsLandOrEnd ==
    ASSUME TypeInv, LandedInv, Tools
    PROVE  \E t \in threads : \E w :
              /\ w.step = t.step /\ w.phase = t.phase
              /\ threads' \subseteq (threads \ {t}) \cup {w}
              /\ Lands(t, w) \/ Ends(t, w)
<1>1. PICK t \in threads : ToolTakesEffect(t) \/ ToolReturns(t) \/ ToolFails(t)
                           \/ ToolReplyLost(t)
  BY DEF Tools
<1>2. t \in Future
  BY DEF TypeInv, LooseTypeOK
<1>3. ASSUME NEW g, NEW o
      PROVE  LET w == [t EXCEPT !.stage = g, !.out = o]
             IN  /\ w.step = t.step /\ w.phase = t.phase
                 /\ w.stage = g /\ w.out = o
  BY <1>2 DEF Future
<1>4. CASE ToolTakesEffect(t)
  <2> DEFINE o == IF Replay(t.phase, t.step) THEN "noop" ELSE "effect"
             w == [t EXCEPT !.stage = "landed", !.out = o]
  <2>1. /\ t.stage = "open" /\ t.step \in Effectful
        /\ threads' = (threads \ {t}) \cup {w}
        /\ effects' = IF Replay(t.phase, t.step) THEN effects
                      ELSE [effects EXCEPT ![t.phase][t.step] = @ + 1]
    BY <1>4 DEF ToolTakesEffect
  <2>2. w.step = t.step /\ w.phase = t.phase /\ w.stage = "landed" /\ w.out = o
    BY <1>3
  <2> HIDE DEF w
  <2>3. Lands(t, w)
    BY <2>1, <2>2 DEF Lands
  <2> QED
    BY <2>1, <2>2, <2>3
<1>5. CASE ToolReturns(t) \/ ToolFails(t) \/ ToolReplyLost(t)
  <2>1. PICK out :
           /\ EndThread(t, out) /\ effects' = effects
           /\ \/ t.stage = "landed" /\ out = t.out /\ out \in {"effect", "noop"}
              \/ t.stage = "open" /\ t.step \notin Effectful /\ out = "noop"
              \/ t.stage = "open" /\ out \in {"retryable", "permanent"}
              \/ out = "result_unknown"
    BY <1>5 DEF ToolReturns, ToolFails, ToolReplyLost, LandedInv
  <2> DEFINE w == [t EXCEPT !.stage = "done", !.out = out]
  <2>2. threads' \subseteq (threads \ {t}) \cup {w}
    BY <2>1 DEF EndThread
  <2>3. w.step = t.step /\ w.phase = t.phase /\ w.stage = "done" /\ w.out = out
    BY <1>3
  <2> HIDE DEF w
  <2>4. Ends(t, w)
    BY <2>1, <2>3 DEF Ends
  <2> QED
    BY <2>2, <2>3, <2>4
<1> QED
  BY <1>1, <1>4, <1>5

\* A tool takes effect once, and its call is then the one that did.
LEMMA ToolsKeepEffects ==
    ASSUME TypeInv, EffectInv, Tools
    PROVE  EffectInv'
<1>1. UNCHANGED <<run, step, attempts>>
  BY DEF Tools, ToolTakesEffect, ToolReturns, ToolFails, ToolReplyLost, database
<1>2. PICK t \in threads : \E w :
         /\ w.step = t.step /\ w.phase = t.phase
         /\ threads' \subseteq (threads \ {t}) \cup {w}
         /\ Lands(t, w) \/ Ends(t, w)
  BY ToolsLandOrEnd DEF EffectInv
<1>3. PICK w :
         /\ w.step = t.step /\ w.phase = t.phase
         /\ threads' \subseteq (threads \ {t}) \cup {w}
         /\ Lands(t, w) \/ Ends(t, w)
  BY <1>2
<1>4. t.step \in Steps /\ t.phase \in Phases /\ effects \in [Phases -> [Steps -> Nat]]
  BY DEF TypeInv, LooseTypeOK, Future
<1>5. \A p \in Phases, s \in Steps :
         /\ p # t.phase \/ s # t.step => effects'[p][s] = effects[p][s]
         /\ \/ effects'[p][s] = effects[p][s]
            \/ effects[p][s] = 0 /\ effects'[p][s] = 1
  <2>1. CASE Ends(t, w)
    BY <2>1 DEF Ends
  <2>2. CASE Lands(t, w) /\ Replay(t.phase, t.step)
    BY <2>2 DEF Lands
  <2>3. CASE Lands(t, w) /\ ~Replay(t.phase, t.step)
    <3>1. effects[t.phase][t.step] = 0
      <4>1. CASE <<t.step, t.phase>> \in Idempotent
        BY <1>4, <2>3, <4>1 DEF Replay
      <4>2. CASE <<t.step, t.phase>> \notin Idempotent
        BY <1>4, <2>3, <4>2 DEF EffectInv, UnprobedInv, Lands
      <4> QED
        BY <4>1, <4>2
    <3>2. effects' = [effects EXCEPT ![t.phase][t.step] = @ + 1]
      BY <2>3 DEF Lands
    <3>3. effects'[t.phase][t.step] = 1
      BY <1>4, <3>1, <3>2
    <3>4. \A p \in Phases, s \in Steps :
             p # t.phase \/ s # t.step => effects'[p][s] = effects[p][s]
      BY <1>4, <3>2
    <3> QED
      BY <3>1, <3>3, <3>4
  <2> QED
    BY <1>3, <2>1, <2>2, <2>3
<1>6. AtMostOnceEffect'
  BY <1>4, <1>5 DEF EffectInv, AtMostOnceEffect
<1>7. LandedInv'
  BY <1>3 DEF EffectInv, LandedInv, Lands, Ends
<1>8. UnprobedInv'
  <2> SUFFICES ASSUME NEW p \in Phases, NEW s \in Steps, <<s, p>> \notin Idempotent
               PROVE  /\ \A u, v \in threads' :
                            (u.step = s /\ u.phase = p /\ v.step = s /\ v.phase = p) => u = v
                      /\ \A u \in threads' :
                            (/\ u.step = s /\ u.phase = p
                             /\ \/ u.stage = "open"
                                \/ u.stage = "done" /\ u.out \in {"retryable", "permanent"})
                            => effects'[p][s] = 0
    BY DEF UnprobedInv
  <2>1. /\ \A u, v \in threads :
              (u.step = s /\ u.phase = p /\ v.step = s /\ v.phase = p) => u = v
        /\ \A u \in threads :
              (/\ u.step = s /\ u.phase = p
               /\ \/ u.stage = "open"
                  \/ u.stage = "done" /\ u.out \in {"retryable", "permanent"})
              => effects[p][s] = 0
    BY DEF EffectInv, UnprobedInv
  <2>2. CASE t.step = s /\ t.phase = p
    <3>1. \A u \in threads' : u.step = s /\ u.phase = p => u = w
      BY <1>3, <2>1, <2>2
    <3>2. ASSUME \/ w.stage = "open"
                 \/ w.stage = "done" /\ w.out \in {"retryable", "permanent"}
          PROVE  effects'[p][s] = 0
      <4>1. t.stage = "open" /\ effects' = effects
        BY <1>3, <3>2 DEF Lands, Ends
      <4> QED
        BY <2>1, <2>2, <4>1
    <3> QED
      BY <3>1, <3>2
  <2>3. CASE t.step # s \/ t.phase # p
    <3>1. \A u \in threads' : u.step = s /\ u.phase = p => u \in threads
      BY <1>3, <2>3
    <3>2. effects'[p][s] = effects[p][s]
      BY <1>5, <2>3
    <3> QED
      BY <2>1, <3>1, <3>2
  <2> QED
    BY <2>2, <2>3
<1>9. \A s, p : (\A u \in threads : ~(u.step = s /\ u.phase = p)) =>
                   /\ t.step # s \/ t.phase # p
                   /\ \A u \in threads' : ~(u.step = s /\ u.phase = p)
  BY <1>3
<1>10. UnprobedForwardInv'
  BY <1>1, <1>5, <1>9 DEF EffectInv, UnprobedForwardInv, Phases
<1>11. UnprobedCompensationInv'
  BY <1>1, <1>5, <1>9 DEF EffectInv, UnprobedCompensationInv, Phases
<1> QED
  BY <1>6, <1>7, <1>8, <1>10, <1>11 DEF EffectInv

-----------------------------------------------------------------------------
(* Futures that are let go.                                                *)

SameCall(t, u) == /\ t.step = u.step /\ t.phase = u.phase
                  /\ t.stage = u.stage /\ t.out = u.out

\* Every future left makes the call of a future there was.
Kept == \A u, v \in threads' : \E t, w \in threads :
           SameCall(t, u) /\ SameCall(w, v) /\ (t = w => u = v)

LEMMA KeptCalls ==
    ASSUME LandedInv, UnprobedInv, Kept, effects' = effects
    PROVE  LandedInv' /\ UnprobedInv'
<1>1. LandedInv'
  BY DEF LandedInv, Kept, SameCall
<1>2. UnprobedInv'
  <2> SUFFICES ASSUME NEW p \in Phases, NEW s \in Steps, <<s, p>> \notin Idempotent
               PROVE  /\ \A u, v \in threads' :
                            (u.step = s /\ u.phase = p /\ v.step = s /\ v.phase = p) => u = v
                      /\ \A u \in threads' :
                            (/\ u.step = s /\ u.phase = p
                             /\ \/ u.stage = "open"
                                \/ u.stage = "done" /\ u.out \in {"retryable", "permanent"})
                            => effects[p][s] = 0
    BY DEF UnprobedInv
  <2> QED
    BY DEF UnprobedInv, Kept, SameCall
<1> QED
  BY <1>1, <1>2

LEMMA KeptFutures ==
    ASSUME Kept, NEW s, NEW p, \A t \in threads : ~(t.step = s /\ t.phase = p)
    PROVE  \A t \in threads' : ~(t.step = s /\ t.phase = p)
BY DEF Kept, SameCall

\* Futures may change hands: closing makes them orphans.
LEMMA HoldKept ==
    ASSUME TypeInv, NEW S \in SUBSET threads, NEW h,
           threads' \subseteq S \cup {[t EXCEPT !.hold = h] : t \in threads \ S}
    PROVE  Kept
<1> DEFINE handed(t) == [t EXCEPT !.hold = h]
<1>1. ASSUME NEW t \in threads
      PROVE  SameCall(t, handed(t)) /\ SameCall(t, t)
  BY DEF TypeInv, LooseTypeOK, Future, SameCall
<1>2. threads' \subseteq S \cup {handed(t) : t \in threads \ S}
  OBVIOUS
<1> HIDE DEF handed
<1>3. \A u \in threads' : \E t \in threads : SameCall(t, u) /\ u = IF t \in S THEN t ELSE handed(t)
  BY <1>1, <1>2
<1> QED
  BY <1>3 DEF Kept

\* What is persisted of a call, and what becomes of its future.
LEMMA OutcomeOfCall ==
    ASSUME TypeInv, NEW t \in threads, Collect(t) \/ Expire(t) \/ CloseOutcome(t)
    PROVE  \E out \in Outcomes \cup {"none"} :
              /\ PersistOutcome(t, out) /\ t.hold = "owned" /\ effects' = effects /\ Kept
              /\ \/ /\ threads' = threads \ {t}
                    /\ \/ t.stage = "done" /\ out = t.out
                       \/ t.stage = "open" /\ out = "retryable"
                 \/ /\ threads' = (threads \ {t}) \cup {[t EXCEPT !.hold = "persisted"]}
                    /\ out = "result_unknown"
<1>1. t.out \in Outcomes \cup {"none"}
  BY DEF TypeInv, LooseTypeOK, Future
<1>2. \/ threads' = threads \ {t}
      \/ threads' = (threads \ {t}) \cup {[t EXCEPT !.hold = "persisted"]}
  BY DEF Collect, Expire, CloseOutcome
<1>3. Kept
  <2>1. threads' \subseteq (threads \ {t})
                 \cup {[u EXCEPT !.hold = "persisted"] : u \in threads \ (threads \ {t})}
    BY <1>2
  <2> QED
    BY <2>1, HoldKept
<1>4. CASE Collect(t)
  BY <1>1, <1>3, <1>4 DEF Collect
<1>5. CASE Expire(t)
  BY <1>3, <1>5 DEF Expire, Outcomes, Failures
<1>6. CASE CloseOutcome(t)
  <2>1. t.hold = "owned" /\ effects' = effects
    BY <1>6 DEF CloseOutcome
  <2>2. CASE t.stage = "done" /\ PersistOutcome(t, t.out) /\ threads' = threads \ {t}
    BY <1>1, <1>3, <2>1, <2>2
  <2>3. CASE t.stage = "open" /\ PersistOutcome(t, "retryable") /\ threads' = threads \ {t}
    BY <1>3, <2>1, <2>3 DEF Outcomes, Failures
  <2>4. CASE /\ PersistOutcome(t, "result_unknown")
             /\ threads' = (threads \ {t}) \cup {[t EXCEPT !.hold = "persisted"]}
    BY <1>3, <2>1, <2>4 DEF Outcomes, Failures
  <2> QED
    BY <1>6, <2>2, <2>3, <2>4 DEF CloseOutcome
<1> QED
  BY <1>4, <1>5, <1>6

\* A run with a compensation attempt that compensates did so before.
LEMMA CompensatesStill ==
    ASSUME DatabaseInv, RunStaysOver, run' = "compensating",
           NEW s \in Steps, DOMAIN attempts["compensation"][s] # {}
    PROVE  run = "compensating"
BY DEF DatabaseInv, CompensationInv, RunStaysOver, TerminalRunStates

LEMMA PersistsKeepEffects ==
    ASSUME TypeInv, DatabaseInv, OwnedInv, RunStaysOver, EffectInv, Persists
    PROVE  EffectInv'
<1>1. PICK t \in threads : Collect(t) \/ Expire(t) \/ CloseOutcome(t)
  BY DEF Persists
<1>2. PICK out \in Outcomes \cup {"none"} :
         /\ PersistOutcome(t, out) /\ t.hold = "owned" /\ effects' = effects /\ Kept
         /\ out = "retryable" =>
               /\ threads' = threads \ {t}
               /\ \/ t.stage = "open"
                  \/ t.stage = "done" /\ t.out \in {"retryable", "permanent"}
  BY <1>1, OutcomeOfCall
<1>3. /\ Completed(t.phase, t.step, t.no)
      /\ attempts'[t.phase][t.step][t.no] = AttemptAfter(out)
      /\ t.phase = "forward" => PersistForward(t.step, t.no, out)
      /\ t.phase = "compensation" => PersistCompensation(t.step, t.no, out)
  BY <1>2, PersistCompletes
<1>4. t.step \in Steps /\ t.phase \in Phases
  BY DEF TypeInv, LooseTypeOK, Future
<1>5. AtMostOnceEffect' /\ LandedInv' /\ UnprobedInv'
  BY <1>2, KeptCalls DEF EffectInv, AtMostOnceEffect
<1>6. UnprobedForwardInv'
  <2> SUFFICES ASSUME NEW s \in Steps, <<s, "forward">> \notin Idempotent,
                      step'[s] \in {"pending", "ready", "retry_wait"}
               PROVE  /\ effects["forward"][s] = 0
                      /\ \A u \in threads' : ~(u.step = s /\ u.phase = "forward")
    BY <1>2 DEF UnprobedForwardInv
  <2>1. CASE step'[s] = step[s]
    BY <1>2, <2>1, KeptFutures DEF EffectInv, UnprobedForwardInv
  <2>2. CASE step'[s] # step[s]
    <3>1. t.phase = "forward" /\ t.step = s
      BY <1>3, <1>4, <2>2 DEF PersistForward, PersistCompensation, Phases, TypeInv, LooseTypeOK
    <3>2. out = "retryable"
      BY <1>3, <3>1 DEF PersistForward, NextStepState, TypeInv, LooseTypeOK
    <3> QED
      BY <1>2, <3>1, <3>2 DEF EffectInv, UnprobedInv, Phases
  <2> QED
    BY <2>1, <2>2
<1>7. UnprobedCompensationInv'
  <2> SUFFICES ASSUME NEW s \in Steps, <<s, "compensation">> \notin Idempotent
               PROVE  /\ DOMAIN attempts'["compensation"][s] = {} =>
                            /\ effects["compensation"][s] = 0
                            /\ \A u \in threads' : ~(u.step = s /\ u.phase = "compensation")
                      /\ (run' = "compensating" /\ DOMAIN attempts'["compensation"][s] # {}) =>
                            \E n \in DOMAIN attempts'["compensation"][s] :
                               attempts'["compensation"][s][n].status
                                  \in {"running", "success", "succeeded"}
    BY <1>2 DEF UnprobedCompensationInv
  <2>1. DOMAIN attempts'["compensation"][s] = DOMAIN attempts["compensation"][s]
    BY <1>3 DEF Completed, Phases
  <2>2. DOMAIN attempts["compensation"][s] = {} =>
           /\ effects["compensation"][s] = 0
           /\ \A u \in threads' : ~(u.step = s /\ u.phase = "compensation")
    BY <1>2, KeptFutures DEF EffectInv, UnprobedCompensationInv
  <2>3. ASSUME run' = "compensating", DOMAIN attempts["compensation"][s] # {}
        PROVE  \E n \in DOMAIN attempts'["compensation"][s] :
                  attempts'["compensation"][s][n].status \in {"running", "success", "succeeded"}
    <3>1. PICK n \in DOMAIN attempts["compensation"][s] :
             attempts["compensation"][s][n].status \in {"running", "success", "succeeded"}
      BY <2>3, CompensatesStill DEF EffectInv, UnprobedCompensationInv
    <3>2. CASE t.phase = "compensation" /\ t.step = s /\ t.no = n
      BY <1>3, <2>1, <2>3, <3>2 DEF PersistCompensation, AttemptAfter
    <3>3. CASE t.phase # "compensation" \/ t.step # s \/ t.no # n
      <4>1. attempts'["compensation"][s][n] = attempts["compensation"][s][n]
        BY <1>3, <3>3 DEF Completed, Phases
      <4> QED
        BY <2>1, <3>1, <4>1
    <3> QED
      BY <3>2, <3>3
  <2> QED
    BY <2>1, <2>2, <2>3
<1> QED
  BY <1>5, <1>6, <1>7 DEF EffectInv

-----------------------------------------------------------------------------
(* Calls that are made.                                                    *)

\* A new call of a step none of whose calls may still take effect.
LEMMA CallAdded ==
    ASSUME LandedInv, UnprobedInv, NEW w, w.stage = "open",
           threads' = threads \cup {w}, effects' = effects,
           <<w.step, w.phase>> \notin Idempotent =>
              /\ effects[w.phase][w.step] = 0
              /\ \A t \in threads : ~(t.step = w.step /\ t.phase = w.phase)
    PROVE  LandedInv' /\ UnprobedInv'
<1>1. LandedInv'
  BY DEF LandedInv
<1>2. UnprobedInv'
  <2> SUFFICES ASSUME NEW p \in Phases, NEW s \in Steps, <<s, p>> \notin Idempotent
               PROVE  /\ \A u, v \in threads' :
                            (u.step = s /\ u.phase = p /\ v.step = s /\ v.phase = p) => u = v
                      /\ \A u \in threads' :
                            (/\ u.step = s /\ u.phase = p
                             /\ \/ u.stage = "open"
                                \/ u.stage = "done" /\ u.out \in {"retryable", "permanent"})
                            => effects[p][s] = 0
    BY DEF UnprobedInv
  <2>1. CASE w.step = s /\ w.phase = p
    BY <2>1
  <2>2. CASE w.step # s \/ w.phase # p
    BY <2>2 DEF UnprobedInv
  <2> QED
    BY <2>1, <2>2
<1> QED
  BY <1>1, <1>2

LEMMA StartsKeepEffects ==
    ASSUME TypeInv, DatabaseInv, RunStaysOver, EffectInv, Starts
    PROVE  EffectInv'
<1>1. PICK s \in Steps : StartAttempt(s) \/ SubmissionFails(s)
  BY DEF Starts
<1>2. /\ step[s] = "ready" /\ effects' = effects
      /\ \A u \in Steps \ {s} : step'[u] = step[u]
      /\ attempts'["compensation"] = attempts["compensation"]
  BY <1>1 DEF StartAttempt, SubmissionFails, StepCan, StepTransitions, StepStates,
     TypeInv, LooseTypeOK, Phases
<1>3. <<s, "forward">> \notin Idempotent =>
         /\ effects["forward"][s] = 0
         /\ \A t \in threads : ~(t.step = s /\ t.phase = "forward")
  BY <1>2 DEF EffectInv, UnprobedForwardInv
<1>4. \A t \in threads' : t \in threads \/ (t.step = s /\ t.phase = "forward" /\ StartAttempt(s))
  BY <1>1 DEF StartAttempt, SubmissionFails, NewThread
<1>5. LandedInv' /\ UnprobedInv'
  <2>1. CASE StartAttempt(s)
    <3> DEFINE w == NewThread(s, "forward")
    <3>1. threads' = threads \cup {w} /\ w.stage = "open" /\ w.step = s /\ w.phase = "forward"
      BY <2>1 DEF StartAttempt, NewThread
    <3> HIDE DEF w
    <3> QED
      BY <1>2, <1>3, <3>1, CallAdded DEF EffectInv
  <2>2. CASE SubmissionFails(s)
    BY <1>2, <2>2 DEF SubmissionFails, EffectInv, LandedInv, UnprobedInv
  <2> QED
    BY <1>1, <2>1, <2>2
<1>6. UnprobedForwardInv'
  <2> SUFFICES ASSUME NEW u \in Steps, <<u, "forward">> \notin Idempotent,
                      step'[u] \in {"pending", "ready", "retry_wait"}
               PROVE  /\ effects["forward"][u] = 0
                      /\ \A t \in threads' : ~(t.step = u /\ t.phase = "forward")
    BY <1>2 DEF UnprobedForwardInv
  <2>1. CASE u = s
    <3>1. ~StartAttempt(s)
      BY <2>1 DEF StartAttempt, TypeInv, LooseTypeOK
    <3> QED
      BY <1>3, <1>4, <2>1, <3>1
  <2>2. CASE u # s
    BY <1>2, <1>4, <2>2 DEF EffectInv, UnprobedForwardInv
  <2> QED
    BY <2>1, <2>2
<1>7. UnprobedCompensationInv'
  BY <1>2, <1>4, CompensatesStill DEF EffectInv, UnprobedCompensationInv
<1> QED
  BY <1>2, <1>5, <1>6, <1>7 DEF EffectInv, AtMostOnceEffect

LEMMA CompensatesKeepEffects ==
    ASSUME TypeInv, DatabaseInv, RunStaysOver, EffectInv, Compensates
    PROVE  EffectInv'
<1>1. PICK s \in Steps : StartCompensation(s) \/ CompensationSubmissionFails(s)
  BY DEF Compensates
<1>2. /\ UNCHANGED <<step, effects>>
      /\ run = "compensating" /\ Drained /\ s \in PendingCompensations(step, attempts)
      /\ attempts'["forward"] = attempts["forward"]
      /\ \A u \in Steps \ {s} : attempts'["compensation"][u] = attempts["compensation"][u]
  BY <1>1 DEF StartCompensation, CompensationSubmissionFails, Compensating, TypeInv, LooseTypeOK,
     Phases
<1>3. <<s, "compensation">> \notin Idempotent => DOMAIN attempts["compensation"][s] = {}
  <2> SUFFICES ASSUME <<s, "compensation">> \notin Idempotent,
                      DOMAIN attempts["compensation"][s] # {}
               PROVE  FALSE
    OBVIOUS
  <2>1. PICK n \in DOMAIN attempts["compensation"][s] :
           attempts["compensation"][s][n].status \in {"running", "success", "succeeded"}
    BY <1>2 DEF EffectInv, UnprobedCompensationInv
  <2>2. attempts["compensation"][s][n].status # "running"
    BY <1>2, DrainedNoRunning DEF Phases
  <2> QED
    BY <1>2, <2>1, <2>2 DEF PendingCompensations, Compensated, Succeeded
<1>4. <<s, "compensation">> \notin Idempotent =>
         /\ effects["compensation"][s] = 0
         /\ \A t \in threads : ~(t.step = s /\ t.phase = "compensation")
  BY <1>3 DEF EffectInv, UnprobedCompensationInv
<1>5. LandedInv' /\ UnprobedInv'
  <2>1. CASE StartCompensation(s)
    <3> DEFINE w == NewThread(s, "compensation")
    <3>1. /\ threads' = threads \cup {w} /\ w.stage = "open"
          /\ w.step = s /\ w.phase = "compensation"
      BY <2>1 DEF StartCompensation, NewThread
    <3> HIDE DEF w
    <3> QED
      BY <1>2, <1>4, <3>1, CallAdded DEF EffectInv
  <2>2. CASE CompensationSubmissionFails(s)
    BY <1>2, <2>2 DEF CompensationSubmissionFails, EffectInv, LandedInv, UnprobedInv
  <2> QED
    BY <1>1, <2>1, <2>2
<1>6. \A t \in threads' : t \in threads \/ (t.step = s /\ t.phase = "compensation")
  BY <1>1 DEF StartCompensation, CompensationSubmissionFails, NewThread
<1>7. UnprobedForwardInv'
  BY <1>2, <1>6 DEF EffectInv, UnprobedForwardInv
<1>8. UnprobedCompensationInv'
  <2>1. PICK a \in Attempt :
           /\ attempts' = [attempts EXCEPT !["compensation"][s] = Append(@, a)]
           /\ run' = "compensating" => a.status = "running"
    <3>1. RunningAttempt \in Attempt /\ RunningAttempt.status = "running"
      BY DEF RunningAttempt, Attempt
    <3>2. AttemptAfter("permanent") \in Attempt
      BY AttemptAfterType DEF Outcomes, Failures
    <3> QED
      BY <1>1, <3>1, <3>2 DEF StartCompensation, CompensationSubmissionFails
  <2>2. /\ Len(attempts["compensation"][s]) + 1 \in DOMAIN attempts'["compensation"][s]
        /\ attempts'["compensation"][s][Len(attempts["compensation"][s]) + 1] = a
    <3>1. Added("compensation", s, a)
      BY <2>1, AppendAdds DEF TypeInv, LooseTypeOK, Phases
    <3> QED
      BY <3>1 DEF Added
  <2> SUFFICES ASSUME NEW u \in Steps, <<u, "compensation">> \notin Idempotent
               PROVE  /\ DOMAIN attempts'["compensation"][u] = {} =>
                            /\ effects["compensation"][u] = 0
                            /\ \A t \in threads' : ~(t.step = u /\ t.phase = "compensation")
                      /\ (run' = "compensating" /\ DOMAIN attempts'["compensation"][u] # {}) =>
                            \E n \in DOMAIN attempts'["compensation"][u] :
                               attempts'["compensation"][u][n].status
                                  \in {"running", "success", "succeeded"}
    BY <1>2 DEF UnprobedCompensationInv
  <2>3. CASE u = s
    BY <2>1, <2>2, <2>3
  <2>4. CASE u # s
    BY <1>2, <1>6, <2>4 DEF EffectInv, UnprobedCompensationInv
  <2> QED
    BY <2>3, <2>4
<1> QED
  BY <1>2, <1>5, <1>7, <1>8 DEF EffectInv, AtMostOnceEffect

\* Recovery starts a call again only if it knows that it took no effect.
LEMMA ResolvesKeepEffects ==
    ASSUME TypeInv, TypeInv', QueueInv, AttemptInv, RunStaysOver, EffectInv, Resolves
    PROVE  EffectInv'
<1>1. PICK r \in rq : RecoverApplied(r) \/ RecoverNotApplied(r) \/ RecoverManually(r)
  BY DEF Resolves
<1>2. /\ r.step \in Steps /\ r.phase \in Phases /\ threads' = threads
      /\ Completed(r.phase, r.step, r.no)
      /\ r.phase = "forward" =>
            \E q \in {"succeeded", "ready", "manual_intervention"} :
                  step' = [step EXCEPT ![r.step] = q]
      /\ r.phase = "compensation" => step' = step
  BY <1>1, RecoverCompletes
<1>3. effects' = effects
  BY <1>1 DEF RecoverApplied, RecoverNotApplied, RecoverManually
<1>4. ASSUME <<r.step, r.phase>> \notin Idempotent
      PROVE  RecoverManually(r)
  BY <1>1, <1>4 DEF RecoverApplied, RecoverNotApplied, Decisions
<1>5. LandedInv' /\ UnprobedInv' /\ AtMostOnceEffect'
  BY <1>2, <1>3 DEF EffectInv, LandedInv, UnprobedInv, AtMostOnceEffect
<1>6. UnprobedForwardInv'
  <2> SUFFICES ASSUME NEW s \in Steps, <<s, "forward">> \notin Idempotent,
                      step'[s] \in {"pending", "ready", "retry_wait"}
               PROVE  step'[s] = step[s]
    BY <1>2, <1>3 DEF EffectInv, UnprobedForwardInv
  <2>1. CASE r.phase = "forward" /\ r.step = s
    <3>1. step' = [step EXCEPT ![s] = "manual_intervention"]
      BY <1>4, <2>1 DEF RecoverManually, StepAfterRecovery
    <3> QED
      BY <3>1 DEF TypeInv, LooseTypeOK
  <2>2. CASE r.phase # "forward" \/ r.step # s
    BY <1>2, <2>2 DEF TypeInv, LooseTypeOK, Phases
  <2> QED
    BY <2>1, <2>2
<1>7. UnprobedCompensationInv'
  <2> SUFFICES ASSUME NEW s \in Steps, <<s, "compensation">> \notin Idempotent
               PROVE  /\ DOMAIN attempts'["compensation"][s] = {} =>
                            /\ effects["compensation"][s] = 0
                            /\ \A u \in threads : ~(u.step = s /\ u.phase = "compensation")
                      /\ (run' = "compensating" /\ DOMAIN attempts'["compensation"][s] # {}) =>
                            \E n \in DOMAIN attempts'["compensation"][s] :
                               attempts'["compensation"][s][n].status
                                  \in {"running", "success", "succeeded"}
    BY <1>2, <1>3 DEF UnprobedCompensationInv
  <2>1. DOMAIN attempts'["compensation"][s] = DOMAIN attempts["compensation"][s]
    BY <1>2 DEF Completed, Phases
  <2>2. ASSUME run' = "compensating", DOMAIN attempts["compensation"][s] # {}
        PROVE  \E n \in DOMAIN attempts'["compensation"][s] :
                  attempts'["compensation"][s][n].status \in {"running", "success", "succeeded"}
    <3>1. PICK n \in DOMAIN attempts["compensation"][s] :
             attempts["compensation"][s][n].status \in {"running", "success", "succeeded"}
      BY <2>2, CompensatesStill, AttemptInvParts DEF EffectInv, UnprobedCompensationInv
    <3>2. r.phase # "compensation" \/ r.step # s
      BY <1>4, <2>2 DEF RecoverManually
    <3>3. attempts'["compensation"][s][n] = attempts["compensation"][s][n]
      BY <1>2, <3>2 DEF Completed, Phases
    <3> QED
      BY <2>1, <3>1, <3>3
  <2> QED
    BY <2>1, <2>2 DEF EffectInv, UnprobedCompensationInv
<1> QED
  BY <1>5, <1>6, <1>7 DEF EffectInv

\* The other steps make no call and no step that was called one to be called.
LEMMA QuietKeepsEffects ==
    ASSUME DatabaseInv, RunStaysOver, EffectInv, Kept, effects' = effects, attempts' = attempts,
           \A u \in Steps : step'[u] \in {"pending", "ready", "retry_wait"} =>
                               step[u] \in {"pending", "ready", "retry_wait"}
    PROVE  EffectInv'
<1>1. AtMostOnceEffect' /\ LandedInv' /\ UnprobedInv'
  BY KeptCalls DEF EffectInv, AtMostOnceEffect
<1>2. UnprobedForwardInv'
  BY KeptFutures DEF EffectInv, UnprobedForwardInv
<1>3. UnprobedCompensationInv'
  BY KeptFutures, CompensatesStill DEF EffectInv, UnprobedCompensationInv
<1> QED
  BY <1>1, <1>2, <1>3 DEF EffectInv

LEMMA NextEffects ==
    ASSUME RuntimeInv, RuntimeInv', EffectInv, [Next]_vars
    PROVE  EffectInv'
<1> USE DEF database
<1>0. /\ RunStaysOver /\ TypeInv /\ TypeInv' /\ QueueInv
      /\ AttemptInv /\ DatabaseInv /\ OwnedInv
  BY NextIsAny, NextStaysOver, AttemptInvParts DEF RuntimeInv, FuturesInv
<1>1. ASSUME UNCHANGED <<step, attempts, effects>>, Kept
      PROVE  EffectInv'
  BY <1>0, <1>1, QuietKeepsEffects
<1>2. ASSUME UNCHANGED <<step, attempts, effects, threads>>
      PROVE  EffectInv'
  <2>1. Kept
    BY <1>2 DEF Kept, SameCall
  <2> QED
    BY <1>1, <1>2, <2>1
<1>3. CASE UNCHANGED vars
  BY <1>2, <1>3 DEF vars
<1>4. CASE Tools
  BY <1>0, <1>4, ToolsKeepEffects
<1>5. CASE RunOnce
  <2>1. ASSUME \/ SelectUnprotected \/ BarrierBlocks \/ EndBatch \/ Establishes
               \/ \E s \in Steps : SelectApproved(s)
        PROVE  UNCHANGED <<step, attempts, effects, threads>>
    BY <2>1 DEF SelectUnprotected, BarrierBlocks, EndBatch, SelectApproved, Establishes,
         EstablishApprovalBarrier
  <2>2. CASE Promotes
    <3>1. UNCHANGED <<attempts, effects, threads>>
      BY <2>2 DEF Promotes, PromoteDependencyReadySteps, PromoteDueRetries
    <3>2. \A u \in Steps : step'[u] \in {"pending", "ready", "retry_wait"} =>
                              step[u] \in {"pending", "ready", "retry_wait"}
      BY <2>2 DEF Promotes, PromoteDependencyReadySteps, PromoteDueRetries, ReadySteps
    <3>3. Kept
      BY <3>1 DEF Kept, SameCall
    <3> QED
      BY <1>0, <3>1, <3>2, <3>3, QuietKeepsEffects
  <2> QED
    BY <1>0, <1>2, <1>5, <2>1, <2>2, PersistsKeepEffects, StartsKeepEffects,
       CompensatesKeepEffects DEF RunOnce, Persists, Establishes, Starts, Compensates, Promotes
<1>6. CASE Operators
  BY <1>2, <1>6 DEF Operators, Decide, CancelRun
<1>7. CASE Recovery
  <2>1. ASSUME StartRecovery \/ FinishRecovery \/ \E r \in rq : RecoveryRaises(r)
        PROVE  UNCHANGED <<step, attempts, effects, threads>>
    BY <2>1 DEF StartRecovery, FinishRecovery, RecoveryRaises
  <2> QED
    BY <1>0, <1>2, <1>7, <2>1, ResolvesKeepEffects DEF Recovery, Resolves
<1>8. CASE Process
  <2>1. ASSUME CloseWaiting \/ BeginClose \/ Restart
        PROVE  UNCHANGED <<step, attempts, effects, threads>>
    BY <2>1 DEF CloseWaiting, BeginClose, Restart
  <2>2. ASSUME FinishClose \/ StartDriverAgain \/ Crash
        PROVE  EffectInv'
    <3>1. UNCHANGED <<step, attempts, effects>>
      BY <2>2 DEF FinishClose, StartDriverAgain, Crash
    <3>2. threads' \subseteq {[t EXCEPT !.hold = "orphan"] : t \in threads}
      BY <2>2 DEF FinishClose, StartDriverAgain, Crash
    <3>3. Kept
      <4>1. threads' \subseteq {} \cup {[t EXCEPT !.hold = "orphan"] : t \in threads \ {}}
        BY <3>2
      <4> QED
        BY <1>0, <4>1, HoldKept
    <3> QED
      BY <1>1, <3>1, <3>3
  <2> QED
    BY <1>0, <1>2, <1>8, <2>1, <2>2, PersistsKeepEffects DEF Process, Persists
<1> QED
  BY <1>3, <1>4, <1>5, <1>6, <1>7, <1>8 DEF Next, RunTerminal

LEMMA EffectInvAlways ==
    ASSUME RecoveryAlone
    PROVE  Spec => []EffectInv
<1>1. Init => EffectInv
  BY DEF Init, EffectInv, AtMostOnceEffect, LandedInv, UnprobedInv, UnprobedForwardInv,
     UnprobedCompensationInv, Phases
<1>2. RuntimeInv /\ RuntimeInv' /\ EffectInv /\ [Next]_vars => EffectInv'
  BY NextEffects
<1> QED
  BY <1>1, <1>2, SpecIsAny, RuntimeInvAlways, PTL DEF Spec

(***************************************************************************)
(* No step and no compensation takes effect twice, whatever is retried,    *)
(* recovered, closed or restarted, and even while abandoned tool threads   *)
(* of an earlier coordinator still run.                                    *)
(***************************************************************************)
THEOREM NoEffectTwice ==
    ASSUME RecoveryAlone
    PROVE  Spec => []AtMostOnceEffect
<1>1. EffectInv => AtMostOnceEffect
  BY DEF EffectInv
<1> QED
  BY <1>1, EffectInvAlways, PTL

-----------------------------------------------------------------------------
(* The accounts of the effects, while recovery waits for abandoned tool    *)
(* threads: LateEffects = FALSE.                                           *)

\* A call has an outcome once its tool has done something.
OpenInv == \A t \in threads : t.out = "none" <=> t.stage = "open"

\* Recovery probes and decides with no call under way.
NoLateCall == pc = "recover" => threads = {}

\* A step has one forward call, which it waits for, and what the call reports
\* tells whether it took effect.
ForwardCall ==
    \A t \in threads : t.phase = "forward" =>
        /\ step[t.step] \in {"running", "result_unknown"}
        /\ t.out \notin {"effect", "result_unknown"} => effects["forward"][t.step] = 0
        /\ \A u \in threads : u.phase = "forward" /\ u.step = t.step => u = t

\* A compensation reported done has undone the effect.
CompensationCall ==
    \A t \in threads :
        t.phase = "compensation" /\ t.step \in Effectful /\ t.out \in {"effect", "noop"} =>
            effects["compensation"][t.step] > 0

\* A step that may still be started, or that failed, has changed nothing.
NoEffectYet ==
    \A s \in Steps : step[s] \in {"pending", "ready", "retry_wait", "failed"} =>
        effects["forward"][s] = 0

Reported(s) == \E n \in DOMAIN attempts["forward"][s] :
    Succeeded(attempts["forward"][s][n]) /\ attempts["forward"][s][n].effect

\* The effect of a step that succeeded is on record.
EffectKnown ==
    \A s \in Steps : step[s] = "succeeded" /\ effects["forward"][s] > 0 => Reported(s)

\* A compensation on record has undone its step, if there was anything to undo.
UndoneInv ==
    \A s \in Steps :
        /\ effects["forward"][s] > 0 => s \in Effectful
        /\ s \in Effectful /\ Compensated(attempts["compensation"], s) =>
              effects["compensation"][s] > 0

CallInv == OpenInv /\ NoLateCall /\ ForwardCall /\ CompensationCall
RecordInv == NoEffectYet /\ EffectKnown /\ UndoneInv
AccountInv == CallInv /\ RecordInv

\* A step whose forward call is over, or was never made, waits for none.
LEMMA NoForwardCall ==
    ASSUME ForwardCall, NEW s \in Steps, step[s] \notin {"running", "result_unknown"}
    PROVE  \A t \in threads : ~(t.phase = "forward" /\ t.step = s)
BY DEF ForwardCall

\* A tool takes effect or its call ends.
LEMMA ToolsKeepAccounts ==
    ASSUME TypeInv, LandedInv, AccountInv, Tools
    PROVE  AccountInv'
<1>1. UNCHANGED <<run, step, attempts, pc>>
  BY DEF Tools, ToolTakesEffect, ToolReturns, ToolFails, ToolReplyLost, database
<1>2. PICK t \in threads : \E w :
         /\ w.step = t.step /\ w.phase = t.phase
         /\ threads' \subseteq (threads \ {t}) \cup {w}
         /\ Lands(t, w) \/ Ends(t, w)
  BY ToolsLandOrEnd
<1>3. PICK w :
         /\ w.step = t.step /\ w.phase = t.phase
         /\ threads' \subseteq (threads \ {t}) \cup {w}
         /\ Lands(t, w) \/ Ends(t, w)
  BY <1>2
<1>4. /\ t.step \in Steps /\ t.phase \in Phases
      /\ effects \in [Phases -> [Steps -> Nat]] /\ effects' \in [Phases -> [Steps -> Nat]]
  <2>1. t.step \in Steps /\ t.phase \in Phases /\ effects \in [Phases -> [Steps -> Nat]]
    BY DEF TypeInv, LooseTypeOK, Future
  <2>2. CASE effects' = effects
    BY <2>1, <2>2
  <2>3. CASE effects' = [effects EXCEPT ![t.phase][t.step] = @ + 1]
    <3>1. [effects[t.phase] EXCEPT ![t.step] = @ + 1] \in [Steps -> Nat]
      BY <2>1
    <3> QED
      BY <2>1, <2>3, <3>1
  <2> QED
    BY <1>3, <2>1, <2>2, <2>3 DEF Lands, Ends
<1>5. \A p \in Phases, s \in Steps :
         /\ p # t.phase \/ s # t.step => effects'[p][s] = effects[p][s]
         /\ effects'[p][s] >= effects[p][s]
  <2>1. CASE effects' = effects
    BY <1>4, <2>1
  <2>2. CASE effects' = [effects EXCEPT ![t.phase][t.step] = @ + 1]
    BY <1>4, <2>2
  <2> QED
    BY <1>3, <2>1, <2>2 DEF Lands, Ends
<1>6. OpenInv'
  <2>1. (w.out = "none") <=> (w.stage = "open")
    BY <1>3 DEF AccountInv, CallInv, OpenInv, Lands, Ends
  <2> QED
    BY <1>3, <2>1 DEF AccountInv, CallInv, OpenInv
<1>7. NoLateCall'
  BY <1>1, <1>2 DEF AccountInv, CallInv, NoLateCall
<1>8. ForwardCall'
  <2>1. t.phase = "forward" /\ w.out \notin {"effect", "result_unknown"} =>
           effects'["forward"][t.step] = 0
    <3> SUFFICES ASSUME t.phase = "forward", w.out \notin {"effect", "result_unknown"}
                 PROVE  effects'["forward"][t.step] = 0
      OBVIOUS
    <3>1. t.stage = "open" => effects["forward"][t.step] = 0
      BY DEF AccountInv, CallInv, OpenInv, ForwardCall
    <3>2. CASE Ends(t, w)
      BY <3>1, <3>2 DEF Ends, AccountInv, CallInv, ForwardCall
    <3>3. CASE Lands(t, w)
      BY <3>1, <3>3 DEF Lands, Replay
    <3> QED
      BY <1>3, <3>2, <3>3
  <2> SUFFICES ASSUME NEW u \in threads', u.phase = "forward"
               PROVE  /\ step[u.step] \in {"running", "result_unknown"}
                      /\ u.out \notin {"effect", "result_unknown"} =>
                            effects'["forward"][u.step] = 0
                      /\ \A v \in threads' : v.phase = "forward" /\ v.step = u.step => v = u
    BY <1>1 DEF ForwardCall
  <2>2. CASE u = w
    BY <1>3, <2>1, <2>2 DEF AccountInv, CallInv, ForwardCall
  <2>3. CASE u # w
    <3>1. u \in threads /\ u # t
      BY <1>3, <2>3
    <3>2. u.step # t.step \/ t.phase # "forward"
      BY <3>1 DEF AccountInv, CallInv, ForwardCall
    <3>3. u.step \in Steps
      BY <3>1 DEF TypeInv, LooseTypeOK, Future
    <3>4. effects'["forward"][u.step] = effects["forward"][u.step]
      BY <1>5, <3>2, <3>3 DEF Phases
    <3> QED
      BY <1>3, <3>1, <3>2, <3>4 DEF AccountInv, CallInv, ForwardCall
  <2> QED
    BY <2>2, <2>3
<1>9. CompensationCall'
  <2>1. t.phase = "compensation" /\ t.step \in Effectful /\ w.out \in {"effect", "noop"} =>
           effects'["compensation"][t.step] > 0
    <3> SUFFICES ASSUME t.phase = "compensation", t.step \in Effectful,
                        w.out \in {"effect", "noop"}
                 PROVE  effects'["compensation"][t.step] > 0
      OBVIOUS
    <3>1. CASE Ends(t, w)
      BY <3>1 DEF Ends, AccountInv, CallInv, CompensationCall
    <3>2. CASE Lands(t, w) /\ Replay(t.phase, t.step)
      BY <3>2 DEF Lands, Replay
    <3>3. CASE Lands(t, w) /\ ~Replay(t.phase, t.step)
      BY <1>4, <3>3 DEF Lands
    <3> QED
      BY <1>3, <3>1, <3>2, <3>3
  <2> SUFFICES ASSUME NEW u \in threads', u.phase = "compensation", u.step \in Effectful,
                      u.out \in {"effect", "noop"}
               PROVE  effects'["compensation"][u.step] > 0
    BY DEF CompensationCall
  <2>2. CASE u = w
    BY <1>3, <2>1, <2>2
  <2>3. CASE u # w
    <3>1. u \in threads /\ u.step \in Steps
      BY <1>3, <2>3 DEF TypeInv, LooseTypeOK, Future
    <3>2. effects["compensation"][u.step] > 0
      BY <3>1 DEF AccountInv, CallInv, CompensationCall
    <3> QED
      BY <1>4, <1>5, <3>1, <3>2 DEF Phases
  <2> QED
    BY <2>2, <2>3
<1>10. \A s \in Steps : step[s] \notin {"running", "result_unknown"} =>
          effects'["forward"][s] = effects["forward"][s]
  BY <1>5, NoForwardCall DEF AccountInv, CallInv, Phases
<1>11. NoEffectYet' /\ EffectKnown'
  BY <1>1, <1>10 DEF AccountInv, RecordInv, NoEffectYet, EffectKnown, Reported
<1>12. UndoneInv'
  <2> SUFFICES ASSUME NEW s \in Steps
               PROVE  /\ effects'["forward"][s] > 0 => s \in Effectful
                      /\ s \in Effectful /\ Compensated(attempts["compensation"], s) =>
                            effects'["compensation"][s] > 0
    BY <1>1 DEF UndoneInv, Compensated
  <2>1. effects'["forward"][s] > 0 => s \in Effectful
    BY <1>3, <1>5 DEF Lands, Ends, AccountInv, RecordInv, UndoneInv, Phases
  <2>2. s \in Effectful /\ Compensated(attempts["compensation"], s) =>
           effects'["compensation"][s] > 0
    BY <1>4, <1>5 DEF AccountInv, RecordInv, UndoneInv, Phases
  <2> QED
    BY <2>1, <2>2
<1> QED
  BY <1>6, <1>7, <1>8, <1>9, <1>11, <1>12 DEF AccountInv, CallInv, RecordInv

\* What is on record of a step changes only with the attempt that is completed.
LEMMA CompletedOnRecord ==
    ASSUME NEW p \in Phases, NEW s \in Steps, NEW n, Completed(p, s, n), NEW u \in Steps
    PROVE  /\ p = "compensation" \/ u # s => (Reported(u)' <=> Reported(u))
           /\ p = "forward" \/ u # s =>
                 (Compensated(attempts'["compensation"], u)
                     <=> Compensated(attempts["compensation"], u))
BY DEF Completed, Reported, Compensated, Phases

\* What one attempt more leaves on record.
LEMMA AddedOnRecord ==
    ASSUME NEW p \in Phases, NEW s \in Steps, NEW a, Added(p, s, a), ~Succeeded(a),
           NEW u \in Steps
    PROVE  /\ Reported(u) => Reported(u)'
           /\ Compensated(attempts'["compensation"], u)
                 => Compensated(attempts["compensation"], u)
<1>1. CASE p = "compensation"
  <2>1. Reported(u) => Reported(u)'
    BY <1>1 DEF Added, Reported, Phases
  <2>2. Compensated(attempts'["compensation"], u) => Compensated(attempts["compensation"], u)
    <3>1. CASE u # s
      BY <1>1, <3>1 DEF Added, Compensated, Phases
    <3>2. CASE u = s
      <4> DEFINE old == attempts["compensation"][s]
                 new == attempts'["compensation"][s]
      <4>1. /\ Len(old) \in Nat /\ DOMAIN old = 1..Len(old) /\ DOMAIN new = 1..(Len(old) + 1)
            /\ new[Len(old) + 1] = a
            /\ \A n \in DOMAIN old : new[n] = old[n]
        BY <1>1 DEF Added
      <4> HIDE DEF old, new
      <4>2. \A n \in DOMAIN new : Succeeded(new[n]) => n \in DOMAIN old /\ Succeeded(old[n])
        BY <4>1
      <4> QED
        BY <3>2, <4>2 DEF Compensated, old, new
    <3> QED
      BY <3>1, <3>2
  <2> QED
    BY <2>1, <2>2
<1>2. CASE p = "forward"
  <2>1. Compensated(attempts'["compensation"], u) => Compensated(attempts["compensation"], u)
    BY <1>2 DEF Added, Compensated, Phases
  <2>2. Reported(u) => Reported(u)'
    <3>1. CASE u # s
      BY <1>2, <3>1 DEF Added, Reported, Phases
    <3>2. CASE u = s
      <4> DEFINE old == attempts["forward"][s]
                 new == attempts'["forward"][s]
      <4>1. /\ Len(old) \in Nat /\ DOMAIN old = 1..Len(old) /\ DOMAIN new = 1..(Len(old) + 1)
            /\ \A n \in DOMAIN old : new[n] = old[n]
        BY <1>2 DEF Added
      <4> HIDE DEF old, new
      <4>2. \A n \in DOMAIN old : n \in DOMAIN new /\ new[n] = old[n]
        BY <4>1
      <4> QED
        BY <3>2, <4>2 DEF Reported, old, new
    <3> QED
      BY <3>1, <3>2
  <2> QED
    BY <2>1, <2>2
<1> QED
  BY <1>1, <1>2 DEF Phases

\* Calls that are let go or change hands, and steps that wait for none.
LEMMA KeptAccounts ==
    ASSUME CallInv, Kept, effects' = effects, pc' = "recover" => threads' = {},
           \A u \in Steps : step'[u] # step[u] =>
              \A t \in threads' : ~(t.phase = "forward" /\ t.step = u),
           \A t \in threads : t.step \in Steps
    PROVE  CallInv'
<1>1. OpenInv' /\ NoLateCall'
  BY DEF CallInv, OpenInv, NoLateCall, Kept, SameCall
<1>2. CompensationCall'
  BY DEF CallInv, CompensationCall, Kept, SameCall
<1>3. ForwardCall'
  <2> SUFFICES ASSUME NEW u \in threads', u.phase = "forward"
               PROVE  /\ step'[u.step] \in {"running", "result_unknown"}
                      /\ u.out \notin {"effect", "result_unknown"} =>
                            effects["forward"][u.step] = 0
                      /\ \A v \in threads' : v.phase = "forward" /\ v.step = u.step => v = u
    BY DEF ForwardCall
  <2>1. PICK t \in threads : SameCall(t, u)
    BY DEF Kept
  <2>2. step'[u.step] = step[u.step]
    BY <2>1 DEF SameCall
  <2>3. \A v \in threads' : v.phase = "forward" /\ v.step = u.step => v = u
    BY DEF Kept, SameCall, CallInv, ForwardCall
  <2> QED
    BY <2>1, <2>2, <2>3 DEF SameCall, CallInv, ForwardCall
<1> QED
  BY <1>1, <1>2, <1>3 DEF CallInv

\* An outcome is persisted.
LEMMA PersistsKeepAccounts ==
    ASSUME TypeInv, DatabaseInv, OwnedInv, AccountInv, Persists
    PROVE  AccountInv'
<1>1. PICK t \in threads : Collect(t) \/ Expire(t) \/ CloseOutcome(t)
  BY DEF Persists
<1>2. PICK out \in Outcomes \cup {"none"} :
         /\ PersistOutcome(t, out) /\ t.hold = "owned" /\ effects' = effects /\ Kept
         /\ \/ /\ threads' = threads \ {t}
               /\ \/ t.stage = "done" /\ out = t.out
                  \/ t.stage = "open" /\ out = "retryable"
            \/ /\ threads' = (threads \ {t}) \cup {[t EXCEPT !.hold = "persisted"]}
               /\ out = "result_unknown"
  BY <1>1, OutcomeOfCall
<1>3. /\ Completed(t.phase, t.step, t.no)
      /\ attempts'[t.phase][t.step][t.no] = AttemptAfter(out)
      /\ t.phase = "forward" => PersistForward(t.step, t.no, out)
      /\ t.phase = "compensation" => PersistCompensation(t.step, t.no, out)
  BY <1>2, PersistCompletes
<1>4. /\ \A u \in threads : u.step \in Steps
      /\ t.step \in Steps /\ t.phase \in Phases
      /\ pc' # "recover"
  BY <1>1 DEF TypeInv, LooseTypeOK, Future, Collect, Expire, CloseOutcome
<1>5. ASSUME t.phase = "forward"
      PROVE  /\ step' = [step EXCEPT ![t.step] = NextStepState(t.step, t.no, out)]
             /\ step[t.step] = "running"
             /\ out \notin {"effect", "result_unknown"} => effects["forward"][t.step] = 0
  BY <1>2, <1>3, <1>5, OwnedSteps
     DEF PersistForward, AccountInv, CallInv, OpenInv, ForwardCall
<1>6. CallInv'
  <2>1. ASSUME t.phase = "forward", threads' = threads \ {t}
        PROVE  \A u \in threads' : ~(u.phase = "forward" /\ u.step = t.step)
    BY <2>1 DEF AccountInv, CallInv, ForwardCall
  <2>2. CASE t.phase = "forward" /\ threads' = threads \ {t}
    BY <1>2, <1>4, <1>5, <2>1, <2>2, KeptAccounts DEF AccountInv, TypeInv, LooseTypeOK
  <2>3. CASE t.phase = "compensation"
    BY <1>2, <1>3, <1>4, <2>3, KeptAccounts DEF PersistCompensation, AccountInv
  <2>4. CASE t.phase = "forward" /\ out = "result_unknown"
    <3>1. /\ step'[t.step] = "result_unknown"
          /\ \A u \in Steps \ {t.step} : step'[u] = step[u]
      BY <1>4, <1>5, <2>4 DEF NextStepState, TypeInv, LooseTypeOK
    <3>2. OpenInv' /\ NoLateCall' /\ CompensationCall'
      BY <1>2, <1>4 DEF AccountInv, CallInv, OpenInv, NoLateCall, CompensationCall,
         Kept, SameCall
    <3>3. ForwardCall'
      <4> SUFFICES ASSUME NEW u \in threads', u.phase = "forward"
                   PROVE  /\ step'[u.step] \in {"running", "result_unknown"}
                          /\ u.out \notin {"effect", "result_unknown"} =>
                                effects["forward"][u.step] = 0
                          /\ \A v \in threads' :
                                v.phase = "forward" /\ v.step = u.step => v = u
        BY <1>2 DEF ForwardCall
      <4>1. PICK w \in threads : SameCall(w, u)
        BY <1>2 DEF Kept
      <4>2. step'[u.step] \in {step[u.step], "result_unknown"}
        BY <1>4, <3>1, <4>1 DEF SameCall
      <4>3. \A v \in threads' : v.phase = "forward" /\ v.step = u.step => v = u
        BY <1>2 DEF Kept, SameCall, AccountInv, CallInv, ForwardCall
      <4> QED
        BY <4>1, <4>2, <4>3 DEF SameCall, AccountInv, CallInv, ForwardCall
    <3> QED
      BY <3>2, <3>3 DEF CallInv
  <2> QED
    BY <1>2, <1>4, <2>2, <2>3, <2>4 DEF Phases
<1>7. NoEffectYet' /\ EffectKnown'
  <2> SUFFICES ASSUME NEW s \in Steps
               PROVE  /\ step'[s] \in {"pending", "ready", "retry_wait", "failed"} =>
                            effects["forward"][s] = 0
                      /\ step'[s] = "succeeded" /\ effects["forward"][s] > 0 => Reported(s)'
    BY <1>2 DEF NoEffectYet, EffectKnown
  <2>1. CASE t.phase = "compensation"
    BY <1>3, <1>4, <2>1, CompletedOnRecord
       DEF PersistCompensation, AccountInv, RecordInv, NoEffectYet, EffectKnown
  <2>2. CASE t.phase = "forward" /\ s # t.step
    BY <1>3, <1>4, <1>5, <2>2, CompletedOnRecord
       DEF AccountInv, RecordInv, NoEffectYet, EffectKnown, TypeInv, LooseTypeOK
  <2>3. CASE t.phase = "forward" /\ s = t.step
    <3>1. step'[s] = NextStepState(t.step, t.no, out)
      BY <1>5, <2>3 DEF TypeInv, LooseTypeOK
    <3>2. out = "effect" => Reported(s)'
      <4>1. t.no \in DOMAIN attempts'["forward"][s]
        BY <1>3, <2>3 DEF Completed, Phases
      <4> DEFINE a == AttemptAfter("effect")
      <4>2. Succeeded(a) /\ a.effect
        BY DEF AttemptAfter, Failures, Succeeded
      <4> HIDE DEF a
      <4>3. out = "effect" => attempts'["forward"][s][t.no] = a
        BY <1>3, <2>3 DEF a
      <4> QED
        BY <4>1, <4>2, <4>3 DEF Reported
    <3>3. out = "effect" => step'[s] = "succeeded"
      BY <3>1 DEF NextStepState
    <3>4. out = "result_unknown" => step'[s] = "result_unknown"
      BY <3>1 DEF NextStepState
    <3> QED
      BY <1>5, <2>3, <3>2, <3>3, <3>4
  <2> QED
    BY <1>4, <2>1, <2>2, <2>3 DEF Phases
<1>8. UndoneInv'
  <2> SUFFICES ASSUME NEW s \in Steps, s \in Effectful,
                      Compensated(attempts'["compensation"], s)
               PROVE  effects["compensation"][s] > 0
    BY <1>2 DEF UndoneInv, AccountInv, RecordInv
  <2>1. CASE Compensated(attempts["compensation"], s)
    BY <2>1 DEF AccountInv, RecordInv, UndoneInv
  <2>2. CASE ~Compensated(attempts["compensation"], s)
    <3>1. t.phase = "compensation" /\ s = t.step
      BY <1>3, <1>4, <2>2, CompletedOnRecord DEF Phases
    <3>2. PICK n \in DOMAIN attempts'["compensation"][s] :
             Succeeded(attempts'["compensation"][s][n])
      BY DEF Compensated
    <3>3. n = t.no
      BY <1>3, <2>2, <3>1, <3>2 DEF Completed, Compensated, Phases
    <3>4. out \notin Failures
      BY <1>3, <3>1, <3>2, <3>3 DEF Succeeded, AttemptAfter
    <3>5. t.out \in {"effect", "noop"}
      BY <1>2, <3>4 DEF Failures, Outcomes, AccountInv, CallInv, OpenInv
    <3> QED
      BY <3>1, <3>5 DEF AccountInv, CallInv, CompensationCall
  <2> QED
    BY <2>1, <2>2
<1> QED
  BY <1>6, <1>7, <1>8 DEF AccountInv, RecordInv

\* An attempt is started: its step had no effect and waits for no other call.
LEMMA StartsKeepAccounts ==
    ASSUME TypeInv, AccountInv, Starts
    PROVE  AccountInv'
<1>1. PICK s \in Steps : StartAttempt(s) \/ SubmissionFails(s)
  BY DEF Starts
<1>2. /\ step[s] = "ready" /\ effects' = effects /\ pc' = pc /\ pc = "start"
      /\ \A u \in Steps \ {s} : step'[u] = step[u]
      /\ step'[s] \in {"running", "retry_wait", "failed"}
      /\ StartAttempt(s) => step'[s] = "running"
  BY <1>1 DEF StartAttempt, SubmissionFails, StepCan, StepTransitions, StepStates,
     NextStepState, TypeInv, LooseTypeOK
<1>3. /\ \A t \in threads : t.step \in Steps
      /\ \A t \in threads : ~(t.phase = "forward" /\ t.step = s)
      /\ effects["forward"][s] = 0
  BY <1>2, NoForwardCall DEF AccountInv, CallInv, RecordInv, NoEffectYet, TypeInv, LooseTypeOK, Future
<1>4. CallInv'
  <2>1. CASE SubmissionFails(s)
    <3>1. threads' = threads
      BY <2>1 DEF SubmissionFails
    <3>2. Kept
      BY <3>1 DEF Kept, SameCall
    <3> QED
      BY <1>2, <1>3, <3>1, <3>2, KeptAccounts DEF AccountInv
  <2>2. CASE StartAttempt(s)
    <3> DEFINE w == NewThread(s, "forward")
    <3>1. /\ threads' = threads \cup {w}
          /\ w.step = s /\ w.phase = "forward" /\ w.stage = "open" /\ w.out = "none"
      BY <2>2 DEF StartAttempt, NewThread
    <3> HIDE DEF w
    <3>2. OpenInv' /\ NoLateCall' /\ CompensationCall'
      BY <1>2, <3>1 DEF AccountInv, CallInv, OpenInv, NoLateCall, CompensationCall
    <3>3. ForwardCall'
      <4> SUFFICES ASSUME NEW u \in threads', u.phase = "forward"
                   PROVE  /\ step'[u.step] \in {"running", "result_unknown"}
                          /\ u.out \notin {"effect", "result_unknown"} =>
                                effects["forward"][u.step] = 0
                          /\ \A v \in threads' :
                                v.phase = "forward" /\ v.step = u.step => v = u
        BY <1>2 DEF ForwardCall
      <4>1. CASE u = w
        BY <1>2, <1>3, <2>2, <3>1, <4>1
      <4>2. CASE u \in threads
        BY <1>2, <1>3, <3>1, <4>2 DEF AccountInv, CallInv, ForwardCall
      <4> QED
        BY <3>1, <4>1, <4>2
    <3> QED
      BY <3>2, <3>3 DEF CallInv
  <2> QED
    BY <1>1, <2>1, <2>2
<1>5. \A u \in Steps : /\ Reported(u) => Reported(u)'
                       /\ Compensated(attempts'["compensation"], u)
                             => Compensated(attempts["compensation"], u)
  <2>1. PICK a \in Attempt :
           /\ attempts' = [attempts EXCEPT !["forward"][s] = Append(@, a)]
           /\ ~Succeeded(a)
    <3>1. RunningAttempt \in Attempt /\ ~Succeeded(RunningAttempt)
      BY DEF RunningAttempt, Attempt, Succeeded
    <3>2. AttemptAfter("retryable") \in Attempt /\ ~Succeeded(AttemptAfter("retryable"))
      BY AttemptAfterType DEF Outcomes, Failures, AttemptAfter, Succeeded
    <3> QED
      BY <1>1, <3>1, <3>2 DEF StartAttempt, SubmissionFails
  <2>2. Added("forward", s, a)
    BY <2>1, AppendAdds DEF TypeInv, LooseTypeOK, Phases
  <2> QED
    BY <2>1, <2>2, AddedOnRecord DEF Phases
<1>6. NoEffectYet' /\ EffectKnown' /\ UndoneInv'
  BY <1>2, <1>3, <1>5 DEF AccountInv, RecordInv, NoEffectYet, EffectKnown, UndoneInv
<1> QED
  BY <1>4, <1>6 DEF AccountInv, RecordInv

\* A compensation is started.
LEMMA CompensatesKeepAccounts ==
    ASSUME TypeInv, AccountInv, Compensates
    PROVE  AccountInv'
<1>1. PICK s \in Steps : StartCompensation(s) \/ CompensationSubmissionFails(s)
  BY DEF Compensates
<1>2. UNCHANGED <<step, effects, pc>> /\ pc = "idle"
  BY <1>1 DEF StartCompensation, CompensationSubmissionFails, Compensating
<1>3. CallInv'
  <2>1. CASE CompensationSubmissionFails(s)
    BY <1>2, <2>1 DEF CompensationSubmissionFails, AccountInv, CallInv, OpenInv, NoLateCall,
       ForwardCall, CompensationCall
  <2>2. CASE StartCompensation(s)
    <3> DEFINE w == NewThread(s, "compensation")
    <3>1. /\ threads' = threads \cup {w}
          /\ w.phase = "compensation" /\ w.stage = "open" /\ w.out = "none"
      BY <2>2 DEF StartCompensation, NewThread
    <3> HIDE DEF w
    <3> QED
      BY <1>2, <3>1 DEF AccountInv, CallInv, OpenInv, NoLateCall, ForwardCall, CompensationCall
  <2> QED
    BY <1>1, <2>1, <2>2
<1>4. \A u \in Steps : /\ Reported(u) => Reported(u)'
                       /\ Compensated(attempts'["compensation"], u)
                             => Compensated(attempts["compensation"], u)
  <2>1. PICK a \in Attempt :
           /\ attempts' = [attempts EXCEPT !["compensation"][s] = Append(@, a)]
           /\ ~Succeeded(a)
    <3>1. RunningAttempt \in Attempt /\ ~Succeeded(RunningAttempt)
      BY DEF RunningAttempt, Attempt, Succeeded
    <3>2. AttemptAfter("permanent") \in Attempt /\ ~Succeeded(AttemptAfter("permanent"))
      BY AttemptAfterType DEF Outcomes, Failures, AttemptAfter, Succeeded
    <3> QED
      BY <1>1, <3>1, <3>2 DEF StartCompensation, CompensationSubmissionFails
  <2>2. Added("compensation", s, a)
    BY <2>1, AppendAdds DEF TypeInv, LooseTypeOK, Phases
  <2> QED
    BY <2>1, <2>2, AddedOnRecord DEF Phases
<1>5. NoEffectYet' /\ EffectKnown' /\ UndoneInv'
  BY <1>2, <1>4 DEF AccountInv, RecordInv, NoEffectYet, EffectKnown, UndoneInv
<1> QED
  BY <1>3, <1>5 DEF AccountInv, RecordInv

\* Recovery takes an effect for applied only if there is one, and for not
\* applied only if there is none.
LEMMA ResolvesKeepAccounts ==
    ASSUME TypeInv, TypeInv', QueueInv, AttemptInv, AccountInv, Resolves
    PROVE  AccountInv'
<1>1. PICK r \in rq : RecoverApplied(r) \/ RecoverNotApplied(r) \/ RecoverManually(r)
  BY DEF Resolves
<1>2. /\ r.step \in Steps /\ r.phase \in Phases
      /\ pc = "recover" /\ pc' = pc /\ threads' = threads
      /\ Completed(r.phase, r.step, r.no)
      /\ r.phase = "forward" =>
            \E q \in {"succeeded", "ready", "manual_intervention"} :
                  step' = [step EXCEPT ![r.step] = q]
      /\ r.phase = "compensation" => step' = step
  BY <1>1, RecoverCompletes
<1>3. effects' = effects /\ threads = {} /\ threads' = {}
  BY <1>1, <1>2 DEF RecoverApplied, RecoverNotApplied, RecoverManually,
     AccountInv, CallInv, NoLateCall
<1>4. CallInv'
  BY <1>3 DEF CallInv, OpenInv, NoLateCall, ForwardCall, CompensationCall
<1> DEFINE a == attempts'[r.phase][r.step][r.no]
<1>5. /\ r.no \in DOMAIN attempts'[r.phase][r.step]
      /\ RecoverApplied(r) => /\ Succeeded(a) /\ a.effect
                              /\ effects[r.phase][r.step] > 0
      /\ ~RecoverApplied(r) => ~Succeeded(a)
      /\ RecoverNotApplied(r) => ~(effects[r.phase][r.step] > 0)
  <2>1. r.no \in DOMAIN attempts'[r.phase][r.step] /\ r.no \in DOMAIN attempts[r.phase][r.step]
    BY <1>2 DEF Completed
  <2>2. ASSUME NEW status, NEW effect, NEW err, Resolve(r, status, effect, err)
        PROVE  a = [status |-> status, effect |-> effect, err |-> err]
    BY <1>2, <2>1, <2>2 DEF Resolve, TypeInv, LooseTypeOK
  <2> HIDE DEF a
  <2>3. CASE RecoverApplied(r)
    <3>1. a = [status |-> "succeeded", effect |-> TRUE, err |-> "none"]
      <4>1. Resolve(r, "succeeded", TRUE, "none")
        BY <2>3 DEF RecoverApplied
      <4> QED
        BY <2>2, <4>1
    <3>2. Succeeded(a) /\ a.effect
      BY <3>1 DEF Succeeded
    <3>3. effects[r.phase][r.step] > 0
      BY <2>3 DEF RecoverApplied, Decisions
    <3>4. ~RecoverNotApplied(r)
      BY <2>3, <3>3 DEF RecoverNotApplied, Decisions
    <3> QED
      BY <2>1, <2>3, <3>2, <3>3, <3>4
  <2>4. CASE RecoverNotApplied(r)
    <3> DEFINE old == attempts[r.phase][r.step][r.no]
    <3>1. a = [status |-> "not_applied", effect |-> old.effect, err |-> old.err]
      BY <2>2, <2>4 DEF RecoverNotApplied
    <3>2. ~Succeeded(a)
      BY <3>1 DEF Succeeded
    <3>3. ~(effects[r.phase][r.step] > 0)
      BY <2>4 DEF RecoverNotApplied, Decisions
    <3>4. ~RecoverApplied(r)
      BY <2>4, <3>3 DEF RecoverApplied, Decisions
    <3> QED
      BY <2>1, <3>2, <3>3, <3>4
  <2>5. CASE RecoverManually(r) /\ ~RecoverApplied(r) /\ ~RecoverNotApplied(r)
    <3> DEFINE old == attempts[r.phase][r.step][r.no]
    <3>1. a = [status |-> "manual_intervention", effect |-> old.effect, err |-> old.err]
      BY <2>2, <2>5 DEF RecoverManually
    <3>2. ~Succeeded(a)
      BY <3>1 DEF Succeeded
    <3> QED
      BY <2>1, <2>5, <3>2
  <2> QED
    BY <1>1, <2>3, <2>4, <2>5
<1> HIDE DEF a
<1>6. NoEffectYet' /\ EffectKnown'
  <2> SUFFICES ASSUME NEW s \in Steps
               PROVE  /\ step'[s] \in {"pending", "ready", "retry_wait", "failed"} =>
                            effects["forward"][s] = 0
                      /\ step'[s] = "succeeded" /\ effects["forward"][s] > 0 => Reported(s)'
    BY <1>3 DEF NoEffectYet, EffectKnown
  <2>1. CASE r.phase = "compensation"
    BY <1>2, <2>1, CompletedOnRecord DEF AccountInv, RecordInv, NoEffectYet, EffectKnown
  <2>2. CASE r.phase = "forward" /\ s # r.step
    <3>1. step'[s] = step[s]
      BY <1>2, <2>2 DEF TypeInv, LooseTypeOK
    <3> QED
      BY <1>2, <2>2, <3>1, CompletedOnRecord DEF AccountInv, RecordInv, NoEffectYet, EffectKnown
  <2>3. CASE r.phase = "forward" /\ s = r.step
    <3>1. CASE RecoverApplied(r)
      <4>1. step'[s] = "succeeded"
        BY <2>3, <3>1 DEF RecoverApplied, StepAfterRecovery, TypeInv, LooseTypeOK
      <4>2. Reported(s)'
        BY <1>5, <2>3, <3>1 DEF Reported, a
      <4> QED
        BY <4>1, <4>2
    <3>2. CASE RecoverNotApplied(r)
      <4>1. step'[s] = "ready"
        BY <2>3, <3>2 DEF RecoverNotApplied, StepAfterRecovery, TypeInv, LooseTypeOK
      <4>2. effects["forward"][s] \in Nat
        BY DEF TypeInv, LooseTypeOK, Phases
      <4> QED
        BY <1>5, <2>3, <3>2, <4>1, <4>2
    <3>3. CASE RecoverManually(r)
      <4>1. step'[s] = "manual_intervention"
        BY <2>3, <3>3 DEF RecoverManually, StepAfterRecovery, TypeInv, LooseTypeOK
      <4> QED
        BY <4>1
    <3> QED
      BY <1>1, <3>1, <3>2, <3>3
  <2> QED
    BY <1>2, <2>1, <2>2, <2>3 DEF Phases
<1>7. UndoneInv'
  <2> SUFFICES ASSUME NEW s \in Steps, s \in Effectful,
                      Compensated(attempts'["compensation"], s)
               PROVE  effects["compensation"][s] > 0
    BY <1>3 DEF UndoneInv, AccountInv, RecordInv
  <2>1. CASE Compensated(attempts["compensation"], s)
    BY <2>1 DEF AccountInv, RecordInv, UndoneInv
  <2>2. CASE ~Compensated(attempts["compensation"], s)
    <3>1. r.phase = "compensation" /\ s = r.step
      BY <1>2, <2>2, CompletedOnRecord DEF Phases
    <3>2. PICK n \in DOMAIN attempts'["compensation"][s] :
             Succeeded(attempts'["compensation"][s][n])
      BY DEF Compensated
    <3>3. n = r.no
      BY <1>2, <2>2, <3>1, <3>2 DEF Completed, Compensated, Phases
    <3>4. RecoverApplied(r)
      BY <1>5, <3>1, <3>2, <3>3 DEF a
    <3> QED
      BY <1>5, <3>1, <3>4
  <2> QED
    BY <2>1, <2>2
<1> QED
  BY <1>4, <1>6, <1>7 DEF AccountInv, RecordInv

LEMMA NextAccounts ==
    ASSUME LateEffects = FALSE, RuntimeInv, RuntimeInv', EffectInv, AccountInv, [Next]_vars
    PROVE  AccountInv'
<1> USE DEF database
<1>0. /\ TypeInv /\ TypeInv' /\ QueueInv /\ AttemptInv /\ DatabaseInv /\ OwnedInv
      /\ LandedInv /\ ProcessInv'
      /\ \A t \in threads : t.step \in Steps
  BY AttemptInvParts DEF RuntimeInv, AttemptInv, EffectInv, TypeInv, LooseTypeOK, Future
<1>1. ASSUME UNCHANGED <<step, attempts, effects>>, Kept, pc' = "recover" => threads' = {}
      PROVE  AccountInv'
  <2>1. CallInv'
    BY <1>0, <1>1, KeptAccounts DEF AccountInv
  <2>2. RecordInv'
    BY <1>1 DEF AccountInv, RecordInv, NoEffectYet, EffectKnown, UndoneInv, Reported
  <2> QED
    BY <2>1, <2>2 DEF AccountInv
<1>2. ASSUME UNCHANGED <<step, attempts, effects, threads>>, pc' = "recover" => threads = {}
      PROVE  AccountInv'
  <2>1. Kept
    BY <1>2 DEF Kept, SameCall
  <2> QED
    BY <1>1, <1>2, <2>1
<1>3. CASE UNCHANGED vars
  BY <1>2, <1>3 DEF vars, AccountInv, CallInv, NoLateCall
<1>4. CASE Tools
  BY <1>0, <1>4, ToolsKeepAccounts
<1>5. CASE RunOnce
  <2>1. ASSUME \/ SelectUnprotected \/ BarrierBlocks \/ EndBatch \/ Establishes
               \/ \E s \in Steps : SelectApproved(s)
        PROVE  UNCHANGED <<step, attempts, effects, threads>> /\ pc' # "recover"
    BY <2>1 DEF SelectUnprotected, BarrierBlocks, EndBatch, SelectApproved, Establishes,
         EstablishApprovalBarrier
  <2>2. CASE Promotes
    <3>1. /\ UNCHANGED <<attempts, effects, threads>> /\ pc' # "recover"
          /\ \A u \in Steps : step'[u] # step[u] =>
                step[u] \in {"pending", "ready", "retry_wait"} /\ step'[u] = "ready"
      BY <2>2 DEF Promotes, PromoteDependencyReadySteps, PromoteDueRetries, ReadySteps,
           TypeInv, LooseTypeOK
    <3>2. Kept
      BY <3>1 DEF Kept, SameCall
    <3>3. \A u \in Steps : step'[u] # step[u] =>
             \A t \in threads' : ~(t.phase = "forward" /\ t.step = u)
      BY <3>1, NoForwardCall DEF AccountInv, CallInv
    <3>4. CallInv'
      BY <1>0, <3>1, <3>2, <3>3, KeptAccounts DEF AccountInv
    <3>5. NoEffectYet' /\ EffectKnown' /\ UndoneInv'
      BY <3>1 DEF AccountInv, RecordInv, NoEffectYet, EffectKnown, UndoneInv, Reported
    <3> QED
      BY <3>4, <3>5 DEF AccountInv, RecordInv
  <2> QED
    BY <1>0, <1>2, <1>5, <2>1, <2>2, PersistsKeepAccounts, StartsKeepAccounts,
       CompensatesKeepAccounts DEF RunOnce, Persists, Establishes, Starts, Compensates, Promotes
<1>6. CASE Operators
  BY <1>2, <1>6 DEF Operators, Decide, CancelRun, AccountInv, CallInv, NoLateCall
<1>7. CASE Recovery
  <2>1. ASSUME FinishRecovery \/ \E r \in rq : RecoveryRaises(r)
        PROVE  UNCHANGED <<step, attempts, effects, threads>> /\ pc' # "recover"
    BY <2>1 DEF FinishRecovery, RecoveryRaises
  <2>2. ASSUME StartRecovery
        PROVE  UNCHANGED <<step, attempts, effects, threads>> /\ threads = {}
    BY <1>0, <2>2 DEF StartRecovery, Owned, ProcessInv
  <2> QED
    BY <1>0, <1>2, <1>7, <2>1, <2>2, ResolvesKeepAccounts DEF Recovery, Resolves
<1>8. CASE Process
  <2>1. ASSUME CloseWaiting \/ BeginClose \/ Restart
        PROVE  UNCHANGED <<step, attempts, effects, threads>> /\ pc' # "recover"
    BY <2>1 DEF CloseWaiting, BeginClose, Restart
  <2>2. ASSUME FinishClose \/ StartDriverAgain \/ Crash
        PROVE  AccountInv'
    <3>1. UNCHANGED <<step, attempts, effects>> /\ pc' # "recover"
      BY <2>2 DEF FinishClose, StartDriverAgain, Crash
    <3>2. threads' \subseteq {} \cup {[t EXCEPT !.hold = "orphan"] : t \in threads \ {}}
      BY <2>2 DEF FinishClose, StartDriverAgain, Crash
    <3>3. Kept
      BY <1>0, <3>2, HoldKept
    <3> QED
      BY <1>1, <3>1, <3>3
  <2> QED
    BY <1>0, <1>2, <1>8, <2>1, <2>2, PersistsKeepAccounts DEF Process, Persists
<1> QED
  BY <1>3, <1>4, <1>5, <1>6, <1>7, <1>8 DEF Next, RunTerminal

LEMMA AccountInvAlways ==
    ASSUME RecoveryAlone, LateEffects = FALSE
    PROVE  Spec => []AccountInv
<1>1. Init => AccountInv
  BY DEF Init, AccountInv, CallInv, RecordInv, OpenInv, NoLateCall, ForwardCall,
     CompensationCall, NoEffectYet, EffectKnown, UndoneInv, Compensated, Phases
<1>2. RuntimeInv /\ RuntimeInv' /\ EffectInv /\ AccountInv /\ [Next]_vars => AccountInv'
  BY NextAccounts
<1> QED
  BY <1>1, <1>2, SpecIsAny, RuntimeInvAlways, EffectInvAlways, PTL DEF Spec

-----------------------------------------------------------------------------
(* The order of compensation.  compensation_order is a recursive function  *)
(* on sets of steps; what it computes is shown by induction on their size, *)
(* which WFMin on the natural numbers gives for a set of numbers.          *)

\* A nonempty set of numbers has a least one.
LEMMA LeastNumber ==
    ASSUME NEW S \in SUBSET Nat, S # {}
    PROVE  Min(S) \in S /\ \A x \in S : Min(S) <= x
<1>1. S \subseteq Nat
  OBVIOUS
<1>2. \E m \in S : \A n \in S : ~(<<n, m>> \in OpToRel(<, Nat))
  BY <1>1, WFMin, NatLessThanWellFounded, Zenon
<1>3. \A m, n \in Nat : ~(<<n, m>> \in OpToRel(<, Nat)) => m <= n
  BY DEF OpToRel
<1>4. \E m \in S : \A n \in S : m <= n
  BY <1>1, <1>2, <1>3, Zenon
<1> QED
  BY <1>4 DEF Min

\* Induction over the natural numbers, for a set of them.
LEMMA SetInduction ==
    ASSUME NEW N, 0 \in N, \A n \in Nat : n \in N => n + 1 \in N
    PROVE  Nat \subseteq N
<1> DEFINE Rest == Nat \ N
<1> SUFFICES ASSUME Rest # {} PROVE FALSE
  OBVIOUS
<1>1. PICK m \in Rest : \A n \in Rest : m <= n
  BY LeastNumber
<1>2. m - 1 \in Nat /\ (m - 1) + 1 = m
  BY <1>1
<1> QED
  BY <1>1, <1>2

\* Among any steps there is one no other of them depends on.
LEMMA LeavesExist ==
    ASSUME NEW R \in SUBSET Steps, R # {}
    PROVE  Leaves(R) # {}
<1>1. PICK rank \in [Steps -> 1..Cardinality(Steps)] :
          \A s \in Steps : \A d \in DependsOn[s] : rank[d] < rank[s]
  BY AcyclicAssumption
<1>2. Cardinality(Steps) \in Nat
  BY StepsAssumption, FS_CardinalityType
<1> DEFINE S == {rank[s] : s \in R}
<1>3. S \in SUBSET Nat /\ S # {} /\ \A x \in S : x <= Cardinality(Steps)
  BY <1>2
<1>4. Max(S) \in S /\ \A x \in S : x <= Max(S)
  BY <1>2, <1>3, BoundedMax
<1>5. PICK s \in R : \A u \in R : rank[u] <= rank[s]
  BY <1>4
<1>6. \A u \in R : s \notin DependsOn[u]
  BY <1>1, <1>2, <1>5
<1> QED
  BY <1>5, <1>6 DEF Leaves

\* The step completed last, and of several the first by id, is one of them.
LEMMA LastOfThem ==
    ASSUME NEW sq \in [Steps -> Nat], NEW b \in Nat, \A s \in Steps : sq[s] <= b,
           NEW L \in SUBSET Steps, L # {}
    PROVE  LastCompleted(sq, L) \in L
<1> DEFINE S == {sq[s] : s \in L}
<1>1. S \in SUBSET Nat /\ S # {} /\ \A x \in S : x <= b
  OBVIOUS
<1>2. Max(S) \in S /\ \A x \in S : x <= Max(S)
  BY <1>1, BoundedMax
<1>3. PICK v \in L : \A u \in L : sq[u] <= sq[v]
  BY <1>2
<1> DEFINE T == {s \in L : sq[s] = sq[v]}
<1>4. T \in SUBSET Nat /\ T # {}
  BY <1>3, StepsAssumption
<1>5. Min(T) \in T /\ \A x \in T : Min(T) <= x
  BY <1>4, LeastNumber
<1> DEFINE s == Min(T)
<1>6. s \in L /\ sq[s] = sq[v]
  BY <1>5
<1>7. \A u \in L \ {s} : sq[s] > sq[u] \/ (sq[s] = sq[u] /\ s < u)
  <2> SUFFICES ASSUME NEW u \in L \ {s}, ~(sq[s] > sq[u])
               PROVE  sq[s] = sq[u] /\ s < u
    OBVIOUS
  <2>1. sq[u] <= sq[v] /\ sq[u] \in Nat /\ sq[v] \in Nat
    BY <1>3
  <2>2. sq[u] = sq[v]
    BY <1>6, <2>1
  <2>3. u \in T /\ u \in Nat /\ s \in Nat
    BY <1>4, <1>5, <2>2
  <2> QED
    BY <1>5, <1>6, <2>2, <2>3
<1> HIDE DEF s
<1> QED
  BY <1>6, <1>7 DEF LastCompleted

\* One turn of the loop: the next step, and then the order of the others.
OrderTurn(sq, order, R) ==
    IF R = {} THEN <<>>
    ELSE LET s == LastCompleted(sq, Leaves(R))
         IN  <<s>> \o order[R \ {s}]

\* order does what the recursion of CompensationOrder says.
IsOrder(sq, order) == order = [R \in SUBSET Steps |-> OrderTurn(sq, order, R)]

\* Every turn takes away one step.
LEMMA TurnTakesOne ==
    ASSUME NEW sq \in [Steps -> Nat], NEW b \in Nat, \A s \in Steps : sq[s] <= b,
           NEW R \in SUBSET Steps, R # {}
    PROVE  LET s == LastCompleted(sq, Leaves(R))
           IN  /\ s \in Leaves(R) /\ s \in R
               /\ R \ {s} \in SUBSET Steps
               /\ Cardinality(R) \in Nat
               /\ Cardinality(R \ {s}) = Cardinality(R) - 1
<1> DEFINE s == LastCompleted(sq, Leaves(R))
<1>1. Leaves(R) \in SUBSET Steps /\ Leaves(R) # {} /\ Leaves(R) \subseteq R
  BY LeavesExist DEF Leaves
<1>2. s \in Leaves(R)
  BY <1>1, LastOfThem
<1> HIDE DEF s
<1>3. IsFiniteSet(R)
  BY StepsAssumption, FS_Subset
<1>4. Cardinality(R) \in Nat /\ Cardinality(R \ {s}) = Cardinality(R) - 1
  BY <1>1, <1>2, <1>3, FS_CardinalityType, FS_RemoveElement
<1> QED
  BY <1>1, <1>2, <1>4 DEF s
\* order is right for the sets of at most n steps.
OrdersUpTo(sq, n, order) ==
    \A R \in SUBSET Steps : Cardinality(R) <= n => order[R] = OrderTurn(sq, order, R)

\* The recursion of CompensationOrder has a solution.
LEMMA OrderExists ==
    ASSUME NEW sq \in [Steps -> Nat], NEW b \in Nat, \A s \in Steps : sq[s] <= b
    PROVE  \E order : IsOrder(sq, order)
<1> DEFINE N == {n \in Nat : \E order : /\ order = [R \in SUBSET Steps |-> order[R]]
                                        /\ OrdersUpTo(sq, n, order)}
<1>0. \A R \in SUBSET Steps : /\ Cardinality(R) \in Nat
                              /\ Cardinality(R) <= Cardinality(Steps)
                              /\ Cardinality(R) = 0 <=> R = {}
  BY StepsAssumption, FS_Subset, FS_CardinalityType, FS_EmptySet
<1>1. 0 \in N
  <2> DEFINE order == [R \in SUBSET Steps |-> <<>>]
  <2>1. OrdersUpTo(sq, 0, order)
    BY <1>0 DEF OrdersUpTo, OrderTurn
  <2>2. order = [R \in SUBSET Steps |-> order[R]]
    OBVIOUS
  <2> HIDE DEF order
  <2> QED
    BY <2>1, <2>2
<1>2. ASSUME NEW n \in Nat, n \in N
      PROVE  n + 1 \in N
  <2>1. PICK order : OrdersUpTo(sq, n, order)
    BY <1>2
  <2> DEFINE more == [R \in SUBSET Steps |-> IF Cardinality(R) <= n THEN order[R]
                                             ELSE OrderTurn(sq, order, R)]
  <2>2. ASSUME NEW R \in SUBSET Steps, Cardinality(R) <= n + 1
        PROVE  more[R] = OrderTurn(sq, more, R)
    <3>1. more[R] = OrderTurn(sq, order, R)
      BY <2>1 DEF OrdersUpTo
    <3>2. CASE R = {}
      BY <3>1, <3>2 DEF OrderTurn
    <3>3. CASE R # {}
      <4> DEFINE s == LastCompleted(sq, Leaves(R))
      <4>1. R \ {s} \in SUBSET Steps /\ Cardinality(R \ {s}) <= n
        BY <2>2, <3>3, TurnTakesOne
      <4>2. more[R \ {s}] = order[R \ {s}]
        BY <4>1
      <4> HIDE DEF more
      <4> QED
        BY <3>1, <3>3, <4>2 DEF OrderTurn
    <3> QED
      BY <3>2, <3>3
  <2>3. more = [R \in SUBSET Steps |-> more[R]]
    OBVIOUS
  <2> HIDE DEF more
  <2>4. OrdersUpTo(sq, n + 1, more)
    BY <2>2 DEF OrdersUpTo
  <2> QED
    BY <2>3, <2>4
<1>3. Cardinality(Steps) \in N
  <2> HIDE DEF N
  <2> QED
    BY <1>1, <1>2, SetInduction, StepsAssumption, FS_CardinalityType
<1>4. PICK order : /\ order = [R \in SUBSET Steps |-> order[R]]
                   /\ OrdersUpTo(sq, Cardinality(Steps), order)
  BY <1>3
<1>5. \A R \in SUBSET Steps : order[R] = OrderTurn(sq, order, R)
  BY <1>0, <1>4 DEF OrdersUpTo
<1>6. order = [R \in SUBSET Steps |-> OrderTurn(sq, order, R)]
  BY <1>4, <1>5, Zenon
<1> QED
  BY <1>6, Zenon DEF IsOrder

(***************************************************************************)
(* What an order of the steps R promises: it lists all of them, and each   *)
(* after those of them that depend on it.                                  *)
(***************************************************************************)
DependentsFirst(list, R) ==
    /\ list \in Seq(R)
    /\ \A s \in R : \E i \in DOMAIN list : list[i] = s
    /\ \A i \in DOMAIN list : \A u \in R :
          list[i] \in DependsOn[u] => \E j \in DOMAIN list : j < i /\ list[j] = u

\* A step put before a list.
LEMMA Put ==
    ASSUME NEW R, NEW s \in R, NEW rest \in Seq(R)
    PROVE  /\ <<s>> \o rest \in Seq(R)
           /\ DOMAIN (<<s>> \o rest) = 1..(Len(rest) + 1)
           /\ (<<s>> \o rest)[1] = s
           /\ \A i \in DOMAIN rest : (<<s>> \o rest)[i + 1] = rest[i]
<1>1. /\ <<s>> \in Seq(R) /\ Len(<<s>>) = 1 /\ <<s>>[1] = s
      /\ Len(rest) \in Nat /\ DOMAIN rest = 1..Len(rest)
  OBVIOUS
<1>2. <<s>> \o rest \in Seq(R) /\ Len(<<s>> \o rest) = Len(rest) + 1
  BY <1>1
<1>3. DOMAIN (<<s>> \o rest) = 1..(Len(rest) + 1)
  BY <1>2
<1>4. (<<s>> \o rest)[1] = s
  BY <1>1
<1>5. ASSUME NEW i \in DOMAIN rest
      PROVE  (<<s>> \o rest)[i + 1] = rest[i]
  BY <1>1
<1> QED
  BY <1>2, <1>3, <1>4, <1>5

LEMMA OrderIsGood ==
    ASSUME NEW sq \in [Steps -> Nat], NEW b \in Nat, \A s \in Steps : sq[s] <= b,
           NEW order, IsOrder(sq, order)
    PROVE  \A R \in SUBSET Steps : DependentsFirst(order[R], R)
<1> DEFINE N == {n \in Nat : \A R \in SUBSET Steps :
                    Cardinality(R) <= n => DependentsFirst(order[R], R)}
<1>0. \A R \in SUBSET Steps : /\ Cardinality(R) \in Nat
                              /\ Cardinality(R) <= Cardinality(Steps)
                              /\ Cardinality(R) = 0 <=> R = {}
  BY StepsAssumption, FS_Subset, FS_CardinalityType, FS_EmptySet
<1>1. \A R \in SUBSET Steps : order[R] = OrderTurn(sq, order, R)
  BY DEF IsOrder
<1>2. 0 \in N
  <2> SUFFICES DependentsFirst(order[{}], {})
    BY <1>0
  <2>1. order[{}] = <<>>
    BY <1>1 DEF OrderTurn
  <2> QED
    BY <2>1 DEF DependentsFirst
<1>3. ASSUME NEW n \in Nat, n \in N
      PROVE  n + 1 \in N
  <2> SUFFICES ASSUME NEW R \in SUBSET Steps, Cardinality(R) <= n + 1
               PROVE  DependentsFirst(order[R], R)
    OBVIOUS
  <2>1. CASE R = {}
    BY <1>0, <1>3, <2>1
  <2>2. CASE R # {}
    <3> DEFINE s == LastCompleted(sq, Leaves(R))
               rest == order[R \ {s}]
               list == order[R]
    <3>0. /\ s \in Leaves(R) /\ s \in R
          /\ R \ {s} \in SUBSET Steps /\ Cardinality(R \ {s}) <= n
      BY <2>2, TurnTakesOne
    <3>1. \A u \in R : s \notin DependsOn[u]
      BY <3>0 DEF Leaves
    <3>2. list = <<s>> \o rest
      BY <1>1, <2>2 DEF OrderTurn
    <3>3. DependentsFirst(rest, R \ {s})
      BY <1>3, <3>0
    <3> HIDE DEF s, rest, list
    <3>4. rest \in Seq(R) /\ DOMAIN rest = 1..Len(rest) /\ Len(rest) \in Nat
      BY <3>3 DEF DependentsFirst
    <3>5. /\ list \in Seq(R)
          /\ DOMAIN list = 1..(Len(rest) + 1)
          /\ list[1] = s
          /\ \A i \in DOMAIN rest : list[i + 1] = rest[i]
      <4>1. s \in R /\ rest \in Seq(R)
        BY <3>0, <3>4
      <4> HIDE DEF N
      <4>2. /\ <<s>> \o rest \in Seq(R)
            /\ DOMAIN (<<s>> \o rest) = 1..(Len(rest) + 1)
            /\ (<<s>> \o rest)[1] = s
            /\ \A i \in DOMAIN rest : (<<s>> \o rest)[i + 1] = rest[i]
        BY <4>1, Put
      <4> QED
        BY <3>2, <4>2, Zenon
    <3>6. \A u \in R : \E i \in DOMAIN list : list[i] = u
      <4> SUFFICES ASSUME NEW u \in R PROVE \E i \in DOMAIN list : list[i] = u
        OBVIOUS
      <4>1. CASE u = s
        BY <3>4, <3>5, <4>1
      <4>2. CASE u # s
        <5>1. PICK i \in DOMAIN rest : rest[i] = u
          BY <3>3, <4>2 DEF DependentsFirst
        <5>2. i + 1 \in DOMAIN list /\ list[i + 1] = u
          BY <3>4, <3>5, <5>1
        <5> QED
          BY <5>2
      <4> QED
        BY <4>1, <4>2
    <3>7. ASSUME NEW i \in DOMAIN list, NEW u \in R, list[i] \in DependsOn[u]
          PROVE  \E j \in DOMAIN list : j < i /\ list[j] = u
      <4>1. i # 1
        BY <3>1, <3>5, <3>7
      <4>2. /\ i - 1 \in DOMAIN rest /\ (i - 1) + 1 = i /\ 1 < i
            /\ 1 \in DOMAIN list
        BY <3>4, <3>5, <4>1
      <4>3. list[i] = rest[i - 1]
        BY <3>5, <4>2
      <4>4. CASE u = s
        BY <3>5, <4>2, <4>4
      <4>5. CASE u # s
        <5>1. PICK j \in DOMAIN rest : j < i - 1 /\ rest[j] = u
          BY <3>3, <3>7, <4>2, <4>3, <4>5 DEF DependentsFirst
        <5>2. j \in 1..Len(rest) /\ i \in 1..(Len(rest) + 1)
          BY <3>4, <3>5, <3>7, <5>1
        <5>3. j + 1 \in 1..(Len(rest) + 1) /\ j + 1 < i
          BY <3>4, <5>1, <5>2
        <5>4. list[j + 1] = u
          BY <3>5, <5>1
        <5> QED
          BY <3>5, <5>3, <5>4
      <4> QED
        BY <4>4, <4>5
    <3>8. DependentsFirst(list, R)
      BY <3>5, <3>6, <3>7 DEF DependentsFirst
    <3> QED
      BY <3>8 DEF list
  <2> QED
    BY <2>1, <2>2
<1>4. Cardinality(Steps) \in N
  <2> HIDE DEF N
  <2> QED
    BY <1>2, <1>3, SetInduction, StepsAssumption, FS_CardinalityType
<1> QED
  BY <1>0, <1>4
\* compensation_order.
LEMMA CompensationOrderIsGood ==
    ASSUME TypeInv
    PROVE  DependentsFirst(CompensationOrder(step, seq, attempts["forward"]),
                           CompensableEffects(step, attempts["forward"]))
<1> DEFINE order == CHOOSE order : order = [R \in SUBSET Steps |->
                        IF R = {} THEN <<>>
                        ELSE LET s == LastCompleted(seq, Leaves(R))
                             IN  <<s>> \o order[R \ {s}]]
           S == CompensableEffects(step, attempts["forward"])
<1>1. PICK b \in Nat : seq \in [Steps -> Nat] /\ \A s \in Steps : seq[s] <= b
  BY DEF TypeInv, LooseTypeOK, SeqBounded
<1>2. \E o : IsOrder(seq, o)
  BY <1>1, OrderExists
<1>3. IsOrder(seq, order)
  BY <1>2 DEF IsOrder, OrderTurn
<1>4. CompensationOrder(step, seq, attempts["forward"]) = order[S]
  BY DEF CompensationOrder
<1>5. S \in SUBSET Steps
  BY CompensableAssumption DEF CompensableEffects
<1> HIDE DEF order, S
<1>6. DependentsFirst(order[S], S)
  BY <1>1, <1>3, <1>5, OrderIsGood
<1> QED
  BY <1>4, <1>6 DEF S

\* Whatever depends on the next step to be compensated, through effects to undo, is done.
LEMMA NextIsFree ==
    ASSUME TypeInv, PendingCompensations(step, attempts) # {}
    PROVE  \A u \in EffectDependents(NextCompensation) :
              Compensated(attempts["compensation"], u)
<1> DEFINE order == CompensationOrder(step, seq, attempts["forward"])
           S == CompensableEffects(step, attempts["forward"])
           T == {i \in DOMAIN order : ~Compensated(attempts["compensation"], order[i])}
           Earlier == {v \in S : \E i \in DOMAIN order : i < Min(T) /\ order[i] = v}
<1>1. DependentsFirst(order, S)
  BY CompensationOrderIsGood
<1>2. T \in SUBSET Nat /\ T # {}
  <2>1. PICK s \in S : ~Compensated(attempts["compensation"], s)
    BY DEF PendingCompensations
  <2> HIDE DEF order, S
  <2>2. \E i \in DOMAIN order : order[i] = s
    BY <1>1 DEF DependentsFirst
  <2>3. DOMAIN order \subseteq Nat
    BY <1>1 DEF DependentsFirst
  <2> QED
    BY <2>1, <2>2, <2>3
<1>3. NextCompensation = order[Min(T)]
  BY DEF NextCompensation
<1>4. Min(T) \in T /\ \A i \in T : Min(T) <= i
  <2> HIDE DEF T
  <2> QED
    BY <1>2, LeastNumber
<1> HIDE DEF order, S
<1>5. \A v \in S : DependsOn[v] \cap (Earlier \cup {order[Min(T)]}) # {} => v \in Earlier
  <2> SUFFICES ASSUME NEW v \in S, NEW d \in DependsOn[v],
                      d \in Earlier \cup {order[Min(T)]}
               PROVE  v \in Earlier
    OBVIOUS
  <2>1. Min(T) \in DOMAIN order /\ DOMAIN order \subseteq Nat
    BY <1>1, <1>4 DEF DependentsFirst
  <2>2. Earlier = {w \in S : \E i \in DOMAIN order : i < Min(T) /\ order[i] = w}
    OBVIOUS
  <2> HIDE DEF Earlier, T
  <2>3. PICK i \in DOMAIN order : i <= Min(T) /\ order[i] = d
    BY <2>1, <2>2
  <2>4. PICK j \in DOMAIN order : j < i /\ order[j] = v
    BY <1>1, <2>3 DEF DependentsFirst
  <2>5. j < Min(T)
    BY <2>1, <2>3, <2>4
  <2> QED
    BY <2>2, <2>4, <2>5
<1>6. \A v \in Earlier : Compensated(attempts["compensation"], v)
  <2> SUFFICES ASSUME NEW i \in DOMAIN order, i < Min(T)
               PROVE  i \notin T
    OBVIOUS
  <2>1. DOMAIN order \subseteq Nat
    BY <1>1 DEF DependentsFirst
  <2>2. i \in Nat /\ Min(T) \in Nat
    BY <1>2, <1>4, <2>1
  <2> HIDE DEF T
  <2> QED
    BY <1>4, <2>2
<1>7. EffectDependents(NextCompensation) \subseteq Earlier
  <2>1. Earlier \in SUBSET S
    OBVIOUS
  <2> HIDE DEF Earlier, T
  <2> QED
    BY <1>3, <1>5, <2>1 DEF EffectDependents, S
<1> QED
  BY <1>6, <1>7

\* Only the start of a compensation makes a step's compensations more.
LEMMA CompensationsGrow ==
    ASSUME TypeInv, TypeInv', [AnyNext]_vars, NEW s \in Steps,
           Len(attempts'["compensation"][s]) > Len(attempts["compensation"][s])
    PROVE  StartCompensation(s) \/ CompensationSubmissionFails(s)
<1> DEFINE Same == \A u \in Steps : DOMAIN attempts'["compensation"][u]
                                       = DOMAIN attempts["compensation"][u]
<1>0. /\ attempts["compensation"] \in [Steps -> Seq(Attempt)]
      /\ attempts'["compensation"] \in [Steps -> Seq(Attempt)]
  BY DEF TypeInv, LooseTypeOK, Phases
<1>1. ~Same
  <2>1. attempts'["compensation"][s] \in Seq(Attempt) /\ attempts["compensation"][s] \in Seq(Attempt)
    BY <1>0
  <2>2. Same => Len(attempts'["compensation"][s]) = Len(attempts["compensation"][s])
    BY <2>1, SameDomainSameLen
  <2> QED
    BY <2>1, <2>2
<1>2. SameNumbers => Same
  BY DEF SameNumbers, Phases
<1>3. CASE Persists
  <2>1. \E t \in threads : \E out : PersistOutcome(t, out)
    BY <1>3 DEF Persists, Collect, Expire, CloseOutcome
  <2>2. SameNumbers
    BY <2>1, PersistKeepsNumbers
  <2> QED
    BY <1>1, <1>2, <2>2
<1>4. CASE Resolves
  <2>1. PICK r \in rq : \E a : attempts' = [attempts EXCEPT ![r.phase][r.step][r.no] = a]
    BY <1>4 DEF Resolves, RecoverApplied, RecoverNotApplied, RecoverManually, Resolve
  <2>2. r.step \in Steps /\ r.phase \in Phases
    BY DEF TypeInv, LooseTypeOK, AttemptRef
  <2>3. SameNumbers
    BY <2>1, <2>2, SaveKeepsNumbers DEF TypeInv, LooseTypeOK
  <2> QED
    BY <1>1, <1>2, <2>3
<1>5. CASE Starts
  <2>1. attempts'["compensation"] = attempts["compensation"]
    BY <1>5 DEF Starts, StartAttempt, SubmissionFails, TypeInv, LooseTypeOK, Phases
  <2> QED
    BY <1>1, <2>1
<1>6. CASE Compensates
  <2>1. PICK u \in Steps : StartCompensation(u) \/ CompensationSubmissionFails(u)
    BY <1>6 DEF Compensates
  <2>2. PICK a : attempts' = [attempts EXCEPT !["compensation"][u] = Append(@, a)]
    BY <2>1 DEF StartCompensation, CompensationSubmissionFails
  <2>3. u # s => attempts'["compensation"][s] = attempts["compensation"][s]
    BY <2>2 DEF TypeInv, LooseTypeOK, Phases
  <2>4. Len(attempts["compensation"][s]) \in Nat
    BY <1>0
  <2> QED
    BY <2>1, <2>3, <2>4
<1>7. CASE UNCHANGED database \/ Establishes \/ Promotes \/ Decides \/ CancelRun
  <2>1. attempts' = attempts
    BY <1>7 DEF database, Establishes, EstablishApprovalBarrier, Promotes,
       PromoteDependencyReadySteps, PromoteDueRetries, Decides, Decide, CancelRun
  <2> QED
    BY <1>1, <2>1
<1> HIDE DEF Same
<1> QED
  BY <1>3, <1>4, <1>5, <1>6, <1>7, DatabaseActions

(***************************************************************************)
(* When a compensation starts, every effect of a step that depends on it,  *)
(* directly or through steps with effects to undo, has been undone,        *)
(* through retries, crashes and recovery of compensations.  Nothing is     *)
(* claimed of dependents behind a step without such an effect.             *)
(***************************************************************************)
THEOREM DependentsAreFirst == Spec => DependentsCompensatedFirst
<1>1. ASSUME TypeInv, TypeInv', [AnyNext]_vars
      PROVE  CompensationStart
  <2> SUFFICES ASSUME NEW s \in Steps,
                      Len(attempts'["compensation"][s]) > Len(attempts["compensation"][s])
               PROVE  /\ step[s] = "succeeded"
                      /\ \A u \in EffectDependents(s) :
                            Compensated(attempts["compensation"], u)
    BY DEF CompensationStart
  <2>1. s \in PendingCompensations(step, attempts) /\ s = NextCompensation
    BY <1>1, CompensationsGrow DEF StartCompensation, CompensationSubmissionFails
  <2>2. step[s] = "succeeded"
    BY <2>1 DEF PendingCompensations, CompensableEffects
  <2> QED
    BY <1>1, <2>1, <2>2, NextIsFree
<1>2. TypeInv /\ TypeInv' /\ [AnyNext]_vars => [CompensationStart]_vars
  BY <1>1
<1> QED
  BY <1>2, SpecIsAny, TypeInvAlways, PTL DEF AnySpec, DependentsCompensatedFirst

-----------------------------------------------------------------------------
(***************************************************************************)
(* Runs whose steps are done one after the other, as those of the          *)
(* order-service upgrade are from its precheck on.  Such a run fails or    *)
(* compensates with no other step in flight.  This is what the contract    *)
(* with the callers of QueryService and the accounts of the effects of a   *)
(* finished run rest on; MCSideCompensated shows both failing for a        *)
(* definition with a side branch.                                          *)
(***************************************************************************)
Chained == \E pos \in Positions : IsChain(pos)

LEMMA ChainedIsAlone == Chained => RecoveryAlone
BY DEF Chained, RecoveryAlone

CompensationRuns(s) ==
    \E n \in DOMAIN attempts["compensation"][s] :
        attempts["compensation"][s][n].status = "running"

\* Effects are undone one after the other, by a run that compensates.
SoleCompensation ==
    \A s \in Steps : CompensationRuns(s) =>
        run = "compensating" /\ \A u \in Steps : CompensationRuns(u) => u = s

\* A run that failed or compensates has no step in flight or unknown.
QuietEnd ==
    run \in {"compensating", "compensated", "failed"} =>
        \A u \in Steps : step[u] \notin {"running", "result_unknown"}

\* Nothing becomes unknown while run_once starts attempts.
CycleQuiet ==
    pc \in {"ready", "select", "start"} => \A u \in Steps : step[u] # "result_unknown"

QuietInv == SoleCompensation /\ QuietEnd /\ CycleQuiet

-----------------------------------------------------------------------------
(* The invariant is kept.                                                  *)

\* A step of a chain that is under way is the only one.
LEMMA OneStepAtATime ==
    ASSUME Chained, ChainInv, NEW s \in Steps, step[s] \notin {"pending", "succeeded"},
           NEW u \in Steps, u # s
    PROVE  step[u] \in {"pending", "succeeded"}
<1>1. PICK pos \in Positions : IsChain(pos)
  BY DEF Chained
<1>2. pos[s] \in Nat /\ pos[u] \in Nat /\ pos[s] # pos[u]
  BY <1>1 DEF IsChain, Positions
<1>3. CASE pos[u] < pos[s]
  BY <1>1, <1>3 DEF ChainInv
<1>4. CASE pos[s] < pos[u]
  BY <1>1, <1>4 DEF ChainInv
<1> QED
  BY <1>2, <1>3, <1>4

\* When the compensation that runs is over, none runs.
LEMMA SoleEnds ==
    ASSUME SoleCompensation, OneCompensation, NEW s \in Steps, NEW n,
           Completed("compensation", s, n),
           attempts["compensation"][s][n].status = "running"
    PROVE  \A u \in Steps : ~CompensationRuns(u)'
<1> SUFFICES ASSUME NEW u \in Steps, NEW k \in DOMAIN attempts'["compensation"][u],
                    attempts'["compensation"][u][k].status = "running"
             PROVE  FALSE
  BY DEF CompensationRuns
<1>1. /\ k \in DOMAIN attempts["compensation"][u]
      /\ u # s \/ k # n => attempts["compensation"][u][k].status = "running"
      /\ n \in DOMAIN attempts["compensation"][s]
      /\ attempts'["compensation"][s][n].status # "running"
  BY DEF Completed, Phases
<1>2. u # s \/ k # n
  BY <1>1
<1>3. CompensationRuns(u) /\ CompensationRuns(s)
  BY <1>1, <1>2 DEF CompensationRuns
<1>4. u = s
  BY <1>3 DEF SoleCompensation
<1> QED
  BY <1>1, <1>2, <1>4 DEF OneCompensation

\* The end of a step that failed leaves nothing in flight.
LEMMA FailureIsQuiet ==
    ASSUME Chained, ChainInv, step \in [Steps -> StepStates], NEW s \in Steps,
           step[s] \notin {"pending", "succeeded"},
           NEW q \in {"retry_wait", "succeeded", "failed", "result_unknown"},
           step' = [step EXCEPT ![s] = q],
           NEW r, r \notin {"compensating", "compensated", "failed"},
           NEW at, run' = RunAfterForward(r, s, q, at)
    PROVE  QuietEnd'
<1> SUFFICES ASSUME run' \in {"compensating", "compensated", "failed"}, NEW u \in Steps
             PROVE  step'[u] \notin {"running", "result_unknown"}
  BY DEF QuietEnd
<1>1. q = "failed"
  BY DEF RunAfterForward
<1> QED
  BY <1>1, OneStepAtATime

\* Persisting an outcome.
LEMMA PersistsKeepQuiet ==
    ASSUME Chained, TypeInv, ChainInv, DatabaseInv, OwnedInv, QuietInv, Persists
    PROVE  QuietInv'
<1>1. PICK t \in threads : /\ t.hold = "owned" /\ pc' = pc
                           /\ pc \in {"idle", "closing"}
                           /\ \E out \in Outcomes \cup {"none"} : PersistOutcome(t, out)
  BY DEF Persists, Collect, Expire, CloseOutcome, Outcomes, Failures, TypeInv, LooseTypeOK, Future
<1>2. PICK out \in Outcomes \cup {"none"} : PersistOutcome(t, out)
  BY <1>1
<1>3. /\ Completed(t.phase, t.step, t.no)
      /\ t.phase = "forward" => PersistForward(t.step, t.no, out)
      /\ t.phase = "compensation" => PersistCompensation(t.step, t.no, out)
  BY <1>1, <1>2, PersistCompletes
<1>4. /\ t.step \in Steps /\ t.phase \in Phases
      /\ t.no \in DOMAIN attempts[t.phase][t.step]
      /\ attempts[t.phase][t.step][t.no].status = "running"
  BY <1>1 DEF TypeInv, LooseTypeOK, Future, OwnedInv
<1>5. CycleQuiet'
  BY <1>1 DEF CycleQuiet
<1>6. CASE t.phase = "forward"
  <2> DEFINE q == NextStepState(t.step, t.no, out)
  <2>1. /\ step[t.step] = "running"
        /\ \A u \in Steps : DOMAIN attempts["compensation"][u] = {}
    BY <1>1, <1>6, OwnedSteps
  <2>2. /\ step' = [step EXCEPT ![t.step] = q]
        /\ \E at : run' = RunAfterForward(run, t.step, q, at)
        /\ q \in {"retry_wait", "succeeded", "failed", "result_unknown"}
        /\ \A u \in Steps : DOMAIN attempts'["compensation"][u] = {}
    BY <1>3, <1>6, <2>1 DEF PersistForward, NextStepState, Completed, Phases
  <2>3. SoleCompensation'
    BY <2>2 DEF SoleCompensation, CompensationRuns
  <2>4. run \notin {"compensating", "compensated", "failed"}
    BY <1>4, <2>1 DEF QuietInv, QuietEnd
  <2> HIDE DEF q
  <2>5. QuietEnd'
    <3>1. PICK at : run' = RunAfterForward(run, t.step, q, at)
      BY <2>2
    <3>2. step \in [Steps -> StepStates] /\ step[t.step] \notin {"pending", "succeeded"}
      BY <2>1 DEF TypeInv, LooseTypeOK
    <3> QED
      BY <1>4, <2>2, <2>4, <3>1, <3>2, FailureIsQuiet
  <2> QED
    BY <1>5, <2>3, <2>5 DEF QuietInv
<1>7. CASE t.phase = "compensation"
  <2>1. \A u \in Steps : ~CompensationRuns(u)'
    BY <1>3, <1>4, <1>7, SoleEnds DEF QuietInv, DatabaseInv
  <2>2. CompensationRuns(t.step)
    BY <1>4, <1>7 DEF CompensationRuns
  <2>3. run = "compensating"
    BY <1>4, <2>2 DEF QuietInv, SoleCompensation
  <2>4. step' = step
    BY <1>3, <1>7 DEF PersistCompensation
  <2> QED
    BY <1>5, <2>1, <2>3, <2>4 DEF QuietInv, SoleCompensation, QuietEnd
<1> QED
  BY <1>4, <1>6, <1>7 DEF Phases

\* Starting attempts.
LEMMA StartsKeepQuiet ==
    ASSUME Chained, TypeInv, ChainInv, DatabaseInv, QuietInv, Starts \/ Compensates
    PROVE  QuietInv'
<1>1. ASSUME NEW s \in Steps, StartAttempt(s) \/ SubmissionFails(s)
      PROVE  QuietInv'
  <2>1. /\ run \in ForwardRunStates /\ pc' = pc /\ pc = "start" /\ step[s] = "ready"
        /\ attempts'["compensation"] = attempts["compensation"]
    BY <1>1 DEF StartAttempt, SubmissionFails, TypeInv, LooseTypeOK, Phases, StepCan,
       StepTransitions, StepStates
  <2>2. \A u \in Steps : DOMAIN attempts'["compensation"][u] = {}
    BY <2>1 DEF DatabaseInv, CompensationInv, ForwardRunStates
  <2>3. SoleCompensation'
    BY <2>2 DEF SoleCompensation, CompensationRuns
  <2>4. CASE StartAttempt(s)
    BY <2>1, <2>3, <2>4 DEF StartAttempt, QuietInv, QuietEnd, CycleQuiet, TypeInv, LooseTypeOK
  <2>5. CASE SubmissionFails(s)
    <3> DEFINE q == NextStepState(s, Len(attempts["forward"][s]) + 1, "retryable")
    <3>1. /\ step' = [step EXCEPT ![s] = q]
          /\ \E at : run' = RunAfterForward("running", s, q, at)
          /\ q \in {"retry_wait", "failed"}
      BY <2>5 DEF SubmissionFails, NextStepState
    <3> HIDE DEF q
    <3>2. QuietEnd'
      BY <2>1, <3>1, FailureIsQuiet DEF TypeInv, LooseTypeOK
    <3>3. CycleQuiet'
      BY <2>1, <3>1 DEF QuietInv, CycleQuiet, TypeInv, LooseTypeOK
    <3> QED
      BY <2>3, <3>2, <3>3 DEF QuietInv
  <2> QED
    BY <1>1, <2>4, <2>5
<1>2. ASSUME NEW s \in Steps, StartCompensation(s) \/ CompensationSubmissionFails(s)
      PROVE  QuietInv'
  <2>1. /\ Drained /\ run = "compensating" /\ pc' = pc /\ pc = "idle" /\ step' = step
    BY <1>2 DEF StartCompensation, CompensationSubmissionFails, Compensating
  <2>2. \A u \in Steps : ~CompensationRuns(u)
    BY <2>1, DrainedNoRunning DEF CompensationRuns, Phases
  <2>3. QuietEnd' /\ CycleQuiet'
    BY <2>1 DEF QuietInv, QuietEnd, CycleQuiet
  <2>4. \A u \in Steps \ {s} : attempts'["compensation"][u] = attempts["compensation"][u]
    BY <1>2 DEF StartCompensation, CompensationSubmissionFails, TypeInv, LooseTypeOK, Phases
  <2>5. \A u \in Steps \ {s} : ~CompensationRuns(u)'
    BY <2>2, <2>4 DEF CompensationRuns
  <2>6. CASE StartCompensation(s)
    BY <2>1, <2>3, <2>5, <2>6 DEF StartCompensation, QuietInv, SoleCompensation
  <2>7. CASE CompensationSubmissionFails(s)
    <3>1. ~CompensationRuns(s)'
      <4> DEFINE a == AttemptAfter("permanent")
      <4>1. a \in Attempt /\ a.status # "running"
        BY AttemptAfterType DEF AttemptAfter, Outcomes, Failures
      <4>2. attempts' = [attempts EXCEPT !["compensation"][s] = Append(@, a)]
        BY <2>7 DEF CompensationSubmissionFails
      <4> HIDE DEF a
      <4>3. Added("compensation", s, a)
        BY <4>1, <4>2, AppendAdds DEF TypeInv, LooseTypeOK, Phases
      <4> DEFINE old == attempts["compensation"][s]
                 new == attempts'["compensation"][s]
      <4>4. /\ Len(old) \in Nat /\ DOMAIN old = 1..Len(old) /\ DOMAIN new = 1..(Len(old) + 1)
            /\ new[Len(old) + 1] = a
            /\ \A n \in DOMAIN old : new[n] = old[n]
            /\ \A n \in DOMAIN old : old[n].status # "running"
        BY <2>2, <4>3 DEF Added, CompensationRuns
      <4> HIDE DEF old, new
      <4>5. \A n \in DOMAIN new : new[n].status # "running"
        BY <4>1, <4>4
      <4> QED
        BY <4>5 DEF CompensationRuns, new
    <3> QED
      BY <2>3, <2>5, <3>1 DEF QuietInv, SoleCompensation
  <2> QED
    BY <1>2, <2>6, <2>7
<1> QED
  BY <1>1, <1>2 DEF Starts, Compensates

\* Recovery resolves an attempt.
LEMMA ResolvesKeepQuiet ==
    ASSUME TypeInv, TypeInv', QueueInv, AttemptInv, QuietInv, Resolves
    PROVE  QuietInv'
<1>1. PICK r \in rq : RecoverApplied(r) \/ RecoverNotApplied(r) \/ RecoverManually(r)
  BY DEF Resolves
<1>2. /\ r.step \in Steps /\ r.phase \in Phases
      /\ pc = "recover" /\ pc' = pc
      /\ Completed(r.phase, r.step, r.no)
      /\ r.phase = "forward" =>
            /\ step[r.step] \in {"running", "result_unknown"}
            /\ \E q \in {"succeeded", "ready", "manual_intervention"} :
                  step' = [step EXCEPT ![r.step] = q]
      /\ r.phase = "compensation" =>
            /\ step' = step
            /\ attempts[r.phase][r.step][r.no].status = "running"
  BY <1>1, RecoverCompletes
<1>3. CycleQuiet'
  BY <1>2 DEF CycleQuiet
<1>4. r.phase = "forward" => run \notin {"compensating", "compensated", "failed"}
  BY <1>2 DEF QuietInv, QuietEnd
<1>5. QuietEnd'
  <2>1. run' \in {"compensating", "compensated", "failed"} =>
           run \in {"compensating", "compensated", "failed"}
    BY <1>1 DEF RecoverApplied, RecoverNotApplied, RecoverManually, RunAfterApplied
  <2> QED
    BY <1>2, <1>4, <2>1 DEF QuietInv, QuietEnd, Phases
<1>6. SoleCompensation'
  <2>1. CASE r.phase = "compensation"
    <3>1. \A u \in Steps : ~CompensationRuns(u)'
      BY <1>2, <2>1, SoleEnds DEF QuietInv, AttemptInv
    <3> QED
      BY <3>1 DEF SoleCompensation
  <2>2. CASE r.phase = "forward"
    <3>1. \A u \in Steps : DOMAIN attempts["compensation"][u] = {}
      BY <1>2, <2>2 DEF AttemptInv, CompensationInv
    <3>2. \A u \in Steps : DOMAIN attempts'["compensation"][u] = {}
      BY <1>2, <3>1 DEF Completed, Phases
    <3> QED
      BY <3>2 DEF SoleCompensation, CompensationRuns
  <2> QED
    BY <1>2, <2>1, <2>2 DEF Phases
<1> QED
  BY <1>3, <1>5, <1>6 DEF QuietInv

LEMMA NextQuiet ==
    ASSUME Chained, RuntimeInv, RuntimeInv', BarrierInv, QuietInv, [AnyNext]_vars
    PROVE  QuietInv'
<1>0. /\ TypeInv /\ TypeInv' /\ QueueInv /\ ChainInv
      /\ AttemptInv /\ DatabaseInv /\ OwnedInv
  BY AttemptInvParts DEF RuntimeInv, FuturesInv
<1> DEFINE InCycle == pc \in {"ready", "select", "start"}
<1>1. ASSUME UNCHANGED <<run, step, attempts>>, InCycle' => InCycle
      PROVE  QuietInv'
  BY <1>1 DEF QuietInv, SoleCompensation, CompensationRuns, QuietEnd, CycleQuiet
<1>2. CASE UNCHANGED vars
  BY <1>1, <1>2 DEF vars, database
<1>3. CASE ToolMoves
  BY <1>1, <1>3 DEF ToolMoves, database
<1>4. CASE Promotes
  <2>1. /\ UNCHANGED <<run, attempts>>
        /\ \A u \in Steps : step'[u] \in {step[u], "ready"}
    BY <1>4 DEF Promotes, PromoteDependencyReadySteps, PromoteDueRetries
  <2>2. \A u \in Steps : step[u] # "result_unknown"
    BY <1>4 DEF Promotes, PromoteDependencyReadySteps, PromoteDueRetries, RecoveryWork,
       RecoveryRequired, QuietInv, CycleQuiet
  <2>3. CycleQuiet'
    BY <2>1, <2>2 DEF CycleQuiet
  <2>4. QuietEnd' /\ SoleCompensation'
    BY <2>1 DEF QuietInv, QuietEnd, SoleCompensation, CompensationRuns
  <2> QED
    BY <2>3, <2>4 DEF QuietInv
<1>5. ASSUME UNCHANGED <<step, attempts, pc>>, run # "compensating",
             run' \notin {"compensating", "failed", "compensated"}
                \/ \A u \in Steps : step[u] \notin {"running", "result_unknown"}
      PROVE  QuietInv'
  BY <1>5 DEF QuietInv, SoleCompensation, CompensationRuns, QuietEnd, CycleQuiet
<1>6. CASE RunOnce
  <2>1. CASE SelectUnprotected \/ BarrierBlocks \/ EndBatch \/ \E s \in Steps : SelectApproved(s)
    BY <1>1, <2>1 DEF SelectUnprotected, BarrierBlocks, EndBatch, SelectApproved, database
  <2>2. CASE Establishes
    <3>1. /\ UNCHANGED <<step, attempts>> /\ pc' = "idle"
          /\ run # "compensating" /\ run' \in {run, "waiting_approval"}
      BY <2>2 DEF Establishes, EstablishApprovalBarrier, BarrierInv, CycleInv, ForwardRunStates
    <3> QED
      BY <3>1 DEF QuietInv, SoleCompensation, CompensationRuns, QuietEnd, CycleQuiet
  <2> QED
    BY <1>0, <1>4, <1>6, <2>1, <2>2, PersistsKeepQuiet, StartsKeepQuiet
       DEF RunOnce, Persists, Establishes, Starts, Compensates, Promotes
<1>7. CASE Operators
  <2>1. CASE CancelRun
    <3>1. UNCHANGED <<step, attempts, pc>> /\ run # "compensating" /\ run' = "cancelled"
      BY <2>1 DEF CancelRun, RunCan, RunTransitions, RunStates
    <3> QED
      BY <1>5, <3>1
  <2>2. CASE Decides
    <3>1. /\ UNCHANGED <<step, attempts, pc>> /\ run = "waiting_approval"
          /\ \A u \in Steps : step[u] \notin {"running", "result_unknown"}
      BY <2>2 DEF Decides, Decide, BarrierInv, WaitingInv, RecoveryRequired
    <3> QED
      BY <1>5, <3>1
  <2> QED
    BY <1>7, <2>1, <2>2 DEF Operators, Decides
<1>8. CASE Recovery
  <2>1. ASSUME StartRecovery \/ FinishRecovery \/ \E r \in rq : RecoveryRaises(r)
        PROVE  UNCHANGED <<run, step, attempts>> /\ ~InCycle'
    BY <2>1 DEF StartRecovery, FinishRecovery, RecoveryRaises, database
  <2> QED
    BY <1>0, <1>1, <1>8, <2>1, ResolvesKeepQuiet DEF Recovery, Resolves
<1>9. CASE Process
  <2>1. ASSUME CloseWaiting \/ BeginClose \/ FinishClose \/ StartDriverAgain \/ Crash \/ Restart
        PROVE  UNCHANGED <<run, step, attempts>> /\ ~InCycle'
    BY <2>1 DEF CloseWaiting, BeginClose, FinishClose, StartDriverAgain, Crash, Restart, database
  <2> QED
    BY <1>0, <1>1, <1>9, <2>1, PersistsKeepQuiet DEF Process, Persists
<1> QED
  BY <1>2, <1>3, <1>6, <1>7, <1>8, <1>9 DEF AnyNext, RunTerminal

LEMMA QuietInvAlways ==
    ASSUME Chained
    PROVE  AnySpec => []QuietInv
<1>1. Init => QuietInv
  BY DEF Init, QuietInv, SoleCompensation, CompensationRuns, QuietEnd, CycleQuiet, Phases
<1>2. RuntimeInv /\ RuntimeInv' /\ BarrierInv /\ QuietInv /\ [AnyNext]_vars => QuietInv'
  BY NextQuiet
<1> QED
  BY <1>1, <1>2, ChainedIsAlone, RuntimeInvAlways, BarrierInvAlways, PTL DEF AnySpec

-----------------------------------------------------------------------------
(* The run as its callers see it.                                          *)

SomethingRuns == \E p \in Phases, s \in Steps : \E n \in DOMAIN attempts[p][s] :
                    attempts[p][s][n].status = "running"
SomethingUnknown == \E s \in Steps : step[s] = "result_unknown"
SomethingOwed == PendingCompensations(step, attempts) # {}
SomethingGranted == \E i \in DOMAIN approvals : approvals[i].status = "approved"

\* A step runs only while an attempt of it does, so the attempts tell.
AttemptsTell == SomethingRuns <=> RunAsSeen.running

LEMMA RuntimeTells == RuntimeInv => AttemptsTell
<1> SUFFICES ASSUME RuntimeInv
             PROVE  SomethingRuns <=>
                       \/ \E s \in Steps : step[s] = "running"
                       \/ \E s \in Steps : \E r \in Refs(s) : StatusOf(r) = "running"
  BY DEF AttemptsTell, RunAsSeen
<1>1. ASSUME SomethingRuns
      PROVE  \E s \in Steps : \E r \in Refs(s) : StatusOf(r) = "running"
  BY <1>1, RefsMembers DEF SomethingRuns
<1>2. ASSUME NEW s \in Steps, NEW r \in Refs(s), StatusOf(r) = "running"
      PROVE  SomethingRuns
  BY <1>2, RefsAreAttempts DEF SomethingRuns
<1>3. ASSUME NEW s \in Steps, step[s] = "running"
      PROVE  SomethingRuns
  <2> DEFINE f == attempts["forward"][s]
  <2>1. f \in Seq(Attempt) /\ Len(f) > 0 /\ f[Len(f)].status = "running"
    BY <1>3 DEF RuntimeInv, AttemptInv, OneForwardAttempt, TypeInv, LooseTypeOK, Phases
  <2> HIDE DEF f
  <2>2. Len(f) \in DOMAIN f
    BY <2>1, LenProperties
  <2> QED
    BY <2>1, <2>2 DEF f, SomethingRuns, Phases
<1> QED
  BY <1>1, <1>2, <1>3

\* The fields of the view before and after a step.
LEMMA SeenAs ==
    ASSUME TypeInv, TypeInv', AttemptsTell, AttemptsTell'
    PROVE  /\ RunAsSeen \in Contract!Views
           /\ RunAsSeen.state = run
           /\ RunAsSeen.running <=> SomethingRuns
           /\ RunAsSeen.unknown <=> SomethingUnknown
           /\ RunAsSeen.owed <=> SomethingOwed
           /\ RunAsSeen.granted <=> SomethingGranted
           /\ RunAsSeen' \in Contract!Views
           /\ (RunAsSeen').state = run'
           /\ (RunAsSeen').running <=> SomethingRuns'
           /\ (RunAsSeen').unknown <=> SomethingUnknown'
           /\ (RunAsSeen').owed <=> SomethingOwed'
           /\ (RunAsSeen').granted <=> SomethingGranted'
<1> DEFINE r == \/ \E s \in Steps : step[s] = "running"
                \/ \E s \in Steps : \E c \in Refs(s) : StatusOf(c) = "running"
<1>1. RunAsSeen = [state |-> run, running |-> r, unknown |-> SomethingUnknown,
                   owed |-> SomethingOwed, granted |-> SomethingGranted]
  BY DEF RunAsSeen, SomethingUnknown, SomethingOwed, SomethingGranted
<1>2. RunAsSeen' = [state |-> run', running |-> r', unknown |-> SomethingUnknown',
                    owed |-> SomethingOwed', granted |-> SomethingGranted']
  BY DEF RunAsSeen, SomethingUnknown, SomethingOwed, SomethingGranted
<1>3. run \in Contract!RunStates /\ run' \in Contract!RunStates
  BY DEF TypeInv, LooseTypeOK, RunStates, Contract!RunStates
<1>4. r \in BOOLEAN /\ r' \in BOOLEAN
  OBVIOUS
<1>5. /\ SomethingUnknown \in BOOLEAN /\ SomethingOwed \in BOOLEAN
      /\ SomethingGranted \in BOOLEAN
      /\ SomethingUnknown' \in BOOLEAN /\ SomethingOwed' \in BOOLEAN
      /\ SomethingGranted' \in BOOLEAN
  BY DEF SomethingUnknown, SomethingOwed, SomethingGranted
<1> HIDE DEF r
<1>6. RunAsSeen \in Contract!Views /\ RunAsSeen' \in Contract!Views
  BY <1>1, <1>2, <1>3, <1>4, <1>5 DEF Contract!Views
<1>7. /\ SomethingRuns <=> RunAsSeen.running
      /\ SomethingRuns' <=> (RunAsSeen').running
  BY DEF AttemptsTell
<1> QED
  BY <1>1, <1>2, <1>6, <1>7

\* What the callers see does not change.
LEMMA Unseen ==
    ASSUME NEW a \in Contract!Views, NEW b \in Contract!Views, a.state = b.state,
           a.running <=> b.running, a.unknown <=> b.unknown,
           a.owed <=> b.owed, a.granted <=> b.granted
    PROVE  a = b
<1>1. /\ a.running = b.running /\ a.unknown = b.unknown
      /\ a.owed = b.owed /\ a.granted = b.granted
  BY Zenon DEF Contract!Views
<1> QED
  BY <1>1 DEF Contract!Views

\* The coordinator starts an attempt.
LEMMA SeenDispatch ==
    ASSUME NEW a \in Contract!Views, NEW b \in Contract!Views, Contract!MayDispatch(a),
           b.state = IF a.state = "compensating" THEN a.state ELSE "running",
           b.running, a.unknown <=> b.unknown, a.owed <=> b.owed, a.granted <=> b.granted
    PROVE  b = Contract!Dispatched(a)
<1>1. /\ b.running = TRUE /\ a.unknown = b.unknown
      /\ a.owed = b.owed /\ a.granted = b.granted
  BY Zenon DEF Contract!Views
<1> QED
  BY <1>1 DEF Contract!Views, Contract!Dispatched

\* What an attempt just started and refused may make of the run.
LEMMA SeenRefusal ==
    ASSUME NEW a \in Contract!Views, NEW b \in Contract!Views, Contract!MayDispatch(a),
           a.running <=> b.running, a.unknown <=> b.unknown, a.granted <=> b.granted,
           a.owed => b.owed \/ a.state = "compensating",
           LET r == IF a.state = "compensating" THEN a.state ELSE "running"
           IN  \/ b.state = r
               \/ r = "running" /\ b.state = "failed" /\ ~b.owed
               \/ r = "running" /\ b.state = "compensating" /\ b.owed
               \/ r = "compensating" /\ b.state = "manual_intervention"
    PROVE  Contract!Refused(a, b)
<1>1. /\ b.running = a.running /\ b.unknown = a.unknown /\ b.granted = a.granted
  BY Zenon DEF Contract!Views
<1> DEFINE d == Contract!Dispatched(a)
<1>2. /\ d.state = IF a.state = "compensating" THEN a.state ELSE "running"
      /\ d.running = TRUE /\ d.unknown = a.unknown
      /\ d.owed = a.owed /\ d.granted = a.granted
  BY DEF Contract!Views, Contract!Dispatched
<1> HIDE DEF d
<1>3. Contract!Reports(d, b)
  BY <1>1, <1>2 DEF Contract!Reports, Contract!Outcome
<1>4. b.state # "succeeded"
  BY DEF Contract!MayDispatch, Contract!ForwardRunStates
<1> QED
  BY <1>1, <1>3, <1>4 DEF Contract!Refused, d

\* The run asks for an approval, or waits no more.
LEMMA SeenApproval ==
    ASSUME NEW a \in Contract!Views, NEW b \in Contract!Views,
           a.running <=> b.running, a.unknown <=> b.unknown, a.owed <=> b.owed
    PROVE  /\ (~b.granted /\ b.state = "waiting_approval")
                 => b = [a EXCEPT !.state = "waiting_approval", !.granted = FALSE]
           /\ (b.granted /\ b.state = "running")
                 => b = [a EXCEPT !.state = "running", !.granted = TRUE]
           /\ (a.granted <=> b.granted) => b = [a EXCEPT !.state = b.state]
<1>1. /\ a.running = b.running /\ a.unknown = b.unknown /\ a.owed = b.owed
      /\ ~b.granted => b.granted = FALSE
      /\ b.granted => b.granted = TRUE
      /\ (a.granted <=> b.granted) => a.granted = b.granted
  BY Zenon DEF Contract!Views
<1> QED
  BY <1>1 DEF Contract!Views

-----------------------------------------------------------------------------
(* The steps of the runtime, seen.                                         *)

\* Nothing is running or unknown in a drained run.
LEMMA DrainedIsSettled ==
    ASSUME TypeInv, TypeInv', AttemptsTell, AttemptsTell', Drained
    PROVE  Contract!Settled(RunAsSeen)
BY SeenAs, DrainedNoRunning, DrainedIsQuiet
   DEF Contract!Settled, SomethingRuns, SomethingUnknown

\* The barrier asks for an approval, and nothing else is in force then.
LEMMA EstablishesSeen ==
    ASSUME TypeInv, TypeInv', AttemptsTell, AttemptsTell', BarrierInv, Establishes
    PROVE  \/ Contract!AsksApproval(RunAsSeen, RunAsSeen')
           \/ RunAsSeen' = RunAsSeen
<1>1. PICK s \in Steps : EstablishApprovalBarrier(s)
  BY DEF Establishes
<1>2. /\ UNCHANGED <<step, attempts>> /\ Drained /\ ~Approved(s)
      /\ run \in ForwardRunStates \cup {"cancelled"}
  BY <1>1 DEF EstablishApprovalBarrier, BarrierInv, CycleInv
<1>3. UNCHANGED <<SomethingRuns, SomethingUnknown, SomethingOwed>>
  BY <1>2 DEF SomethingRuns, SomethingUnknown, SomethingOwed, PendingCompensations,
     CompensableEffects, Compensated
<1>4. CASE UNCHANGED <<run, approvals>>
  <2>1. SomethingGranted' <=> SomethingGranted
    BY <1>4 DEF SomethingGranted
  <2> QED
    BY <1>3, <1>4, <2>1, SeenAs, Unseen
<1>5. CASE run' = "waiting_approval" /\ RunCan(run, "waiting_approval")
           /\ approvals' \in {Invalidated(s),
                  Append(Invalidated(s), [step |-> s, binding |-> binding, status |-> "pending"])}
  <2> DEFINE old == Invalidated(s)
             new == [step |-> s, binding |-> binding, status |-> "pending"]
  <2>1. /\ old \in Seq(ApprovalRequest) /\ new \in ApprovalRequest /\ new.status = "pending"
        /\ \A i \in DOMAIN old : old[i].status # "approved"
    <3>1. PICK m \in Nat : approvals \in [1..m -> ApprovalRequest]
      BY SeqDef DEF TypeInv, LooseTypeOK
    <3>2. old \in [1..m -> ApprovalRequest]
      BY <3>1 DEF Invalidated, ApprovalRequest
    <3>3. \A i \in DOMAIN old : old[i].status # "approved"
      BY <1>2, <3>1 DEF Invalidated, Approved, ApprovalRequest
    <3> HIDE DEF old
    <3>4. old \in Seq(ApprovalRequest)
      BY <3>2, SeqDef
    <3>5. new \in ApprovalRequest /\ new.status = "pending"
      BY DEF TypeInv, LooseTypeOK, ApprovalRequest
    <3> QED
      BY <3>3, <3>4, <3>5
  <2> HIDE DEF old, new
  <2>2. /\ Len(old) \in Nat /\ DOMAIN old = 1..Len(old)
        /\ DOMAIN Append(old, new) = 1..(Len(old) + 1)
        /\ Append(old, new)[Len(old) + 1] = new
        /\ \A i \in 1..Len(old) : Append(old, new)[i] = old[i]
    BY <2>1, AppendProperties, LenProperties
  <2>3. approvals' = old \/ approvals' = Append(old, new)
    BY <1>5 DEF old, new
  <2>4. \A i \in DOMAIN Append(old, new) : Append(old, new)[i].status # "approved"
    BY <2>1, <2>2
  <2>5. ~SomethingGranted'
    BY <2>1, <2>3, <2>4 DEF SomethingGranted
  <2>6. run \in ForwardRunStates
    BY <1>2, <1>5 DEF RunCan, RunTransitions, RunStates
  <2>7. RunAsSeen' = [RunAsSeen EXCEPT !.state = "waiting_approval", !.granted = FALSE]
    BY <1>3, <1>5, <2>5, SeenAs, SeenApproval
  <2> QED
    BY <1>2, <2>6, <2>7, SeenAs, DrainedIsSettled
       DEF Contract!AsksApproval, Contract!ForwardRunStates, ForwardRunStates
<1>6. CASE run = "waiting_approval"
  BY <1>2, <1>6 DEF ForwardRunStates
<1> QED
  BY <1>1, <1>4, <1>5, <1>6 DEF EstablishApprovalBarrier

\* A decision.
LEMMA DecisionSeen ==
    ASSUME TypeInv, TypeInv', DatabaseInv, AttemptsTell, AttemptsTell', BarrierInv, Decides
    PROVE  Contract!Decided(RunAsSeen, RunAsSeen')
<1>1. PICK i \in DOMAIN approvals, d \in {"approved", "rejected"} : Decide(i, d)
  BY DEF Decides
<1>2. /\ UNCHANGED <<step, attempts>> /\ run = "waiting_approval"
      /\ approvals[i].status = "pending"
      /\ approvals' = [approvals EXCEPT ![i].status = d]
      /\ run' = IF d = "approved" THEN "running" ELSE RejectionTarget
  BY <1>1 DEF Decide
<1>3. UNCHANGED <<SomethingRuns, SomethingUnknown, SomethingOwed>>
  BY <1>2 DEF SomethingRuns, SomethingUnknown, SomethingOwed, PendingCompensations,
     CompensableEffects, Compensated
<1>4. Contract!Settled(RunAsSeen)
  <2>1. /\ \A u \in Steps : step[u] \notin {"running", "result_unknown"}
        /\ \A u \in Steps : DOMAIN attempts["compensation"][u] = {}
    BY <1>2 DEF BarrierInv, WaitingInv, RecoveryRequired, DatabaseInv, CompensationInv
  <2>2. ~SomethingRuns /\ ~SomethingUnknown
    BY <2>1 DEF SomethingRuns, SomethingUnknown, DatabaseInv, OneForwardAttempt, Phases
  <2> QED
    BY <2>2, SeenAs DEF Contract!Settled
<1>5. /\ DOMAIN approvals' = DOMAIN approvals
      /\ \A k \in DOMAIN approvals : k # i => approvals'[k] = approvals[k]
      /\ approvals'[i].status = d
  <2>1. approvals[i] \in ApprovalRequest
    BY DEF TypeInv, LooseTypeOK
  <2>2. approvals'[i] = [approvals[i] EXCEPT !.status = d]
    BY <1>2
  <2>3. approvals'[i].status = d
    BY <2>1, <2>2 DEF ApprovalRequest
  <2> QED
    BY <1>2, <2>3
<1>6. CASE d = "approved"
  <2>1. SomethingGranted'
    BY <1>5, <1>6 DEF SomethingGranted
  <2>2. RunAsSeen' = [RunAsSeen EXCEPT !.state = "running", !.granted = TRUE]
    BY <1>2, <1>3, <1>6, <2>1, SeenAs, SeenApproval
  <2> QED
    BY <1>2, <1>4, <2>2, SeenAs DEF Contract!Decided
<1>7. CASE d = "rejected"
  <2>1. SomethingGranted' <=> SomethingGranted
    BY <1>2, <1>5, <1>7 DEF SomethingGranted
  <2>2. RunAsSeen' = [RunAsSeen EXCEPT !.state = run']
    BY <1>3, <2>1, SeenAs, SeenApproval
  <2>3. run' \in {"cancelled", "compensating", "manual_intervention"}
    BY <1>2, <1>7 DEF RejectionTarget
  <2>4. run' = "compensating" => SomethingOwed'
    BY RejectionHasWork DEF CompensationHasWork, SomethingOwed
  <2>5. run' = "compensating" => RunAsSeen.owed
    BY <1>3, <2>4, SeenAs
  <2> QED
    BY <1>2, <1>4, <2>2, <2>3, <2>5, SeenAs DEF Contract!Decided
<1> QED
  BY <1>6, <1>7

\* A forward attempt is started, or refused at once.
LEMMA StartsSeen ==
    ASSUME TypeInv, TypeInv', DatabaseInv, AttemptsTell, AttemptsTell', QuietInv, Starts
    PROVE  \/ Contract!Dispatches(RunAsSeen, RunAsSeen')
           \/ Contract!Refused(RunAsSeen, RunAsSeen')
<1>1. PICK s \in Steps : StartAttempt(s) \/ SubmissionFails(s)
  BY DEF Starts
<1>2. /\ step[s] = "ready" /\ run \in ForwardRunStates /\ pc = "start"
      /\ approvals' = approvals
  BY <1>1 DEF StartAttempt, SubmissionFails, StepCan, StepTransitions, StepStates,
     TypeInv, LooseTypeOK
<1>3. PICK a \in Attempt :
         /\ attempts' = [attempts EXCEPT !["forward"][s] = Append(@, a)]
         /\ a = IF StartAttempt(s) THEN RunningAttempt ELSE AttemptAfter("retryable")
  <2>1. RunningAttempt \in Attempt /\ AttemptAfter("retryable") \in Attempt
    BY AttemptAfterType DEF RunningAttempt, Attempt, Outcomes, Failures
  <2> QED
    BY <1>1, <2>1 DEF StartAttempt, SubmissionFails
<1>4. PICK q \in {"running", "retry_wait", "failed"} :
         /\ step' = [step EXCEPT ![s] = q]
         /\ q = IF StartAttempt(s) THEN "running"
                ELSE NextStepState(s, Len(attempts["forward"][s]) + 1, "retryable")
  BY <1>1 DEF StartAttempt, SubmissionFails, NextStepState
<1>5. Added("forward", s, a)
  BY <1>3, AppendAdds DEF TypeInv, LooseTypeOK, Phases
<1>6. /\ \A u \in Steps : attempts'["compensation"][u] = attempts["compensation"][u]
      /\ \A u \in Steps \ {s} : /\ attempts'["forward"][u] = attempts["forward"][u]
                                /\ step'[u] = step[u]
      /\ step'[s] = q
  BY <1>4, <1>5 DEF Added, Phases, TypeInv, LooseTypeOK
<1>7. Contract!MayDispatch(RunAsSeen)
  <2>1. ~SomethingUnknown
    BY <1>2 DEF QuietInv, CycleQuiet, SomethingUnknown
  <2> QED
    BY <1>2, <2>1, SeenAs DEF Contract!MayDispatch, Contract!ForwardRunStates,
       ForwardRunStates
<1>8. SomethingUnknown' <=> SomethingUnknown
  BY <1>2, <1>4, <1>6 DEF SomethingUnknown
<1>9. SomethingOwed' <=> SomethingOwed
  <2>1. PendingCompensations(step', attempts') = PendingCompensations(step, attempts)
    BY <1>2, <1>4, <1>6, CompensableAssumption
       DEF PendingCompensations, CompensableEffects, Compensated
  <2> QED
    BY <2>1 DEF SomethingOwed
<1>10. SomethingGranted' <=> SomethingGranted
  BY <1>2 DEF SomethingGranted
<1>11. CASE StartAttempt(s)
  <2>1. SomethingRuns'
    <3>1. a.status = "running"
      BY <1>3, <1>11 DEF RunningAttempt
    <3>2. \E n \in DOMAIN attempts'["forward"][s] : attempts'["forward"][s][n] = a
      <4> DEFINE m == Len(attempts["forward"][s])
      <4>1. /\ m \in Nat /\ DOMAIN attempts'["forward"][s] = 1..(m + 1)
            /\ attempts'["forward"][s][m + 1] = a
        BY <1>5 DEF Added
      <4> HIDE DEF m
      <4> QED
        BY <4>1
    <3> QED
      BY <3>1, <3>2 DEF SomethingRuns, Phases
  <2>2. run' = "running"
    BY <1>11 DEF StartAttempt
  <2>3. RunAsSeen' = Contract!Dispatched(RunAsSeen)
    <3>1. RunAsSeen.state # "compensating"
      BY <1>2, SeenAs DEF ForwardRunStates
    <3> QED
      BY <1>7, <1>8, <1>9, <1>10, <2>1, <2>2, <3>1, SeenAs, SeenDispatch
  <2> QED
    BY <1>7, <2>3 DEF Contract!Dispatches
<1>12. CASE ~StartAttempt(s)
  <2>1. a.status # "running"
    BY <1>3, <1>12 DEF AttemptAfter, Failures
  <2>2. SomethingRuns' <=> SomethingRuns
    <3> DEFINE old == attempts["forward"][s]
               new == attempts'["forward"][s]
    <3>1. /\ Len(old) \in Nat /\ DOMAIN old = 1..Len(old) /\ DOMAIN new = 1..(Len(old) + 1)
          /\ new[Len(old) + 1] = a
          /\ \A n \in DOMAIN old : new[n] = old[n]
      BY <1>5 DEF Added
    <3> HIDE DEF old, new
    <3>2. (\E n \in DOMAIN new : new[n].status = "running")
             <=> (\E n \in DOMAIN old : old[n].status = "running")
      BY <2>1, <3>1
    <3>3. \A p \in Phases, u \in Steps : p # "forward" \/ u # s =>
             attempts'[p][u] = attempts[p][u]
      BY <1>6 DEF Phases
    <3> QED
      BY <3>2, <3>3 DEF SomethingRuns, Phases, old, new
  <2>3. run' = RunAfterForward("running", s, q, attempts')
    BY <1>1, <1>3, <1>4, <1>12 DEF SubmissionFails
  <2>4. /\ q # "succeeded"
        /\ CompensableEffects([step EXCEPT ![s] = q], attempts'["forward"])
             = CompensableEffects(step', attempts'["forward"])
    BY <1>4
  <2>5. \/ run' = "running"
        \/ run' = "failed" /\ ~SomethingOwed'
        \/ run' = "compensating"
    BY <2>3, <2>4 DEF RunAfterForward, SomethingOwed, PendingCompensations
  <2>6. run' = "compensating" => SomethingOwed'
    <3> SUFFICES ASSUME run' = "compensating" PROVE SomethingOwed'
      OBVIOUS
    <3>1. run \notin CompensationStates
      BY <1>2 DEF ForwardRunStates, CompensationStates
    <3>2. PendingCompensations(step', attempts') # {}
      BY <1>4, <1>6, <2>3, <3>1, EntryHasWork
    <3> QED
      BY <3>2 DEF SomethingOwed
  <2>7. RunAsSeen.state # "compensating"
    BY <1>2, SeenAs DEF ForwardRunStates
  <2>8. Contract!Refused(RunAsSeen, RunAsSeen')
    BY <1>7, <1>8, <1>9, <1>10, <2>2, <2>5, <2>6, <2>7, SeenAs, SeenRefusal
  <2> QED
    BY <2>8
<1> QED
  BY <1>11, <1>12

\* A compensation is started, or refused at once.
LEMMA CompensatesSeen ==
    ASSUME TypeInv, TypeInv', AttemptsTell, AttemptsTell', Compensates
    PROVE  \/ Contract!Dispatches(RunAsSeen, RunAsSeen')
           \/ Contract!Refused(RunAsSeen, RunAsSeen')
<1>1. PICK s \in Steps : StartCompensation(s) \/ CompensationSubmissionFails(s)
  BY DEF Compensates
<1>2. /\ run = "compensating" /\ Drained /\ UNCHANGED <<step, approvals>>
      /\ s \in PendingCompensations(step, attempts)
  BY <1>1 DEF StartCompensation, CompensationSubmissionFails, Compensating
<1>3. PICK a \in Attempt :
         /\ attempts' = [attempts EXCEPT !["compensation"][s] = Append(@, a)]
         /\ a = IF StartCompensation(s) THEN RunningAttempt ELSE AttemptAfter("permanent")
  <2>1. RunningAttempt \in Attempt /\ AttemptAfter("permanent") \in Attempt
    BY AttemptAfterType DEF RunningAttempt, Attempt, Outcomes, Failures
  <2> QED
    BY <1>1, <2>1 DEF StartCompensation, CompensationSubmissionFails
<1>4. ~Succeeded(a)
  BY <1>3 DEF Succeeded, RunningAttempt, AttemptAfter, Failures
<1> DEFINE old == attempts["compensation"][s]
           new == attempts'["compensation"][s]
<1>5. Added("compensation", s, a)
  BY <1>3, AppendAdds DEF TypeInv, LooseTypeOK, Phases
<1>6. /\ Len(old) \in Nat /\ DOMAIN old = 1..Len(old) /\ DOMAIN new = 1..(Len(old) + 1)
      /\ new[Len(old) + 1] = a
      /\ \A n \in DOMAIN old : new[n] = old[n]
  BY <1>5 DEF Added
<1>7. \A p \in Phases, u \in Steps : p # "compensation" \/ u # s =>
         attempts'[p][u] = attempts[p][u]
  BY <1>5 DEF Added
<1> HIDE DEF old, new
<1>8. (\E n \in DOMAIN new : Succeeded(new[n])) <=> (\E n \in DOMAIN old : Succeeded(old[n]))
  BY <1>4, <1>6
<1>9. SomethingOwed' <=> SomethingOwed
  <2>1. attempts'["forward"] = attempts["forward"]
    BY <1>3 DEF TypeInv, LooseTypeOK, Phases
  <2>2. \A u \in Steps : Compensated(attempts'["compensation"], u)
                            <=> Compensated(attempts["compensation"], u)
    BY <1>7, <1>8 DEF Compensated, Phases, old, new
  <2>3. PendingCompensations(step', attempts') = PendingCompensations(step, attempts)
    BY <1>2, <2>1, <2>2, CompensableAssumption DEF PendingCompensations, CompensableEffects
  <2> QED
    BY <2>3 DEF SomethingOwed
<1>10. /\ SomethingGranted' <=> SomethingGranted
       /\ SomethingUnknown' <=> SomethingUnknown
       /\ ~SomethingRuns
  BY <1>2, DrainedNoRunning DEF SomethingGranted, SomethingUnknown, SomethingRuns
<1>11. Contract!MayDispatch(RunAsSeen) /\ RunAsSeen.state = "compensating"
  <2>1. SomethingOwed
    BY <1>2 DEF SomethingOwed
  <2> QED
    BY <1>2, <2>1, SeenAs, DrainedIsSettled DEF Contract!MayDispatch
<1>12. CASE StartCompensation(s)
  <2>1. a.status = "running"
    BY <1>3, <1>12 DEF RunningAttempt
  <2>2. \E n \in DOMAIN new : new[n].status = "running"
    BY <1>6, <2>1
  <2>3. SomethingRuns'
    BY <2>2 DEF SomethingRuns, Phases, new
  <2>4. run' = run
    BY <1>12 DEF StartCompensation
  <2>5. RunAsSeen' = Contract!Dispatched(RunAsSeen)
    BY <1>2, <1>9, <1>10, <1>11, <2>3, <2>4, SeenAs, SeenDispatch
  <2> QED
    BY <1>11, <2>5 DEF Contract!Dispatches
<1>13. CASE ~StartCompensation(s)
  <2>1. a.status # "running"
    BY <1>3, <1>13 DEF AttemptAfter, Failures
  <2>2. \A n \in DOMAIN new : new[n].status # "running"
    <3>1. \A n \in DOMAIN old : old[n].status # "running"
      BY <1>10 DEF SomethingRuns, Phases, old
    <3> QED
      BY <1>6, <2>1, <3>1
  <2>3. ~SomethingRuns'
    BY <1>7, <1>10, <2>2 DEF SomethingRuns, new
  <2>4. run' = "manual_intervention"
    BY <1>1, <1>13 DEF CompensationSubmissionFails
  <2>5. Contract!Refused(RunAsSeen, RunAsSeen')
    BY <1>2, <1>9, <1>10, <1>11, <2>3, <2>4, SeenAs, SeenRefusal
  <2> QED
    BY <2>5
<1> QED
  BY <1>12, <1>13

\* What is over runs no more, and the other attempts are what they were.
LEMMA CompletedRuns ==
    ASSUME NEW p \in Phases, NEW s \in Steps, NEW n, Completed(p, s, n)
    PROVE  SomethingRuns' => SomethingRuns
BY DEF Completed, SomethingRuns

\* An effect still to be undone is not lost when a forward attempt ends.
LEMMA OwedRemains ==
    ASSUME TypeInv, NEW s \in Steps, NEW n, Completed("forward", s, n), step[s] # "succeeded",
           NEW q, step' = [step EXCEPT ![s] = q],
           attempts'["compensation"] = attempts["compensation"],
           \A u \in Steps \ {s} : attempts'["forward"][u] = attempts["forward"][u],
           SomethingOwed
    PROVE  SomethingOwed'
<1>1. PICK u \in PendingCompensations(step, attempts) : TRUE
  BY DEF SomethingOwed
<1>2. u \in Steps /\ step[u] = "succeeded"
  BY CompensableAssumption DEF PendingCompensations, CompensableEffects
<1>3. step'[u] = "succeeded" /\ attempts'["forward"][u] = attempts["forward"][u]
  BY <1>2 DEF TypeInv, LooseTypeOK
<1> QED
  BY <1>3, WorkRemains DEF SomethingOwed

\* An outcome is persisted.
LEMMA PersistsSeen ==
    ASSUME TypeInv, TypeInv', DatabaseInv, DatabaseInv', OwnedInv,
           AttemptsTell, AttemptsTell', QuietInv, CompensationHasWork, Persists
    PROVE  Contract!Reports(RunAsSeen, RunAsSeen')
<1>1. PICK t \in threads : t.hold = "owned" /\ \E out \in Outcomes \cup {"none"} :
                               PersistOutcome(t, out)
  BY DEF Persists, Collect, Expire, CloseOutcome, Outcomes, Failures, TypeInv, LooseTypeOK, Future
<1>2. PICK out \in Outcomes \cup {"none"} : PersistOutcome(t, out)
  BY <1>1
<1>3. /\ Completed(t.phase, t.step, t.no)
      /\ t.phase = "forward" => PersistForward(t.step, t.no, out)
      /\ t.phase = "compensation" => PersistCompensation(t.step, t.no, out)
  BY <1>1, <1>2, PersistCompletes
<1>4. /\ t.step \in Steps /\ t.phase \in Phases
      /\ t.no \in DOMAIN attempts[t.phase][t.step]
      /\ attempts[t.phase][t.step][t.no].status = "running"
  BY <1>1 DEF TypeInv, LooseTypeOK, Future, OwnedInv
<1>5. SomethingRuns
  BY <1>4 DEF SomethingRuns
<1>6. SomethingGranted' <=> SomethingGranted
  BY PersistsQuietly DEF SomethingGranted
<1>7. ASSUME SomethingUnknown => SomethingUnknown',
             SomethingOwed => SomethingOwed' \/ run = "compensating",
             \/ run' = run
             \/ run = "running" /\ run' = "succeeded" /\ ~SomethingRuns' /\ ~SomethingUnknown'
             \/ run = "running" /\ run' = "failed" /\ ~SomethingOwed'
             \/ run = "running" /\ run' = "compensating" /\ SomethingOwed'
             \/ /\ run = "compensating" /\ run' = "compensated"
                /\ ~SomethingOwed' /\ ~SomethingRuns' /\ ~SomethingUnknown'
             \/ run = "compensating" /\ run' = "manual_intervention"
      PROVE  Contract!Reports(RunAsSeen, RunAsSeen')
  <2>1. Contract!Outcome(RunAsSeen, RunAsSeen')
    BY <1>7, SeenAs DEF Contract!Outcome, Contract!Settled
  <2>2. (RunAsSeen').granted = RunAsSeen.granted
    BY <1>6, SeenAs, Zenon DEF Contract!Views
  <2> QED
    BY <1>5, <1>7, <2>1, <2>2, SeenAs DEF Contract!Reports
<1>8. CASE t.phase = "forward"
  <2> DEFINE q == NextStepState(t.step, t.no, out)
  <2>1. /\ step[t.step] = "running"
        /\ \A u \in Steps : DOMAIN attempts["compensation"][u] = {}
    BY <1>1, <1>8, OwnedSteps
  <2>2. /\ step' = [step EXCEPT ![t.step] = q]
        /\ run' = RunAfterForward(run, t.step, q, attempts')
        /\ attempts'["compensation"] = attempts["compensation"]
        /\ \A u \in Steps \ {t.step} : attempts'["forward"][u] = attempts["forward"][u]
    BY <1>3, <1>4, <1>8 DEF PersistForward, TypeInv, LooseTypeOK, Phases
  <2> HIDE DEF q
  <2>3. SomethingUnknown => SomethingUnknown'
    BY <2>1, <2>2 DEF SomethingUnknown, TypeInv, LooseTypeOK
  <2>4. SomethingOwed => SomethingOwed'
    BY <1>3, <1>4, <1>8, <2>1, <2>2, OwedRemains
  <2>5. \/ run' = run
        \/ /\ run = "running" /\ run' = "succeeded" /\ q = "succeeded"
           /\ \A u \in Steps \ {t.step} : step[u] = "succeeded"
        \/ /\ run = "running" /\ run' = "failed" /\ CompensableEffects(step', attempts'["forward"]) = {}
        \/ run = "running" /\ run' = "compensating"
    BY <2>2 DEF RunAfterForward
  <2>6. run' = "succeeded" /\ q = "succeeded"
            /\ (\A u \in Steps \ {t.step} : step[u] = "succeeded")
           => ~SomethingRuns' /\ ~SomethingUnknown'
    <3> SUFFICES ASSUME q = "succeeded", \A u \in Steps \ {t.step} : step[u] = "succeeded"
                 PROVE  ~SomethingRuns' /\ ~SomethingUnknown'
      OBVIOUS
    <3>1. \A u \in Steps : step'[u] = "succeeded"
      BY <2>2 DEF TypeInv, LooseTypeOK
    <3>2. \A u \in Steps : DOMAIN attempts'["compensation"][u] = {}
      BY <2>1, <2>2
    <3> QED
      BY <3>1, <3>2 DEF SomethingRuns, SomethingUnknown, DatabaseInv, OneForwardAttempt, Phases
  <2>7. CompensableEffects(step', attempts'["forward"]) = {} => ~SomethingOwed'
    BY DEF SomethingOwed, PendingCompensations
  <2>8. run' = "compensating" => SomethingOwed'
    BY PersistsHasWork DEF CompensationHasWork, SomethingOwed
  <2> QED
    BY <1>7, <2>3, <2>4, <2>5, <2>6, <2>7, <2>8
<1>9. CASE t.phase = "compensation"
  <2>1. step' = step
    BY <1>3, <1>9 DEF PersistCompensation
  <2>2. run = "compensating"
    BY <1>4, <1>9 DEF QuietInv, SoleCompensation, CompensationRuns
  <2>3. \/ run' = run
        \/ run' = "compensated" /\ PendingCompensations(step', attempts') = {}
        \/ run' = "manual_intervention"
    BY <1>3, <1>9, <2>1 DEF PersistCompensation
  <2>4. \A u \in Steps : step[u] \notin {"running", "result_unknown"}
    BY <2>2 DEF QuietInv, QuietEnd
  <2>5. ~SomethingUnknown /\ ~SomethingUnknown'
    BY <2>1, <2>4 DEF SomethingUnknown
  <2>6. ~SomethingRuns'
    <3>1. \A u \in Steps : ~CompensationRuns(u)'
      BY <1>3, <1>4, <1>9, SoleEnds DEF QuietInv, DatabaseInv
    <3> QED
      BY <2>1, <2>4, <3>1 DEF CompensationRuns, SomethingRuns, DatabaseInv,
         OneForwardAttempt, Phases
  <2>7. PendingCompensations(step', attempts') = {} => ~SomethingOwed'
    BY DEF SomethingOwed
  <2> QED
    BY <1>7, <2>2, <2>3, <2>5, <2>6, <2>7
<1> QED
  BY <1>4, <1>8, <1>9 DEF Phases

\* Recovery resolves an attempt.
LEMMA ResolvesSeen ==
    ASSUME TypeInv, TypeInv', QueueInv, AttemptInv, DatabaseInv',
           AttemptsTell, AttemptsTell', QuietInv, Resolves
    PROVE  Contract!Recovered(RunAsSeen, RunAsSeen')
<1>1. PICK r \in rq : RecoverApplied(r) \/ RecoverNotApplied(r) \/ RecoverManually(r)
  BY DEF Resolves
<1>2. /\ r.step \in Steps /\ r.phase \in Phases
      /\ Completed(r.phase, r.step, r.no)
      /\ r.phase = "forward" =>
            /\ step[r.step] \in {"running", "result_unknown"}
            /\ \E q \in {"succeeded", "ready", "manual_intervention"} :
                  step' = [step EXCEPT ![r.step] = q]
      /\ r.phase = "compensation" =>
            /\ step' = step
            /\ attempts[r.phase][r.step][r.no].status = "running"
  BY <1>1, RecoverCompletes
<1>3. SomethingGranted' <=> SomethingGranted
  BY <1>1 DEF RecoverApplied, RecoverNotApplied, RecoverManually, SomethingGranted
<1>4. SomethingRuns' => SomethingRuns
  BY <1>2, CompletedRuns
<1>5. SomethingUnknown' => SomethingUnknown
  BY <1>2 DEF SomethingUnknown, Phases, TypeInv, LooseTypeOK
<1>6. r.phase = "compensation" => run = "compensating" /\ SomethingRuns
  BY <1>2 DEF QuietInv, SoleCompensation, CompensationRuns, Completed, SomethingRuns
<1>7. r.phase = "forward" => run # "compensating"
  BY <1>2 DEF QuietInv, QuietEnd
<1>8. SomethingRuns \/ SomethingUnknown
  <2>1. CASE r.phase = "forward" /\ step[r.step] = "running"
    BY <1>2, <2>1, SeenAs DEF RunAsSeen, AttemptsTell
  <2>2. CASE r.phase = "forward" /\ step[r.step] = "result_unknown"
    BY <1>2, <2>2 DEF SomethingUnknown
  <2> QED
    BY <1>2, <1>6, <2>1, <2>2 DEF Phases
<1>9. SomethingOwed => SomethingOwed' \/ run = "compensating"
  <2>1. CASE r.phase = "forward"
    <3>1. PICK q : step' = [step EXCEPT ![r.step] = q]
      BY <1>2, <2>1
    <3>2. PICK a : attempts' = [attempts EXCEPT !["forward"][r.step][r.no] = a]
      BY <1>1, <2>1 DEF RecoverApplied, RecoverNotApplied, RecoverManually, Resolve
    <3>3. /\ attempts'["compensation"] = attempts["compensation"]
          /\ \A u \in Steps \ {r.step} : attempts'["forward"][u] = attempts["forward"][u]
      BY <1>2, <3>2 DEF TypeInv, LooseTypeOK, Phases
    <3>4. step[r.step] # "succeeded" /\ Completed("forward", r.step, r.no)
      BY <1>2, <2>1
    <3> QED
      BY <1>2, <3>1, <3>3, <3>4, OwedRemains
  <2> QED
    BY <1>2, <1>6, <2>1 DEF Phases
<1>10. \/ run' = run
       \/ run' = "manual_intervention" /\ run \notin TerminalRunStates
       \/ run = "running" /\ run' = "succeeded" /\ ~SomethingRuns' /\ ~SomethingUnknown'
       \/ run = "compensating" /\ run' = "compensated" /\ ~SomethingOwed'
  <2>1. CASE RecoverApplied(r)
    <3>1. run' = RunAfterApplied(r)
      BY <2>1 DEF RecoverApplied
    <3>2. \/ run' = run
          \/ run = "running" /\ run' = "succeeded" /\ \A u \in Steps : step'[u] = "succeeded"
          \/ /\ run = "compensating" /\ run' = "compensated" /\ r.phase = "compensation"
             /\ PendingCompensations(step, attempts') = {}
      BY <1>2, <1>7, <3>1 DEF RunAfterApplied, Phases
    <3>3. ASSUME run' = "succeeded", \A u \in Steps : step'[u] = "succeeded"
          PROVE  ~SomethingRuns' /\ ~SomethingUnknown'
      <4>1. \A u \in Steps : DOMAIN attempts'["compensation"][u] = {}
        BY <3>3 DEF DatabaseInv, CompensationInv
      <4> QED
        BY <3>3, <4>1 DEF SomethingRuns, SomethingUnknown, DatabaseInv, OneForwardAttempt, Phases
    <3>4. r.phase = "compensation" /\ PendingCompensations(step, attempts') = {}
             => ~SomethingOwed'
      BY <1>2 DEF SomethingOwed
    <3> QED
      BY <3>2, <3>3, <3>4
  <2>2. CASE RecoverNotApplied(r)
    BY <2>2 DEF RecoverNotApplied
  <2>3. CASE RecoverManually(r)
    BY <2>3 DEF RecoverManually, RunCan, RunTransitions, RunStates, TerminalRunStates
  <2> QED
    BY <1>1, <2>1, <2>2, <2>3
<1>11. (RunAsSeen').granted = RunAsSeen.granted
  BY <1>3, SeenAs, Zenon DEF Contract!Views
<1>12. Contract!TerminalRunStates = TerminalRunStates
  BY DEF Contract!TerminalRunStates, TerminalRunStates
<1> QED
  BY <1>4, <1>5, <1>8, <1>9, <1>10, <1>11, <1>12, SeenAs
     DEF Contract!Recovered, Contract!Settled, TerminalRunStates

\* What a step of the runtime needs to be one of the contract.
SeenInv == RuntimeInv /\ BarrierInv /\ CompensationHasWork /\ QuietInv /\ AttemptsTell

LEMMA NextSeen ==
    ASSUME SeenInv, SeenInv', [AnyNext]_vars
    PROVE  [Contract!Next]_RunAsSeen
<1>0. /\ TypeInv /\ TypeInv' /\ QueueInv /\ AttemptInv /\ DatabaseInv /\ DatabaseInv'
      /\ OwnedInv /\ BarrierInv /\ CompensationHasWork /\ QuietInv
      /\ AttemptsTell /\ AttemptsTell'
  <2>1. AttemptInv /\ AttemptInv'
    BY DEF SeenInv, RuntimeInv
  <2>2. DatabaseInv /\ DatabaseInv' /\ OwnedInv
    BY <2>1 DEF AttemptInv, DatabaseInv
  <2> QED
    BY <2>1, <2>2 DEF SeenInv, RuntimeInv
<1>1. RunAsSeen' \in Contract!Views
  BY <1>0, SeenAs
<1>2. ASSUME UNCHANGED <<run, SomethingRuns, SomethingUnknown, SomethingOwed, SomethingGranted>>
      PROVE  RunAsSeen' = RunAsSeen
  BY <1>0, <1>2, SeenAs, Unseen
<1>3. CASE UNCHANGED database
  BY <1>3 DEF database, RunAsSeen, Refs, StatusOf, PendingCompensations, CompensableEffects,
     Compensated
<1>4. CASE Promotes
  <2>1. /\ UNCHANGED <<run, attempts, approvals>>
        /\ \A u \in Steps : \/ step'[u] = step[u]
                            \/ /\ step[u] \in {"pending", "ready", "retry_wait"}
                               /\ step'[u] = "ready"
    BY <1>4 DEF Promotes, PromoteDependencyReadySteps, PromoteDueRetries, ReadySteps
  <2>2. PendingCompensations(step', attempts') = PendingCompensations(step, attempts)
    BY <2>1, CompensableAssumption DEF PendingCompensations, CompensableEffects, Compensated
  <2>3. UNCHANGED <<run, SomethingRuns, SomethingUnknown, SomethingOwed, SomethingGranted>>
    BY <2>1, <2>2 DEF SomethingRuns, SomethingUnknown, SomethingOwed, SomethingGranted
  <2> QED
    BY <1>2, <2>3
<1>5. CASE CancelRun
  <2>1. /\ UNCHANGED <<step, attempts, approvals>> /\ run' = "cancelled"
        /\ RunCan(run, "cancelled")
    BY <1>5 DEF CancelRun
  <2>2. UNCHANGED <<SomethingRuns, SomethingUnknown, SomethingOwed, SomethingGranted>>
    BY <2>1 DEF SomethingRuns, SomethingUnknown, SomethingOwed, SomethingGranted,
       PendingCompensations, CompensableEffects, Compensated
  <2>3. RunAsSeen' = [RunAsSeen EXCEPT !.state = "cancelled"]
    BY <1>0, <2>1, <2>2, SeenAs, SeenApproval
  <2>4. Contract!Cancelled(RunAsSeen, RunAsSeen')
    <3>1. Contract!RunCan(run, "cancelled")
      BY <2>1 DEF RunCan, RunTransitions, RunStates,
         Contract!RunCan, Contract!RunTransitions, Contract!RunStates
    <3> QED
      BY <1>0, <2>3, <3>1, SeenAs DEF Contract!Cancelled
  <2> QED
    BY <1>1, <2>4 DEF Contract!Next
<1>6. CASE Persists
  BY <1>0, <1>1, <1>6, PersistsSeen DEF Contract!Next, Contract!Coordinated
<1>7. CASE Establishes
  BY <1>0, <1>1, <1>7, EstablishesSeen DEF Contract!Next, Contract!Coordinated
<1>8. CASE Starts
  BY <1>0, <1>1, <1>8, StartsSeen DEF Contract!Next, Contract!Coordinated
<1>9. CASE Compensates
  BY <1>0, <1>1, <1>9, CompensatesSeen DEF Contract!Next, Contract!Coordinated
<1>10. CASE Decides
  BY <1>0, <1>1, <1>10, DecisionSeen DEF Contract!Next
<1>11. CASE Resolves
  BY <1>0, <1>1, <1>11, ResolvesSeen DEF Contract!Next
<1> QED
  BY <1>3, <1>4, <1>5, <1>6, <1>7, <1>8, <1>9, <1>10, <1>11, DatabaseActions

LEMMA SeenInvAlways ==
    ASSUME Chained
    PROVE  AnySpec => []SeenInv
<1>1. RuntimeInv => AttemptsTell
  BY RuntimeTells
<1>2. RuntimeInv /\ BarrierInv /\ CompensationHasWork /\ QuietInv /\ AttemptsTell => SeenInv
  BY DEF SeenInv
<1> QED
  BY <1>1, <1>2, ChainedIsAlone, RuntimeInvAlways, BarrierInvAlways, HasWorkAlways,
     QuietInvAlways, PTL

\* Whatever its tools do, the runtime keeps its contract.
LEMMA AnyKeepsContract ==
    ASSUME Chained
    PROVE  AnySpec => KeepsContract
<1>1. ASSUME Init
      PROVE  Contract!Init
  <2>1. /\ run = "pending" /\ \A s \in Steps : step[s] = "pending" /\ Refs(s) = {}
        /\ approvals = <<>>
    BY <1>1 DEF Init, Refs, Phases
  <2>2. /\ RunAsSeen.state = "pending"
        /\ ~ \E s \in Steps : step[s] = "running"
        /\ ~ \E s \in Steps : \E r \in Refs(s) : StatusOf(r) = "running"
        /\ ~ \E s \in Steps : step[s] = "result_unknown"
        /\ ~(PendingCompensations(step, attempts) # {})
        /\ ~ \E i \in DOMAIN approvals : approvals[i].status = "approved"
    BY <2>1, CompensableAssumption DEF RunAsSeen, PendingCompensations, CompensableEffects
  <2>3. RunAsSeen = [state |-> "pending", running |-> FALSE, unknown |-> FALSE,
                     owed |-> FALSE, granted |-> FALSE]
    BY <2>1, <2>2 DEF RunAsSeen
  <2> QED
    BY <2>3 DEF Contract!Init, Contract!Created
<1>2. SeenInv /\ SeenInv' /\ [AnyNext]_vars => [Contract!Next]_RunAsSeen
  BY NextSeen
<1> QED
  BY <1>1, <1>2, SeenInvAlways, PTL DEF AnySpec, KeepsContract, Contract!Spec

(***************************************************************************)
(* The runtime implements its contract with the callers of QueryService:   *)
(* through every crash, retry, lost reply and recovery, the run they see   *)
(* changes only as an outcome, a decision, a cancellation or a recovery    *)
(* may change it.                                                          *)
(***************************************************************************)
THEOREM ContractKept ==
    ASSUME Chained
    PROVE  Spec => KeepsContract
BY SpecIsAny, AnyKeepsContract, PTL

-----------------------------------------------------------------------------
(* The accounts of a run that is over.                                     *)

\* What is on record of a run that ended.
EndInv ==
    /\ \A s \in Steps : step[s] = "manual_intervention" => run = "manual_intervention"
    /\ run = "compensated" => PendingCompensations(step, attempts) = {}
    /\ run = "failed" => CompensableEffects(step, attempts["forward"]) = {}

\* Nothing is added to the record of a run that failed or was compensated.
LEMMA EndIsFinal ==
    ASSUME RuntimeInv, QuietInv, BarrierInv, run \in {"failed", "compensated"}, [AnyNext]_vars
    PROVE  /\ attempts' = attempts
           /\ \A s \in Steps : step'[s] = "succeeded" <=> step[s] = "succeeded"
<1>0. /\ TypeInv /\ QueueInv /\ DatabaseInv /\ OwnedInv
      /\ \A u \in Steps : step[u] \notin {"running", "result_unknown"}
      /\ \A u \in Steps : ~CompensationRuns(u)
  BY AttemptInvParts DEF RuntimeInv, FuturesInv, QuietInv, QuietEnd, SoleCompensation
<1>1. \A p \in Phases, s \in Steps : \A n \in DOMAIN attempts[p][s] :
         attempts[p][s][n].status # "running"
  BY <1>0 DEF DatabaseInv, OneForwardAttempt, CompensationRuns, Phases
<1>2. CASE UNCHANGED database
  BY <1>2 DEF database
<1>3. ~Persists
  <2> SUFFICES ASSUME NEW t \in threads, t.hold = "owned"
               PROVE  FALSE
    BY DEF Persists, Collect, Expire, CloseOutcome
  <2> QED
    BY <1>0, <1>1 DEF OwnedInv, TypeInv, LooseTypeOK, Future
<1>4. ~Starts /\ ~Compensates
  BY DEF Starts, Compensates, StartAttempt, SubmissionFails, StartCompensation,
     CompensationSubmissionFails, Compensating, ForwardRunStates
<1>5. ASSUME Establishes \/ Decides \/ CancelRun
      PROVE  UNCHANGED <<step, attempts>>
  BY <1>5 DEF Establishes, EstablishApprovalBarrier, Decides, Decide, CancelRun
<1>6. CASE Promotes
  BY <1>6 DEF Promotes, PromoteDependencyReadySteps, PromoteDueRetries, ForwardRunStates,
     TerminalRunStates
<1>7. ~Resolves
  <2> SUFFICES ASSUME NEW r \in rq
               PROVE  FALSE
    BY DEF Resolves
  <2>1. \/ attempts[r.phase][r.step][r.no].status = "running"
        \/ step[r.step] = "result_unknown"
    BY DEF RuntimeInv, AttemptInv, RecoverInv
  <2>2. r.step \in Steps /\ r.phase \in Phases /\ r.no \in DOMAIN attempts[r.phase][r.step]
    BY DEF RuntimeInv, QueueInv, TypeInv, LooseTypeOK, AttemptRef
  <2> QED
    BY <1>0, <1>1, <2>1, <2>2
<1> QED
  BY <1>2, <1>3, <1>4, <1>5, <1>6, <1>7, DatabaseActions

\* A run is compensated, or fails, with nothing left to undo.
LEMMA EndsAreClear ==
    ASSUME RuntimeInv, RuntimeInv', QuietInv, [AnyNext]_vars,
           run \notin {"failed", "compensated"}
    PROVE  /\ run' = "compensated" => PendingCompensations(step', attempts') = {}
           /\ run' = "failed" => CompensableEffects(step', attempts'["forward"]) = {}
<1>0. TypeInv /\ TypeInv' /\ QueueInv /\ AttemptInv /\ DatabaseInv /\ OwnedInv
  BY AttemptInvParts DEF RuntimeInv, FuturesInv
<1>1. CASE UNCHANGED database
  BY <1>1 DEF database
<1>2. CASE Persists
  <2>1. PICK t \in threads : t.hold = "owned" /\ \E out \in Outcomes \cup {"none"} :
                                 PersistOutcome(t, out)
    BY <1>0, <1>2 DEF Persists, Collect, Expire, CloseOutcome, Outcomes, Failures, TypeInv,
       LooseTypeOK, Future
  <2>2. PICK out \in Outcomes \cup {"none"} : PersistOutcome(t, out)
    BY <2>1
  <2>3. /\ t.phase = "forward" => PersistForward(t.step, t.no, out)
        /\ t.phase = "compensation" => PersistCompensation(t.step, t.no, out)
        /\ t.phase \in Phases
    BY <1>0, <2>1, <2>2, PersistCompletes, OwnedSteps
  <2>4. CASE PersistForward(t.step, t.no, out)
    <3>1. PICK q : /\ step' = [step EXCEPT ![t.step] = q]
                   /\ run' = RunAfterForward(run, t.step, q, attempts')
      BY <2>4 DEF PersistForward
    <3> QED
      BY <3>1 DEF RunAfterForward
  <2>5. CASE PersistCompensation(t.step, t.no, out)
    BY <2>5 DEF PersistCompensation
  <2> QED
    BY <2>3, <2>4, <2>5 DEF Phases
<1>3. CASE Starts
  <2>1. PICK s \in Steps : StartAttempt(s) \/ SubmissionFails(s)
    BY <1>3 DEF Starts
  <2>2. CASE StartAttempt(s)
    BY <2>2 DEF StartAttempt
  <2>3. CASE SubmissionFails(s)
    <3>1. PICK q : /\ step' = [step EXCEPT ![s] = q]
                   /\ run' = RunAfterForward("running", s, q, attempts')
      BY <2>3 DEF SubmissionFails
    <3> QED
      BY <3>1 DEF RunAfterForward
  <2> QED
    BY <2>1, <2>2, <2>3
<1>4. CASE Establishes \/ Compensates \/ Promotes \/ Decides \/ CancelRun
  <2>1. run' \in {run, "waiting_approval", "manual_intervention", "running", "cancelled",
                  "compensating"}
    BY <1>4 DEF Establishes, EstablishApprovalBarrier, Compensates, StartCompensation,
       CompensationSubmissionFails, Promotes, PromoteDependencyReadySteps, PromoteDueRetries,
       Decides, Decide, RejectionTarget, CancelRun
  <2> QED
    BY <2>1
<1>5. CASE Resolves
  <2>1. PICK r \in rq : RecoverApplied(r) \/ RecoverNotApplied(r) \/ RecoverManually(r)
    BY <1>5 DEF Resolves
  <2>2. /\ r.step \in Steps /\ r.phase \in Phases
        /\ r.phase = "forward" => step[r.step] \in {"running", "result_unknown"}
        /\ r.phase = "compensation" => step' = step
    BY <1>0, <2>1, RecoverCompletes
  <2>3. r.phase = "forward" => run # "compensating"
    BY <2>2 DEF QuietInv, QuietEnd
  <2>4. run' # "failed"
    BY <2>1 DEF RecoverApplied, RecoverNotApplied, RecoverManually, RunAfterApplied
  <2>5. ASSUME run' = "compensated"
        PROVE  r.phase = "compensation" /\ PendingCompensations(step, attempts') = {}
    BY <2>1, <2>2, <2>3, <2>5 DEF RecoverApplied, RecoverNotApplied, RecoverManually,
       RunAfterApplied, Phases
  <2> QED
    BY <2>2, <2>4, <2>5
<1> QED
  BY <1>1, <1>2, <1>3, <1>4, <1>5, DatabaseActions

\* Only an operator's part of recovery leaves a step to manual intervention.
LEMMA ManualSteps ==
    ASSUME RuntimeInv, RuntimeInv', [AnyNext]_vars,
           NEW s \in Steps, step'[s] = "manual_intervention"
    PROVE  step[s] = "manual_intervention" \/ run' = "manual_intervention"
<1>0. TypeInv /\ TypeInv' /\ QueueInv /\ AttemptInv /\ step \in [Steps -> StepStates]
  BY DEF RuntimeInv, TypeInv, LooseTypeOK
<1>1. CASE UNCHANGED database
  BY <1>1 DEF database
<1>2. CASE Persists
  <2>0. PICK t \in threads : \E out : PersistOutcome(t, out)
    BY <1>2 DEF Persists, Collect, Expire, CloseOutcome
  <2>1. PICK out : PersistOutcome(t, out)
    BY <2>0
  <2>2. CASE PersistForward(t.step, t.no, out)
    BY <1>0, <2>2 DEF PersistForward, NextStepState
  <2>3. CASE PersistCompensation(t.step, t.no, out)
    BY <2>3 DEF PersistCompensation
  <2> QED
    BY <2>1, <2>2, <2>3 DEF PersistOutcome
<1>3. CASE Starts
  BY <1>0, <1>3 DEF Starts, StartAttempt, SubmissionFails, NextStepState
<1>4. CASE Establishes \/ Compensates \/ Promotes \/ Decides \/ CancelRun
  BY <1>4 DEF Establishes, EstablishApprovalBarrier, Compensates, StartCompensation,
     CompensationSubmissionFails, Promotes, PromoteDependencyReadySteps, PromoteDueRetries,
     Decides, Decide, CancelRun
<1>5. CASE Resolves
  BY <1>0, <1>5 DEF Resolves, RecoverApplied, RecoverNotApplied, RecoverManually,
     StepAfterRecovery
<1> QED
  BY <1>1, <1>2, <1>3, <1>4, <1>5, DatabaseActions

LEMMA NextEnds ==
    ASSUME RuntimeInv, RuntimeInv', BarrierInv, QuietInv, EndInv, [AnyNext]_vars
    PROVE  EndInv'
<1>1. RunStaysOver
  BY NextStaysOver DEF RuntimeInv
<1>2. \A s \in Steps : step'[s] = "manual_intervention" => run' = "manual_intervention"
  BY <1>1, ManualSteps DEF EndInv, RunStaysOver, TerminalRunStates
<1>3. CASE run \in {"failed", "compensated"}
  <2>1. /\ run' = run /\ attempts' = attempts
        /\ \A s \in Steps : step'[s] = "succeeded" <=> step[s] = "succeeded"
    BY <1>1, <1>3, EndIsFinal DEF RunStaysOver, TerminalRunStates
  <2>2. CompensableEffects(step', attempts'["forward"])
           = CompensableEffects(step, attempts["forward"])
    BY <2>1, CompensableAssumption DEF CompensableEffects
  <2>3. PendingCompensations(step', attempts') = PendingCompensations(step, attempts)
    BY <2>1, <2>2 DEF PendingCompensations
  <2> QED
    BY <1>2, <2>1, <2>2, <2>3 DEF EndInv
<1>4. CASE run \notin {"failed", "compensated"}
  BY <1>2, <1>4, EndsAreClear DEF EndInv
<1> QED
  BY <1>3, <1>4

LEMMA EndInvAlways ==
    ASSUME Chained
    PROVE  AnySpec => []EndInv
<1>1. Init => EndInv
  BY DEF Init, EndInv
<1>2. RuntimeInv /\ RuntimeInv' /\ BarrierInv /\ QuietInv /\ EndInv /\ [AnyNext]_vars => EndInv'
  BY NextEnds
<1> QED
  BY <1>1, <1>2, ChainedIsAlone, RuntimeInvAlways, BarrierInvAlways, QuietInvAlways, PTL
     DEF AnySpec

\* The effect of a step of a run that is over is on record.
LEMMA EffectsOnRecord ==
    ASSUME TypeInv, QuietInv, AccountInv, EndInv, run \in {"failed", "compensated"},
           NEW s \in Compensable, effects["forward"][s] > 0
    PROVE  s \in CompensableEffects(step, attempts["forward"]) /\ s \in Effectful
<1>1. s \in Steps
  BY CompensableAssumption
<1>2. step[s] = "succeeded"
  <2>1. step[s] \in StepStates /\ ~(effects["forward"][s] = 0)
    BY <1>1 DEF TypeInv, LooseTypeOK, Phases
  <2> QED
    BY <1>1, <2>1 DEF QuietInv, QuietEnd, EndInv, AccountInv, RecordInv, NoEffectYet,
       StepStates
<1> QED
  BY <1>1, <1>2 DEF CompensableEffects, AccountInv, RecordInv, EffectKnown, Reported, UndoneInv

(***************************************************************************)
(* A compensated run has undone, in the outside world, every compensable   *)
(* effect of its steps: no effect is lost between the world and the        *)
(* attempts on record, and no compensation is reported that undid nothing. *)
(***************************************************************************)
THEOREM CompensationUndoes ==
    ASSUME Chained, LateEffects = FALSE
    PROVE  Spec => []CompensatedUndoesAll
<1>1. TypeInv /\ QuietInv /\ AccountInv /\ EndInv => CompensatedUndoesAll
  <2> SUFFICES ASSUME TypeInv, QuietInv, AccountInv, EndInv, run = "compensated",
                      NEW s \in Compensable, effects["forward"][s] > 0
               PROVE  effects["compensation"][s] > 0
    BY DEF CompensatedUndoesAll
  <2>1. s \in CompensableEffects(step, attempts["forward"]) /\ s \in Effectful /\ s \in Steps
    BY EffectsOnRecord, CompensableAssumption
  <2>2. Compensated(attempts["compensation"], s)
    BY <2>1 DEF EndInv, PendingCompensations
  <2> QED
    BY <2>1, <2>2 DEF AccountInv, RecordInv, UndoneInv
<1>2. RuntimeInv => TypeInv
  BY DEF RuntimeInv
<1> QED
  BY <1>1, <1>2, ChainedIsAlone, SpecIsAny, RuntimeInvAlways, QuietInvAlways,
     AccountInvAlways, EndInvAlways, PTL

(***************************************************************************)
(* A failed run has no compensable effect in the outside world: it failed  *)
(* because there was nothing to compensate.                                *)
(***************************************************************************)
THEOREM FailureLeavesNothing ==
    ASSUME Chained, LateEffects = FALSE
    PROVE  Spec => []FailedLeavesNothing
<1>1. TypeInv /\ QuietInv /\ AccountInv /\ EndInv => FailedLeavesNothing
  <2> SUFFICES ASSUME TypeInv, QuietInv, AccountInv, EndInv, run = "failed",
                      NEW s \in Compensable
               PROVE  effects["forward"][s] = 0
    BY DEF FailedLeavesNothing
  <2>1. ~(effects["forward"][s] > 0)
    BY EffectsOnRecord DEF EndInv
  <2>2. effects["forward"][s] \in Nat
    BY CompensableAssumption DEF TypeInv, LooseTypeOK, Phases
  <2> QED
    BY <2>1, <2>2
<1>2. RuntimeInv => TypeInv
  BY DEF RuntimeInv
<1> QED
  BY <1>1, <1>2, ChainedIsAlone, SpecIsAny, RuntimeInvAlways, QuietInvAlways,
     AccountInvAlways, EndInvAlways, PTL
=============================================================================
