--------------------------- MODULE SafeInject_proofs ---------------------------
(***************************************************************************)
(* The two gates of the subject filter and the records of the wrapper, for *)
(* calls in any number and order.  What the three properties need besides  *)
(* themselves is InStep: where a call is says what its guards have found.  *)
(***************************************************************************)
EXTENDS SafeInject, TLAPS

\* A call that has not come back wrote nothing yet; it is on the network after
\* the gates and not before; and a call of the wrapper has passed its guard
\* once it is beyond it.
InStep ==
  /\ entry = "safe_inject" => path = "queue-starve"
  /\ pc \in {"safe_inject", "log_inject"} => entry = "safe_inject"
  /\ pc # "idle" => outcome = "none" /\ records = {}
  /\ pc \in {"safe_inject", "post", "post_raw"} => ~sent
  /\ pc \in {"send", "log_inject"} => sent
  /\ entry = "safe_inject" /\ pc \notin {"idle", "safe_inject"}
       => RequireSubjectAllowed = "pass"

Inv ==
  /\ TypeOK /\ InStep
  /\ GatedPathIsFiltered /\ RefusedBeforeSending /\ LogTellsTheCall

\* Before the first call nothing was sent, refused or logged.
LEMMA InitInv == Init => Inv
BY DEF Init, Inv, TypeOK, InStep, Entry, Path, Subject, Reply, GatedPathIsFiltered, SubjectIsFiltered,
       RefusedBeforeSending, LogTellsTheCall, RecordsDue

\* What the guards let through: an explicit subject, and one inside the prefix
\* unless the filter is disabled.
LEMMA GateLetsThrough ==
  ASSUME TypeOK, EnforceSubject = "pass"
  PROVE  SubjectIsFiltered
BY DEF TypeOK, EnforceSubject, RequireSubjectAllowed, SubjectAllowed, Subject,
       SubjectIsFiltered

\* A gate throws one of the filter's two exceptions.
LEMMA GateThrows ==
  /\ RequireSubjectAllowed \in {"pass", "violation", "config_error"}
  /\ EnforceSubject \in {"pass", "violation", "config_error"}
BY DEF EnforceSubject, RequireSubjectAllowed

\* What the wrapper's guard passes is refused by the gate only for want of a
\* subject, and only while the filter is disabled.
LEMMA GuardThenGate ==
  ASSUME TypeOK, RequireSubjectAllowed = "pass", EnforceSubject # "pass"
  PROVE  disabled /\ EnforceSubject = "violation"
BY DEF TypeOK, EnforceSubject, RequireSubjectAllowed, SubjectAllowed, Subject

\* Each step of a call keeps the invariant.
LEMMA NextInv == Inv /\ [Next]_vars => Inv'
<1> SUFFICES ASSUME Inv, [Next]_vars PROVE Inv'
  OBVIOUS
<1> USE DEF Inv
<1>1. ASSUME NEW d \in BOOLEAN, NEW p \in {"given", "empty"}, NEW e \in Entry,
             NEW t \in Path, NEW s \in Subject, Start(d, p, e, t, s)
      PROVE  Inv'
  BY <1>1 DEF Start, TypeOK, InStep, Entry, Path, Subject, Reply, GatedPathIsFiltered, SubjectIsFiltered,
              RefusedBeforeSending, LogTellsTheCall, RecordsDue
<1>2. CASE WrapperGuard
  <2>1. CASE RequireSubjectAllowed = "pass"
    <3>1. Goto("post") /\ pc = "safe_inject"
      BY <1>2, <2>1 DEF WrapperGuard
    <3>2. RequireSubjectAllowed' = "pass"
      BY <2>1, <3>1 DEF RequireSubjectAllowed, SubjectAllowed, Goto, inputs
    <3> QED
      BY <3>1, <3>2 DEF Goto, inputs, TypeOK, InStep, GatedPathIsFiltered, SubjectIsFiltered,
                        RefusedBeforeSending, LogTellsTheCall, RecordsDue
  <2>2. CASE RequireSubjectAllowed # "pass"
    <3>1. /\ pc = "safe_inject" /\ Throw(RequireSubjectAllowed)
          /\ records' = IF RequireSubjectAllowed = "violation"
                        THEN records \cup {<<"filter_reject", "">>} ELSE records
      BY <1>2, <2>2 DEF WrapperGuard
    <3>2. entry = "safe_inject" /\ path = "queue-starve" /\ ~sent /\ records = {}
      BY <3>1 DEF InStep
    <3>3. RequireSubjectAllowed \in {"violation", "config_error"} /\ ~disabled
      BY <2>2, GateThrows DEF RequireSubjectAllowed, TypeOK
    <3>4. CASE RequireSubjectAllowed = "violation"
      <4>1. /\ pc' = "idle" /\ outcome' = "violation" /\ UNCHANGED <<inputs, sent, reply>>
            /\ records' = {<<"filter_reject", "">>}
        BY <3>1, <3>2, <3>4 DEF Throw
      <4>2. TypeOK'
        <5>1. <<"filter_reject", "">> \in {"filter_reject", "inject"} \X {"id", ""}
          OBVIOUS
        <5>2. records' \subseteq {"filter_reject", "inject"} \X {"id", ""}
          BY <4>1, <5>1
        <5> QED
          BY <4>1, <5>2 DEF inputs, TypeOK
      <4>3. InStep' /\ GatedPathIsFiltered' /\ RefusedBeforeSending' /\ LogTellsTheCall'
        BY <3>2, <3>3, <4>1 DEF inputs, InStep, GatedPathIsFiltered, SubjectIsFiltered,
                                RefusedBeforeSending, LogTellsTheCall, RecordsDue
      <4> QED
        BY <4>2, <4>3
    <3>5. CASE RequireSubjectAllowed = "config_error"
      <4>1. /\ pc' = "idle" /\ outcome' = "config_error" /\ UNCHANGED <<inputs, sent, reply>>
            /\ records' = {}
        BY <3>1, <3>2, <3>5 DEF Throw
      <4> QED
        BY <3>2, <3>3, <4>1 DEF inputs, TypeOK, InStep, GatedPathIsFiltered, SubjectIsFiltered,
                                RefusedBeforeSending, LogTellsTheCall, RecordsDue
    <3> QED
      BY <3>3, <3>4, <3>5
  <2> QED
    BY <2>1, <2>2
<1>3. ASSUME pc \in {"post", "post_raw"}, path = "queue-starve", EnforceSubject # "pass",
             Throw(EnforceSubject), UNCHANGED records
      PROVE  Inv'
  <2>1. ~sent /\ records = {}
    BY <1>3 DEF InStep
  <2>2. /\ pc' = "idle" /\ outcome' \in {"violation", "config_error"}
        /\ UNCHANGED <<inputs, sent, reply, records>>
    BY <1>3, GateThrows DEF Throw
  <2>3. entry = "safe_inject" => disabled
    BY <1>3, GuardThenGate DEF InStep
  <2> QED
    BY <1>3, <2>1, <2>2, <2>3 DEF inputs, TypeOK, InStep, GatedPathIsFiltered, SubjectIsFiltered,
                                  RefusedBeforeSending, LogTellsTheCall, RecordsDue
<1>4. CASE PostGate
  <2>1. CASE path = "queue-starve" /\ EnforceSubject # "pass"
    BY <1>3, <1>4, <2>1 DEF PostGate
  <2>2. CASE ~(path = "queue-starve" /\ EnforceSubject # "pass")
    <3>1. Goto("post_raw") /\ pc = "post"
      BY <1>4, <2>2 DEF PostGate
    <3>2. RequireSubjectAllowed' = RequireSubjectAllowed
      BY <3>1 DEF RequireSubjectAllowed, SubjectAllowed, Goto, inputs
    <3> QED
      BY <3>1, <3>2 DEF Goto, inputs, TypeOK, InStep, GatedPathIsFiltered, SubjectIsFiltered,
                        RefusedBeforeSending, LogTellsTheCall, RecordsDue
  <2> QED
    BY <2>1, <2>2
<1>5. CASE PostRawGate
  <2>1. CASE path = "queue-starve" /\ EnforceSubject # "pass"
    BY <1>3, <1>5, <2>1 DEF PostRawGate
  <2>2. CASE ~(path = "queue-starve" /\ EnforceSubject # "pass")
    <3>1. /\ pc = "post_raw" /\ pc' = "send" /\ sent' = TRUE
          /\ UNCHANGED <<inputs, reply, outcome, records>>
      BY <1>5, <2>2 DEF PostRawGate
    <3>2. RequireSubjectAllowed' = RequireSubjectAllowed
      BY <3>1 DEF RequireSubjectAllowed, SubjectAllowed, inputs
    <3>3. path = "queue-starve" => SubjectIsFiltered
      BY <2>2, GateLetsThrough
    <3> QED
      BY <3>1, <3>2, <3>3 DEF inputs, TypeOK, InStep, GatedPathIsFiltered, SubjectIsFiltered,
                              RefusedBeforeSending, LogTellsTheCall, RecordsDue
  <2> QED
    BY <2>1, <2>2
<1>6. ASSUME NEW r \in Reply, Receive(r) PROVE Inv'
  <2>1. RequireSubjectAllowed' = RequireSubjectAllowed
    BY <1>6 DEF Receive, RequireSubjectAllowed, SubjectAllowed, inputs
  <2> QED
    BY <1>6, <2>1 DEF Receive, inputs, TypeOK, InStep, GatedPathIsFiltered, SubjectIsFiltered,
                      RefusedBeforeSending, LogTellsTheCall, RecordsDue
<1>7. CASE LogInject
  <2>1. pc = "log_inject" /\ sent /\ records = {} /\ entry = "safe_inject"
    BY <1>7 DEF LogInject, InStep
  <2>2. CASE reply \in {"fault", "no_id"}
    <3>1. /\ records' = {<<"inject", IF reply = "fault" THEN "id" ELSE "">>}
          /\ pc' = "idle" /\ outcome' = "returned" /\ UNCHANGED <<inputs, sent, reply>>
      BY <1>7, <2>1, <2>2 DEF LogInject
    <3>2. TypeOK'
      <4>1. <<"inject", IF reply = "fault" THEN "id" ELSE "">>
              \in {"filter_reject", "inject"} \X {"id", ""}
        OBVIOUS
      <4>2. records' \subseteq {"filter_reject", "inject"} \X {"id", ""}
        BY <3>1, <4>1
      <4> QED
        BY <3>1, <4>2 DEF TypeOK, inputs
    <3> QED
      BY <2>1, <3>1, <3>2 DEF inputs, InStep, GatedPathIsFiltered, SubjectIsFiltered,
                              RefusedBeforeSending, LogTellsTheCall, RecordsDue
  <2>3. CASE reply \notin {"fault", "no_id"}
    <3>1. pc' = "idle" /\ outcome' = "type_error" /\ UNCHANGED <<inputs, sent, reply, records>>
      BY <1>7, <2>3 DEF LogInject, Throw
    <3> QED
      BY <2>1, <3>1 DEF inputs, TypeOK, InStep, GatedPathIsFiltered, SubjectIsFiltered,
                        RefusedBeforeSending, LogTellsTheCall, RecordsDue
  <2> QED
    BY <2>2, <2>3
<1>8. CASE UNCHANGED vars
  <2>1. RequireSubjectAllowed' = RequireSubjectAllowed
    BY <1>8 DEF vars, RequireSubjectAllowed, SubjectAllowed
  <2> QED
    BY <1>8, <2>1 DEF vars, TypeOK, InStep, GatedPathIsFiltered, SubjectIsFiltered,
                      RefusedBeforeSending, LogTellsTheCall, RecordsDue
<1> QED
  BY <1>1, <1>2, <1>4, <1>5, <1>6, <1>7, <1>8 DEF Next

\* The invariant holds throughout.
LEMMA Invariance == Spec => []Inv
BY InitInv, NextInv, PTL DEF Spec

\* The variables keep their types; the log has no record but the wrapper's two
\* kinds (safe_chaos.hpp, chaos_audit.hpp).
THEOREM TypeCorrect == Spec => []TypeOK
<1>1. Inv => TypeOK
  BY DEF Inv
<1> QED
  BY <1>1, Invariance, PTL

\* However many calls are made, by whichever function and in whatever
\* environment, no request that is spelt like the path the gates compare with
\* gets on the wire with a subject the filter forbids (http_test_client.cpp
\* 237-269).  It says nothing of the other spellings that the server accepts.
THEOREM GatedPathStaysFiltered == Spec => []GatedPathIsFiltered
<1>1. Inv => GatedPathIsFiltered
  BY DEF Inv
<1> QED
  BY <1>1, Invariance, PTL

\* What the filter refuses has not been sent, and only queue-starve requests
\* are refused.
THEOREM RefusalsComeFirst == Spec => []RefusedBeforeSending
<1>1. Inv => RefusedBeforeSending
  BY DEF Inv
<1> QED
  BY <1>1, Invariance, PTL

\* However a call of safe_inject_queue_starve ends, the log holds exactly the
\* record that is due; none is due if the log throws, though the request was sent.
THEOREM RecordsAreTrue == Spec => []LogTellsTheCall
<1>1. Inv => LogTellsTheCall
  BY DEF Inv
<1> QED
  BY <1>1, Invariance, PTL
===============================================================================
