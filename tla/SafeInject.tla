------------------------------ MODULE SafeInject ------------------------------
(***************************************************************************)
(* The path of a POST through the subject filter and the audit log:        *)
(* safe_inject_queue_starve (safe_chaos.hpp), HttpTestClient::post and     *)
(* post_raw (http_test_client.cpp), require_subject_allowed                *)
(* (subject_filter.hpp) and ChaosAuditLog::emit* (chaos_audit.hpp).        *)
(*                                                                         *)
(* A subject is known by its relation to the configured prefix, a reply by *)
(* the shape of its body.  The environment variables are read at every     *)
(* check; tests set them only between calls.                               *)
(***************************************************************************)

VARIABLES
  disabled, \* CHARYBDIS_SUBJECT_FILTER_DISABLED is exactly "1"
  prefix,   \* the prefix in force: "given", or explicitly "empty"
  entry,    \* the function the test calls
  path,     \* the path as the caller spells it
  subject,  \* the subject in the body
  pc,       \* the function that runs now
  sent,     \* the request reached run_with_retry, and so the network
  reply,    \* the shape of the body that run_with_retry returned
  outcome,  \* of the call: "none" yet, "returned", or the exception it threw
  records   \* audit records the call has written: <<action, fault id or "">>

vars == <<disabled, prefix, entry, path, subject, pc, sent, reply, outcome, records>>
inputs == <<disabled, prefix, entry, path, subject>>

Entry == {"safe_inject", "post", "post_raw"}

\* "/v1/chaos/queue-starve" itself, another spelling of it, with a slash or a
\* query at its end, and the path of another resource.
Path == {"queue-starve", "queue-starve/", "other"}

\* The stub parses the path and strips the slashes at its end before it looks
\* for the fault type.
Served(p) == IF p \in {"queue-starve", "queue-starve/"} THEN "queue-starve" ELSE "other"

\* "absent": no subject field, not a string, or empty; "malformed": a raw body
\* that is not JSON.
Subject == {"inside", "outside", "absent", "malformed"}

\* "fault" carries a string id, "no_id" is an object without one, "bad_id" has
\* an id that is not a string, "not_utf8" is a reply that parse_body wraps as
\* {"raw": ...} with bytes that dump() refuses, "not_object" is an array or a
\* scalar, and "null" is the body of {0, {}} after a transport failure.
Reply == {"fault", "no_id", "bad_id", "not_utf8", "not_object", "null"}

Init ==
  /\ disabled = FALSE /\ prefix = "given" /\ entry = "post" /\ path = "other"
  /\ subject = "inside" /\ pc = "idle" /\ sent = FALSE /\ reply = "null"
  /\ outcome = "none" /\ records = {}

-------------------------------------------------------------------------------
(* The guards: what require_subject_allowed and enforce_queue_starve_subject *)
(* throw, or "pass".                                                         *)

\* subject_allowed(): a non-empty subject that starts with a non-empty prefix.
SubjectAllowed == prefix = "given" /\ subject = "inside"

RequireSubjectAllowed ==
  CASE disabled -> "pass"
    [] ~disabled /\ prefix = "empty" -> "config_error"
    [] ~disabled /\ prefix # "empty" /\ ~SubjectAllowed -> "violation"
    [] OTHER -> "pass"

\* The choke point in post() and post_raw(); a raw body that does not parse is
\* refused like one without a subject.
EnforceSubject ==
  IF subject \in {"absent", "malformed"} THEN "violation" ELSE RequireSubjectAllowed

-------------------------------------------------------------------------------
\* A test calls one of the three functions; only post_raw takes a raw body.
Start(d, p, e, t, s) ==
  /\ pc = "idle"
  /\ s = "malformed" => e = "post_raw"
  /\ e = "safe_inject" => t = "queue-starve"
  /\ disabled' = d /\ prefix' = p /\ entry' = e /\ path' = t /\ subject' = s
  /\ pc' = e
  /\ sent' = FALSE /\ reply' = "null" /\ outcome' = "none" /\ records' = {}

Throw(exception) ==
  /\ pc' = "idle" /\ outcome' = exception
  /\ UNCHANGED <<inputs, sent, reply>>

Goto(f) ==
  /\ pc' = f
  /\ UNCHANGED <<inputs, sent, reply, outcome, records>>

\* A wrapper that rethrows every refusal without recording it.
WrapperGuardSilent ==
  /\ pc = "safe_inject"
  /\ IF RequireSubjectAllowed = "pass"
     THEN Goto("post")
     ELSE Throw(RequireSubjectAllowed) /\ UNCHANGED records

\* safe_inject_queue_starve: only SubjectFilterViolation is caught, recorded
\* and rethrown; the guard passed, it calls post().
WrapperGuard ==
  /\ pc = "safe_inject"
  /\ LET verdict == RequireSubjectAllowed
     IN  IF verdict = "pass"
         THEN Goto("post")
         ELSE /\ Throw(verdict)
              /\ records' = IF verdict = "violation"
                            THEN records \cup {<<"filter_reject", "">>} ELSE records

\* A gate that forgets to look at the path.
PostGateOnEveryPath ==
  /\ pc = "post"
  /\ IF EnforceSubject # "pass"
     THEN Throw(EnforceSubject) /\ UNCHANGED records
     ELSE Goto("post_raw")

\* post() and post_raw() run the same gate on the path that is spelt exactly so.
PostGate ==
  /\ pc = "post"
  /\ IF path = "queue-starve" /\ EnforceSubject # "pass"
     THEN Throw(EnforceSubject) /\ UNCHANGED records
     ELSE Goto("post_raw")

\* A raw POST that trusts its caller.
PostRawUngated ==
  /\ pc = "post_raw"
  /\ pc' = "send" /\ sent' = TRUE
  /\ UNCHANGED <<inputs, reply, outcome, records>>

PostRawGate ==
  /\ pc = "post_raw"
  /\ IF path = "queue-starve" /\ EnforceSubject # "pass"
     THEN Throw(EnforceSubject) /\ UNCHANGED <<records>>
     ELSE /\ pc' = "send" /\ sent' = TRUE
          /\ UNCHANGED <<inputs, reply, outcome, records>>

\* run_with_retry comes back; post() and post_raw() return what it returned.
Receive(r) ==
  /\ pc = "send"
  /\ reply' = r
  /\ IF entry = "safe_inject"
     THEN pc' = "log_inject" /\ UNCHANGED outcome
     ELSE pc' = "idle" /\ outcome' = "returned"
  /\ UNCHANGED <<inputs, sent, records>>

\* A record copied from emit_remove with its action left as it was.
LogInjectAsRemove ==
  /\ pc = "log_inject"
  /\ IF reply \in {"fault", "no_id"}
     THEN /\ records' = records \cup {<<"remove", IF reply = "fault" THEN "id" ELSE "">>}
          /\ pc' = "idle" /\ outcome' = "returned"
          /\ UNCHANGED <<inputs, sent, reply>>
     ELSE Throw("type_error") /\ UNCHANGED records

\* log_inject() -> emit(): value("id", "") throws unless the body is an object
\* whose id, if any, is a string; write_line() throws on what dump() cannot
\* encode; after it safe_inject returns.
LogInject ==
  /\ pc = "log_inject"
  /\ IF reply \in {"fault", "no_id"}
     THEN /\ records' = records \cup {<<"inject", IF reply = "fault" THEN "id" ELSE "">>}
          /\ pc' = "idle" /\ outcome' = "returned"
          /\ UNCHANGED <<inputs, sent, reply>>
     ELSE Throw("type_error") /\ UNCHANGED records

Next ==
  \/ \E d \in BOOLEAN, p \in {"given", "empty"}, e \in Entry,
        t \in Path, s \in Subject : Start(d, p, e, t, s)
  \/ WrapperGuard \/ PostGate \/ PostRawGate
  \/ \E r \in Reply : Receive(r)
  \/ LogInject

Spec == Init /\ [][Next]_vars

-------------------------------------------------------------------------------
(* Properties. *)

TypeOK ==
  /\ disabled \in BOOLEAN /\ prefix \in {"given", "empty"} /\ entry \in Entry
  /\ path \in Path /\ subject \in Subject
  /\ pc \in {"idle", "safe_inject", "post", "post_raw", "send", "log_inject"}
  /\ sent \in BOOLEAN /\ reply \in Reply
  /\ outcome \in {"none", "returned", "violation", "config_error", "type_error"}
  /\ records \subseteq {"filter_reject", "inject"} \X {"id", ""}

\* A subject that the filter lets through: an explicit one and, unless the
\* filter is disabled, one inside the prefix.
SubjectIsFiltered ==
  subject \in {"inside", "outside"} /\ (disabled \/ (prefix = "given" /\ subject = "inside"))

\* No caller gets a request for the path that the gates compare with on the
\* wire without a subject that the filter lets through: whichever of the three
\* functions it called and whatever the environment.  Of another spelling of
\* the path this says nothing: see NoPostBypassesTheGate.
GatedPathIsFiltered == sent /\ path = "queue-starve" => SubjectIsFiltered

\* A refusal is decided before the network: a call that ended in one of the
\* filter's exceptions sent nothing, and the other paths are never refused.
RefusedBeforeSending ==
  outcome \in {"violation", "config_error"} => ~sent /\ path = "queue-starve"

\* The log of a safe_inject that is over, however it ended, holds the record
\* that is due and no other: for one that returned, an inject record with the
\* id of its reply, if any; for one that the enabled filter refused, a
\* filter_reject record.  A configuration error leaves none, nor does a refusal
\* by post() once the wrapper let the call pass because the filter is disabled,
\* nor does a log that throws: then the request was sent all the same, and a
\* fault may be active that has no record.
RecordsDue ==
  CASE outcome = "returned" -> {<<"inject", IF reply = "fault" THEN "id" ELSE "">>}
    [] outcome = "violation" /\ ~disabled -> {<<"filter_reject", "">>}
    [] OTHER -> {}

LogTellsTheCall ==
  entry = "safe_inject" /\ pc = "idle" =>
    records = RecordsDue /\ (sent <=> outcome \in {"returned", "type_error"})

\* "enforcement lives inside HttpTestClient::post, so no queue-starve POST can
\* bypass the gate" (README.md), "from ANY caller" (safe_chaos.hpp).  Violated:
\* the gates compare the path as it is spelt, the server normalises it.
NoPostBypassesTheGate == sent /\ Served(path) = "queue-starve" => SubjectIsFiltered

\* "status - HTTP status returned by Agamemnon (0 on transport failure)", with
\* an empty fault_id, and "a chaos test must never be broken by a logging
\* problem" (chaos_audit.hpp).  Violated: a transport failure returns a null
\* body, on which emit() throws before it writes.
TransportFailureIsLogged ==
  entry = "safe_inject" /\ pc = "idle" /\ sent /\ reply = "null" =>
    outcome = "returned" /\ records = {<<"inject", "">>}
===============================================================================
