----------------------------- MODULE Credentials -----------------------------
(***************************************************************************)
(* `swarm auth` (cli/auth.py): the credentials file, which commands read,  *)
(* extend and replace by way of one temporary file, and the walk through   *)
(* the services. Commands are processes; several may run at once and any   *)
(* may be killed between two steps. A credential is its key; a file is the *)
(* set of keys it holds.                                                   *)
(***************************************************************************)
EXTENDS FiniteSets, Naturals, Sequences

CONSTANTS Commands,    \* the processes
          Services,    \* AUTH_SERVICES, in order
          Adc,         \* those whose method is "adc": gcloud keeps their credentials
          Tested,      \* those with a command that verifies the credential
          Required,
          Environment, \* those whose key is an environment variable
          Selections,  \* what --only may select: all, without it
          Nothing

\* What the constants are meant to be; the MC module assumes it.
CredentialsAssumption == /\ Services \in Seq({Services[i] : i \in DOMAIN Services})
                         /\ Required \subseteq {Services[i] : i \in DOMAIN Services}

VARIABLES file,        \* ~/.swarm/credentials
          tmp,         \* ~/.swarm/credentials.tmp, or Nothing
          pc,          \* of each command
          at,          \* the service setup has come to
          data,        \* what the command will write
          summary,     \* its verdict on each service
          only,        \* the services it was asked for
          stored,      \* credentials reported as stored and not as removed
          overlapped   \* two commands have been under way at once

vars == <<file, tmp, pc, at, data, summary, only, stored, overlapped>>

Names == {Services[i] : i \in DOMAIN Services}

Init == /\ file \in SUBSET (Names \ Adc)
        /\ tmp = Nothing
        /\ pc = [c \in Commands |-> "idle"]
        /\ at = [c \in Commands |-> 1]
        /\ data = [c \in Commands |-> {}]
        /\ summary = [c \in Commands |-> [s \in Names |-> "missing"]]
        /\ only = [c \in Commands |-> Names]
        /\ stored = file
        /\ overlapped = FALSE

UnderWay == {c \in Commands : pc[c] \notin {"idle", "ended"}}

credential_exists(s) == s \in Environment \cup file

\* verify_credential runs the service's command, if it has one.
Verdicts(s) == IF s \in Tested THEN {"ok", "failed"} ELSE {"ok"}

Goto(c, where) == pc' = [pc EXCEPT ![c] = where]

Start(c, where) ==
    /\ pc[c] = "idle"
    /\ Goto(c, where)
    /\ overlapped' = (overlapped \/ UnderWay # {})

Next_service(c, verdict) ==
    /\ summary' = [summary EXCEPT ![c][Services[at[c]]] = verdict]
    /\ at' = [at EXCEPT ![c] = @ + 1]

(* A variant with a plausible mistake. *)

\* Variant: the credentials are written in place.
Truncate_inPlace(c) ==
    /\ pc[c] = "loaded"
    /\ tmp' = {} /\ file' = {}
    /\ Goto(c, "truncated")
    /\ UNCHANGED <<at, data, summary, only, stored, overlapped>>

-----------------------------------------------------------------------------
(* save_credential and the file part of auth_clear. *)

Truncate(c) ==
    /\ pc[c] = "loaded"
    /\ tmp' = {}
    /\ Goto(c, "truncated")
    /\ UNCHANGED <<file, at, data, summary, only, stored, overlapped>>

WriteLines(c) ==
    /\ pc[c] = "truncated"
    /\ tmp' = data[c]
    /\ Goto(c, "written")
    /\ UNCHANGED <<file, at, data, summary, only, stored, overlapped>>

\* tmp.replace(CREDENTIALS_FILE): raises if another command took the file away.
Replace(c) ==
    /\ pc[c] = "written"
    /\ IF tmp = Nothing
       THEN Goto(c, "ended") /\ UNCHANGED <<file, tmp, at, summary, stored>>
       ELSE /\ file' = tmp
            /\ tmp' = Nothing
            /\ \/ /\ at[c] \in DOMAIN Services          \* setup goes on to the next service
                  /\ stored' = stored \cup {Services[at[c]]}
                  /\ \E v \in Verdicts(Services[at[c]]) : Next_service(c, v)
                  /\ Goto(c, "walking")
               \/ /\ at[c] \notin DOMAIN Services       \* clear is done
                  /\ stored' = stored \cap data[c]
                  /\ Goto(c, "ended")
                  /\ UNCHANGED <<at, summary>>
    /\ UNCHANGED <<data, only, overlapped>>

-----------------------------------------------------------------------------
(* auth setup *)

auth_setup(c) ==
    /\ Start(c, "walking")
    /\ \E selected \in Selections : only' = [only EXCEPT ![c] = selected]
    /\ UNCHANGED <<file, tmp, at, data, summary, stored>>

Walks(c) == pc[c] = "walking" /\ at[c] \in DOMAIN Services /\ Services[at[c]] \in only[c]

\* The loop goes through the services that --only selects.
NotSelected(c) ==
    /\ pc[c] = "walking" /\ at[c] \in DOMAIN Services
    /\ Services[at[c]] \notin only[c]
    /\ at' = [at EXCEPT ![c] = @ + 1]
    /\ UNCHANGED <<file, tmp, pc, data, summary, only, stored, overlapped>>

\* --skip-existing is always set.
SkipExisting(c) ==
    /\ Walks(c)
    /\ credential_exists(Services[at[c]])
    /\ Next_service(c, "skipped")
    /\ UNCHANGED <<file, tmp, pc, data, only, stored, overlapped>>

\* gcloud logs in, or not; nothing is stored here.
run_adc_flow(c) ==
    /\ Walks(c)
    /\ ~credential_exists(Services[at[c]])
    /\ Services[at[c]] \in Adc
    /\ \E v \in Verdicts(Services[at[c]]) : Next_service(c, v)
    /\ UNCHANGED <<file, tmp, pc, data, only, stored, overlapped>>

\* No value entered; or a value, and the file is read to be extended.
run_apikey_flow(c) ==
    /\ Walks(c)
    /\ ~credential_exists(Services[at[c]])
    /\ Services[at[c]] \notin Adc
    /\ \/ /\ Next_service(c, "failed")
          /\ UNCHANGED <<pc, data>>
       \/ /\ data' = [data EXCEPT ![c] = file \cup {Services[at[c]]}]
          /\ Goto(c, "loaded")
          /\ UNCHANGED <<summary, at>>
    /\ UNCHANGED <<file, tmp, only, stored, overlapped>>

\* auth setup --check: no service is stored or skipped.
run_auth_check(c) ==
    /\ Start(c, "checked")
    /\ at' = [at EXCEPT ![c] = Len(Services) + 1]
    /\ \E selected \in Selections, v \in [Names -> {"ok", "failed", "missing"}] :
           /\ \A s \in Names : v[s] \in IF s \in selected /\ credential_exists(s)
                                      THEN Verdicts(s) ELSE {"missing"}
           /\ summary' = [summary EXCEPT ![c] = v]
           /\ only' = [only EXCEPT ![c] = selected]
    /\ UNCHANGED <<file, tmp, data, stored>>

\* Exit status 1 when a required service that was asked for is failed or missing.
Exit(c) ==
    /\ pc[c] \in {"walking", "checked"}
    /\ at[c] \notin DOMAIN Services
    /\ Goto(c, "ended")
    /\ UNCHANGED <<file, tmp, at, data, summary, only, stored, overlapped>>

Complete(c) == \A s \in Required \cap only[c] : summary[c][s] \notin {"failed", "missing"}

\* auth clear: nothing to do without a stored value.
auth_clear(c, s) ==
    /\ IF s \in file THEN Start(c, "loaded") ELSE Start(c, "ended")
    /\ at' = [at EXCEPT ![c] = Len(Services) + 1]
    /\ data' = [data EXCEPT ![c] = file \ {s}]
    /\ UNCHANGED <<file, tmp, summary, only, stored>>

\* A process may be killed anywhere.
Kill(c) ==
    /\ c \in UnderWay
    /\ Goto(c, "ended")
    /\ UNCHANGED <<file, tmp, at, data, summary, only, stored, overlapped>>

Next == \E c \in Commands :
            \/ auth_setup(c) \/ NotSelected(c) \/ SkipExisting(c) \/ run_adc_flow(c) \/ run_apikey_flow(c)
            \/ run_auth_check(c) \/ Exit(c) \/ Kill(c)
            \/ Truncate(c) \/ WriteLines(c) \/ Replace(c)
            \/ \E s \in Names : auth_clear(c, s)

Spec == Init /\ [][Next]_vars

-----------------------------------------------------------------------------
(* Properties. *)

\* As long as commands run one after another, and wherever one is killed, the
\* file holds all the credentials that were reported as stored and not removed;
\* and a setup that ends as complete leaves no required key missing of those it
\* was asked for, except those gcloud keeps itself, which the check will then
\* report as missing.
StoredIsKept ==
    ~overlapped =>
        /\ file = stored
        /\ \A c \in Commands : pc[c] = "walking" /\ at[c] \notin DOMAIN Services /\ Complete(c)
               => \A s \in (Required \cap only[c]) \ Adc : credential_exists(s)

=============================================================================
