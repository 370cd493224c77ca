----------------------------- MODULE ArtifactStore -----------------------------
(***************************************************************************)
(* memory/artifacts.py and the tools that use it: artifact_write,          *)
(* artifact_read and contractor.  None of the registry's coroutines ever   *)
(* waits, so a tool's calls of it are one step.  On Chroma an upsert or a  *)
(* get that raises is logged and swallowed; the fallback is a dict.        *)
(***************************************************************************)
EXTENDS Naturals, Sequences, SequencesExt, FiniteSets, Functions

CONSTANTS Ids, Types,
          Lineages,  \* what a new artifact may name as its parents
          Writers,   \* contractor calls
          MaxAudit,  \* bound on the audit log
          MaxFailures, \* bound on the store's errors
          Depth      \* get_lineage's depth, 10 by default

\* What the constants are meant to be; the MC module assumes it.
StoreAssumption == /\ Lineages \subseteq Seq(Ids)
                   /\ MaxAudit \in Nat /\ MaxFailures \in Nat /\ Depth \in Nat
                   /\ "CDDContract" \in Types

VARIABLES backend,  \* "chroma", or "fallback" without chromadb
          store,    \* id -> what the collection holds
          audit,    \* artifact_audit.jsonl
          clock,    \* artifacts built so far: created_at
          failures, \* errors of the store that were swallowed (history)
          report,   \* report[id]: what a tool reported last for it: the status, and
                    \* (history) which artifact it wrote and its calls that failed
          contract  \* contract[w]: how far a call of contractor is

vars == <<backend, store, audit, clock, failures, report, contract>>

Init == /\ backend \in {"chroma", "fallback"}
        /\ store = << >>
        /\ audit = <<>>
        /\ clock = 0
        /\ failures = 0
        /\ report = [i \in Ids |-> [status |-> "none", created |-> 0, failed |-> {}]]
        /\ contract = [w \in Writers |-> "idle"]

Entry(id, from, to) == [id |-> id, from |-> from, to |-> to]

Artifact(type, lineage) ==
  [type |-> type, lineage |-> lineage, status |-> "draft", created |-> clock + 1]

\* The calls of the store that fail: none of the fallback's.
Failing(calls) == IF backend = "fallback" THEN {{}}
                  ELSE {f \in SUBSET calls : failures + Cardinality(f) <= MaxFailures}

\* _update and the upsert of create(), which fails or not
Upsert(st, id, artifact, fails) ==
  IF fails THEN st ELSE [i \in DOMAIN st \cup {id} |-> IF i = id THEN artifact ELSE st[i]]

-----------------------------------------------------------------------------
\* create(): the audit says "created" even when the upsert failed.
Created(id, artifact, fails) ==
  [store |-> Upsert(store, id, artifact, fails),
   audit |-> Append(audit, Entry(id, "-", "draft"))]

\* get_by_id: an error is as good as no such artifact.
Found(at, id, fails) == id \in DOMAIN at.store /\ ~fails

\* Variant: every transition is logged as one from draft.
Moved_fromDraft(at, id, status, fails) ==
  [store |-> Upsert(at.store, id, [at.store[id] EXCEPT !.status = status], fails),
   audit |-> Append(at.audit, Entry(id, "draft", status))]

\* The rest of approve() and supersede(): from whatever status it has
Moved(at, id, status, fails) ==
  [store |-> Upsert(at.store, id, [at.store[id] EXCEPT !.status = status], fails),
   audit |-> Append(at.audit, Entry(id, at.store[id].status, status))]

Becomes(at) == store' = at.store /\ audit' = at.audit

Reports(id, status, f) ==
  report' = [report EXCEPT ![id] = [status |-> status, created |-> clock + 1, failed |-> f]]

\* Variant: approval trusts the id it is given.
approve_unchecked(at, id, f) ==
  IF Found(at, id, "get" \in f)
  THEN Becomes(Moved(at, id, "approved", "update" \in f)) /\ Reports(id, "approved", f)
  ELSE Becomes(at) /\ Reports(id, "approved", f)

\* approve() and what the calling tool makes of it: of nothing found it asks
\* for the id, and raises.
approve(at, id, f) ==
  IF Found(at, id, "get" \in f)
  THEN Becomes(Moved(at, id, "approved", "update" \in f)) /\ Reports(id, "approved", f)
  ELSE Becomes(at) /\ Reports(id, "error", f)

\* artifact_write: the model may give the id of an artifact there is.
artifact_write(id, type, lineage, auto_approve) ==
  /\ Len(audit) + 2 <= MaxAudit
  /\ clock' = clock + 1
  /\ \E f \in Failing(IF auto_approve THEN {"create", "get", "update"} ELSE {"create"}) :
       LET at == Created(id, Artifact(type, lineage), "create" \in f)
       IN /\ failures' = failures + Cardinality(f)
          /\ \/ auto_approve /\ approve(at, id, f)
             \/ ~auto_approve /\ Becomes(at) /\ Reports(id, "draft", f)
  /\ UNCHANGED <<backend, contract>>

\* supersede(), which answers None when nothing is found
supersede(id) ==
  /\ Len(audit) < MaxAudit
  /\ \E f \in Failing({"get", "update"}) :
       LET at == [store |-> store, audit |-> audit]
       IN /\ failures' = failures + Cardinality(f)
          /\ IF Found(at, id, "get" \in f)
             THEN Becomes(Moved(at, id, "superseded", "update" \in f))
             ELSE UNCHANGED <<store, audit>>
  /\ UNCHANGED <<backend, clock, report, contract>>

\* contractor: the agent contract_writer is at work...
Draft(w) ==
  /\ contract[w] = "idle"
  /\ contract' = [contract EXCEPT ![w] = "writing"]
  /\ UNCHANGED <<backend, store, audit, clock, failures, report>>

\* ...it fails, or answers nothing...
NoDocument(w) ==
  /\ contract[w] = "writing"
  /\ contract' = [contract EXCEPT ![w] = "error"]
  /\ UNCHANGED <<backend, store, audit, clock, failures, report>>

\* ...or its document becomes an approved CDDContract, after the boilerplate
\* was cloned or not (a failure of that is only logged).
Contract(w, id, lineage) ==
  /\ contract[w] = "writing"
  /\ id \notin DOMAIN store /\ report[id].status = "none"
  /\ Len(audit) + 2 <= MaxAudit
  /\ clock' = clock + 1
  /\ \E f \in Failing({"create", "get", "update"}) :
       LET at == Created(id, Artifact("CDDContract", lineage), "create" \in f)
       IN /\ failures' = failures + Cardinality(f)
          /\ approve(at, id, f)
  /\ contract' = [contract EXCEPT ![w] = "done"]
  /\ UNCHANGED backend

Next == \/ \E id \in Ids, type \in Types, lineage \in Lineages, auto \in BOOLEAN :
             artifact_write(id, type, lineage, auto)
        \/ \E id \in Ids : supersede(id)
        \/ \E w \in Writers : Draft(w) \/ NoDocument(w)
                              \/ \E id \in Ids, lineage \in Lineages : Contract(w, id, lineage)

Spec == Init /\ [][Next]_vars

-----------------------------------------------------------------------------
(* get_lineage *)

\* What is above an artifact or, later, above the last of the chain.
Above(id, chain) == store[IF chain = <<>> THEN id ELSE Last(chain)].lineage

\* Variant: the ids seen are forgotten.
Extended_forgets(id, chain) ==
  LET parents == {i \in DOMAIN Above(id, chain) : Above(id, chain)[i] \in DOMAIN store}
  IN IF parents = {} THEN chain ELSE Append(chain, Above(id, chain)[Min(parents)])

\* One round: on to the first parent that was not seen before and can be read.
Extended(id, chain) ==
  LET parents == {i \in DOMAIN Above(id, chain) :
                    Above(id, chain)[i] \in DOMAIN store \ ToSet(chain)}
  IN IF parents = {} THEN chain ELSE Append(chain, Above(id, chain)[Min(parents)])

Walk(id) ==
  LET walk[n \in 0..Depth] == IF n = 0 THEN <<>> ELSE Extended(id, walk[n - 1])
  IN walk[Depth]

get_lineage(id) == IF id \in DOMAIN store THEN Walk(id) ELSE <<>>

\* list_by_type: a query that raises is logged, and finds nothing.
_query_where(type, fails) == IF fails THEN {} ELSE {id \in DOMAIN store : store[id].type = type}

get_latest_by_type(type, status, fails) ==
  LET matching == {id \in _query_where(type, fails) : store[id].status = status}
  IN {id \in matching : \A other \in matching : store[other].created <= store[id].created}

\* latest_by_type of artifact_read, for a status or any: "approved" by default.
\* If nothing is found, a draft; f names the queries that fail.
Filters == {"draft", "approved", "superseded", "any"}
Wanted(status_filter) == IF status_filter = "any" THEN "approved" ELSE status_filter

artifact_read(type, status_filter, f) ==
  LET asked == get_latest_by_type(type, Wanted(status_filter), "asked" \in f)
  IN IF asked # {} THEN asked ELSE get_latest_by_type(type, "draft", "fallback" \in f)

-----------------------------------------------------------------------------
(* What a tool reports as approved is stored: as the artifact it wrote,     *)
(* unless its create() failed and an artifact was there under the same id,  *)
(* and as approved or later superseded, unless its update failed: the store *)
(* swallows both (artifacts.py:127, 168).  Whatever else failed, before,    *)
(* after or under other ids, makes no difference.                           *)
ApprovedWasStored ==
  \A id \in Ids : report[id].status = "approved" =>
    /\ id \in DOMAIN store /\ "get" \notin report[id].failed
    /\ "create" \notin report[id].failed => store[id].created = report[id].created
    /\ "update" \notin report[id].failed => store[id].status \in {"approved", "superseded"}

LastAudit(id) == CHOOSE i \in DOMAIN audit :
                   audit[i].id = id /\ \A j \in DOMAIN audit : audit[j].id = id => j <= i

(* As long as the store did not fail, the audit log tells the history of    *)
(* every artifact: each entry begins where the one before it ended, and the *)
(* last is the status in the store (artifacts.py:105), also when a write    *)
(* with an old id replaces an artifact.                                     *)
AuditTellsStatus ==
  failures = 0 =>
    /\ \A i, j \in DOMAIN audit :
         (i < j /\ audit[i].id = audit[j].id /\ audit[j].from # "-"
            /\ \A k \in i + 1..j - 1 : audit[k].id # audit[i].id)
              => audit[j].from = audit[i].to
    /\ \A id \in DOMAIN store : audit[LastAudit(id)].to = store[id].status

(* The lineage that is shown is one path of ancestors without repetition,   *)
(* though artifacts may name each other, themselves, or none that exists    *)
(* (artifacts.py:208).                                                      *)
LineageIsAPath ==
  \A id \in DOMAIN store :
    LET chain == get_lineage(id)
        from(i) == IF i = 1 THEN id ELSE chain[i - 1]
    IN /\ IsInjective(chain)
       /\ \A i \in DOMAIN chain : chain[i] \in ToSet(store[from(i)].lineage)

(* An agent that asks for the latest artifact of a type in some status gets *)
(* one of that type, in that status or else a draft, never an old one for   *)
(* the newest of its status; and a draft for something else, or nothing,    *)
(* only if there was none or a query failed (artifact_read/handler.py:42).  *)
ReadPrefersWanted ==
  \A type \in Types, status_filter \in Filters, f \in SUBSET {"asked", "fallback"} :
    LET read == artifact_read(type, status_filter, f)
        OfType(status) == {id \in DOMAIN store : store[id].type = type /\ store[id].status = status}
    IN /\ \A id \in read : \E status \in {Wanted(status_filter), "draft"} :
            /\ id \in OfType(status)
            /\ \A other \in OfType(status) : store[other].created <= store[id].created
       /\ "asked" \notin f /\ OfType(Wanted(status_filter)) # {} =>
            read # {} /\ read \subseteq OfType(Wanted(status_filter))
       /\ "fallback" \notin f /\ OfType("draft") # {} => read # {}

(* Readers of the store, whatever the writers did to it, get what it says.  *)
ReadersFollowTheStore == LineageIsAPath /\ ReadPrefersWanted

=============================================================================
