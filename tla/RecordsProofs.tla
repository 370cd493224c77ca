--------------------------- MODULE RecordsProofs ---------------------------
(***************************************************************************)
(* Proofs about the two components of module Services that keep a record   *)
(* others read: the artifact store with its audit log, and the trace files.*)
(* What their readers compute is a walk (a lineage, the tree of a trace, a *)
(* sum over the files), a function defined by recursion: the proofs show   *)
(* that it exists and go along it by induction.                            *)
(***************************************************************************)
EXTENDS ServicesProofs

-----------------------------------------------------------------------------
(* The artifact store                                                       *)

Status == {"draft", "approved", "superseded"}
Held == [type : Types, lineage : Lineages, status : Status, created : Nat]
Noted == [id : Ids, from : Status \cup {"-"}, to : Status]

\* What a store and an audit log look like after n artifacts.
Shape(st, au, n) ==
  /\ DOMAIN st \subseteq Ids /\ \A id \in DOMAIN st : st[id] \in Held /\ st[id].created <= n
  /\ au \in Seq(Noted)

LastNote(au, id, i) ==
  /\ i \in DOMAIN au /\ au[i].id = id
  /\ \A j \in DOMAIN au : au[j].id = id => j <= i

\* Each entry goes on where the last of its artifact ended, and the status of
\* what is stored is the one its last entry ended in.
History(st, au) ==
  /\ \A i, j \in DOMAIN au :
       (i < j /\ au[i].id = au[j].id /\ au[j].from # "-"
          /\ \A k \in i + 1..j - 1 : au[k].id # au[i].id)
            => au[j].from = au[i].to
  /\ \A id \in DOMAIN st : \E i \in DOMAIN au : LastNote(au, id, i) /\ au[i].to = st[id].status

\* A report of approval is true of the store.
Backed(st, id, rep) ==
  rep.status = "approved" =>
    /\ id \in DOMAIN st /\ "get" \notin rep.failed
    /\ "create" \notin rep.failed => st[id].created = rep.created
    /\ "update" \notin rep.failed => st[id].status \in {"approved", "superseded"}

\* Of two stores the second has what the first has, but for artifact id.
KeepsOthers(st, now, id) ==
  DOMAIN st \subseteq DOMAIN now /\ \A x \in DOMAIN st : x # id => now[x] = st[x]

StoreInv ==
  /\ clock \in Nat /\ failures \in Nat /\ DOMAIN report = Ids
  /\ Shape(store, audit, clock)
  /\ \A id \in Ids : Backed(store, id, report[id])
  /\ failures = 0 => History(store, audit)

LEMMA StoreBegins == Store!Init => StoreInv
<1> SUFFICES ASSUME Store!Init PROVE StoreInv
  OBVIOUS
<1>1. /\ DOMAIN store = {} /\ audit = <<>> /\ clock = 0 /\ failures = 0
      /\ report = [i \in Ids |-> [status |-> "none", created |-> 0, failed |-> {}]]
  BY DEF Store!Init
<1>2. Shape(store, audit, clock)
  BY <1>1 DEF Shape
<1>3. History(store, audit)
  BY <1>1 DEF History
<1>4. \A id \in Ids : Backed(store, id, report[id])
  BY <1>1 DEF Backed
<1> QED BY <1>1, <1>2, <1>3, <1>4 DEF StoreInv

\* What an upsert and its entry in the log do, whether or not the upsert failed.
LEMMA UpsertKeepsShape ==
  ASSUME NEW st, NEW au, NEW n \in Nat, Shape(st, au, n), NEW id \in Ids,
         NEW a \in Held, a.created <= n, NEW from \in Status \cup {"-"}, NEW fails \in BOOLEAN
  PROVE  Shape(Store!Upsert(st, id, a, fails),
               Append(au, Store!Entry(id, from, a.status)), n)
<1>1. Store!Entry(id, from, a.status) \in Noted
  BY DEF Store!Entry, Noted, Held
<1>2. Append(au, Store!Entry(id, from, a.status)) \in Seq(Noted)
  BY <1>1, AppendProperties DEF Shape
<1> QED BY <1>2 DEF Shape, Store!Upsert

LEMMA HistoryGoesOn ==
  ASSUME NEW st, NEW au, NEW n \in Nat, Shape(st, au, n), History(st, au), NEW id \in Ids,
         NEW a \in Held, NEW from \in Status \cup {"-"},
         from # "-" => id \in DOMAIN st /\ from = st[id].status
  PROVE  History(Store!Upsert(st, id, a, FALSE), Append(au, Store!Entry(id, from, a.status)))
<1> DEFINE e == Store!Entry(id, from, a.status)
           new == Append(au, e)
           now == Store!Upsert(st, id, a, FALSE)
<1>1. e.id = id /\ e.from = from /\ e.to = a.status
  BY DEF Store!Entry
<1>2. /\ au \in Seq(Noted) /\ Len(au) \in Nat /\ DOMAIN au = 1..Len(au)
      /\ DOMAIN new = 1..Len(au) + 1 /\ new[Len(au) + 1] = e
      /\ \A k \in 1..Len(au) : new[k] = au[k]
  BY DEF Shape
<1>3. /\ DOMAIN now = DOMAIN st \cup {id} /\ now[id] = a
      /\ \A x \in DOMAIN st : x # id => now[x] = st[x]
  BY DEF Store!Upsert
<1> HIDE DEF e, new, now
<1>4. ASSUME NEW x \in DOMAIN now
      PROVE  \E i \in DOMAIN new : LastNote(new, x, i) /\ new[i].to = now[x].status
  <2>1. CASE x = id
    <3>1. LastNote(new, x, Len(au) + 1) /\ new[Len(au) + 1].to = now[x].status
      BY <1>1, <1>2, <1>3, <2>1 DEF LastNote
    <3> QED BY <1>2, <3>1
  <2>2. CASE x # id
    <3>1. x \in DOMAIN st /\ now[x] = st[x]
      BY <1>3, <2>2
    <3>2. PICK i \in DOMAIN au : LastNote(au, x, i) /\ au[i].to = st[x].status
      BY <3>1 DEF History
    <3>3. LastNote(new, x, i) /\ new[i].to = now[x].status
      BY <1>1, <1>2, <2>2, <3>1, <3>2 DEF LastNote
    <3> QED BY <1>2, <3>3
  <2> QED BY <2>1, <2>2
<1>5. ASSUME NEW i \in DOMAIN new, NEW j \in DOMAIN new, i < j, new[i].id = new[j].id,
             new[j].from # "-", \A k \in i + 1..j - 1 : new[k].id # new[i].id
      PROVE  new[j].from = new[i].to
  <2>1. i \in 1..Len(au) /\ new[i] = au[i]
    BY <1>2, <1>5
  <2>2. CASE j \in 1..Len(au)
    <3>1. new[j] = au[j] /\ \A k \in i + 1..j - 1 : new[k] = au[k]
      BY <1>2, <2>1, <2>2
    <3> QED BY <1>2, <1>5, <2>1, <2>2, <3>1 DEF History
  <2>3. CASE j = Len(au) + 1
    <3>1. au[i].id = id /\ id \in DOMAIN st /\ new[j].from = st[id].status
      BY <1>1, <1>2, <1>5, <2>1, <2>3
    <3>2. PICK l \in DOMAIN au : LastNote(au, id, l) /\ au[l].to = st[id].status
      BY <3>1 DEF History
    <3>3. i <= l /\ l \in 1..Len(au)
      BY <1>2, <2>1, <3>1, <3>2 DEF LastNote
    <3>4. l = i
      <4> SUFFICES ASSUME i < l PROVE FALSE
        BY <2>1, <3>3
      <4>1. l \in i + 1..j - 1 /\ new[l] = au[l]
        BY <1>2, <2>1, <2>3, <3>3
      <4> QED BY <1>5, <2>1, <3>1, <3>2, <4>1 DEF LastNote
    <3> QED BY <2>1, <3>1, <3>2, <3>4
  <2> QED BY <1>2, <2>2, <2>3
<1>6. /\ \A i, j \in DOMAIN new :
           (i < j /\ new[i].id = new[j].id /\ new[j].from # "-"
              /\ \A k \in i + 1..j - 1 : new[k].id # new[i].id)
                => new[j].from = new[i].to
  BY <1>5
<1>7. History(now, new)
  BY <1>4, <1>6 DEF History
<1> QED BY <1>7 DEF e, new, now

\* approve() and supersede(), when there is such an artifact.
LEMMA MoveKeeps ==
  ASSUME NEW now, NEW n \in Nat, Shape(now.store, now.audit, n), NEW id \in DOMAIN now.store,
         NEW status \in Status, NEW fails \in BOOLEAN,
         Store!Becomes(Store!Moved(now, id, status, fails))
  PROVE  /\ Shape(store', audit', n)
         /\ KeepsOthers(now.store, store', id)
         /\ id \in DOMAIN store' /\ store'[id].created = now.store[id].created
         /\ fails => store'[id].status = now.store[id].status
         /\ ~fails => store'[id].status = status
         /\ ~fails /\ History(now.store, now.audit) => History(store', audit')
<1> DEFINE a == [now.store[id] EXCEPT !.status = status]
           from == now.store[id].status
<1>1. /\ store' = Store!Upsert(now.store, id, a, fails)
      /\ audit' = Append(now.audit, Store!Entry(id, from, status))
  BY DEF Store!Becomes, Store!Moved
<1>2. /\ id \in Ids /\ now.store[id] \in Held /\ now.store[id].created <= n
  BY DEF Shape
<1>3. /\ a \in Held /\ a.status = status /\ a.created <= n /\ from \in Status
  BY <1>2 DEF Held
<1>4. from # "-"
  BY <1>3 DEF Status
<1> HIDE DEF a
<1>b. a.created = now.store[id].created
  BY <1>2 DEF a, Held
<1>5. Shape(store', audit', n)
  BY <1>1, <1>2, <1>3, UpsertKeepsShape
<1>6. ASSUME ~fails, History(now.store, now.audit) PROVE History(store', audit')
  <2>1. store' = Store!Upsert(now.store, id, a, FALSE)
    BY <1>1, <1>6 DEF Store!Upsert
  <2> QED BY <1>1, <1>2, <1>3, <1>4, <1>6, <2>1, HistoryGoesOn
<1>7. /\ KeepsOthers(now.store, store', id) /\ id \in DOMAIN store'
      /\ store'[id] = IF fails THEN now.store[id] ELSE a
  BY <1>1 DEF Store!Upsert, KeepsOthers
<1>8. /\ store'[id].created = now.store[id].created
      /\ fails => store'[id].status = now.store[id].status
      /\ ~fails => store'[id].status = status
  BY <1>3, <1>b, <1>7
<1> QED BY <1>5, <1>6, <1>7, <1>8

\* approve() of what create() made, or failed to make.
LEMMA ApproveKeeps ==
  ASSUME NEW now, NEW n \in Nat, Shape(now.store, now.audit, n), NEW id \in Ids,
         NEW f, Store!approve(now, id, f),
         "create" \notin f => id \in DOMAIN now.store /\ now.store[id].created = clock + 1
  PROVE  /\ Shape(store', audit', n)
         /\ KeepsOthers(now.store, store', id)
         /\ f = {} /\ History(now.store, now.audit) => History(store', audit')
         /\ \E rep : report' = [report EXCEPT ![id] = rep] /\ Backed(store', id, rep)
<1> DEFINE rep(status) == [status |-> status, created |-> clock + 1, failed |-> f]
<1>1. CASE Store!Found(now, id, "get" \in f)
  <2>1. /\ id \in DOMAIN now.store /\ "get" \notin f
        /\ report' = [report EXCEPT ![id] = rep("approved")]
        /\ Store!Becomes(Store!Moved(now, id, "approved", "update" \in f))
    BY <1>1 DEF Store!approve, Store!Found, Store!Reports
  <2>2. "approved" \in Status /\ ("update" \in f) \in BOOLEAN
    BY DEF Status
  <2>3. /\ Shape(store', audit', n)
        /\ KeepsOthers(now.store, store', id)
        /\ id \in DOMAIN store' /\ store'[id].created = now.store[id].created
        /\ ("update" \in f) => store'[id].status = now.store[id].status
        /\ ~("update" \in f) => store'[id].status = "approved"
        /\ ~("update" \in f) /\ History(now.store, now.audit) => History(store', audit')
    <3> DEFINE fails == "update" \in f
    <3>1. fails \in BOOLEAN /\ Store!Becomes(Store!Moved(now, id, "approved", fails))
      BY <2>1
    <3> HIDE DEF fails
    <3>2. /\ Shape(store', audit', n)
          /\ KeepsOthers(now.store, store', id)
          /\ id \in DOMAIN store' /\ store'[id].created = now.store[id].created
          /\ fails => store'[id].status = now.store[id].status
          /\ ~fails => store'[id].status = "approved"
          /\ ~fails /\ History(now.store, now.audit) => History(store', audit')
      BY <2>1, <2>2, <3>1, MoveKeeps
    <3> QED BY <3>2 DEF fails
  <2>4. Backed(store', id, rep("approved"))
    BY <2>1, <2>3 DEF Backed
  <2> QED BY <2>1, <2>3, <2>4
<1>2. CASE ~Store!Found(now, id, "get" \in f)
  <2>1. /\ store' = now.store /\ audit' = now.audit
        /\ report' = [report EXCEPT ![id] = rep("error")]
    BY <1>2 DEF Store!approve, Store!Becomes, Store!Reports
  <2>2. Shape(store', audit', n) /\ (History(now.store, now.audit) => History(store', audit'))
    BY <2>1
  <2>3. KeepsOthers(now.store, store', id) /\ Backed(store', id, rep("error"))
    BY <2>1 DEF KeepsOthers, Backed
  <2> QED BY <2>1, <2>2, <2>3
<1> QED BY <1>1, <1>2

\* create(), for an artifact that is the newest.
LEMMA CreateKeeps ==
  ASSUME StoreInv, NEW id \in Ids, NEW type \in Types, NEW lineage \in Lineages,
         NEW fails \in BOOLEAN, NEW now,
         now = Store!Created(id, Store!Artifact(type, lineage), fails)
  PROVE  /\ Shape(now.store, now.audit, clock + 1)
         /\ KeepsOthers(store, now.store, id)
         /\ ~fails => id \in DOMAIN now.store /\ now.store[id].created = clock + 1
         /\ ~fails /\ failures = 0 => History(now.store, now.audit)
<1> DEFINE a == Store!Artifact(type, lineage)
<1>1. /\ now.store = Store!Upsert(store, id, a, fails)
      /\ now.audit = Append(audit, Store!Entry(id, "-", "draft"))
  BY DEF Store!Created
<1>2. clock \in Nat /\ Shape(store, audit, clock + 1)
  BY DEF StoreInv, Shape, Held
<1>3. a \in Held /\ a.status = "draft" /\ a.created = clock + 1 /\ a.created <= clock + 1
  BY <1>2 DEF Store!Artifact, Held, Status
<1> HIDE DEF a
<1>4. Shape(now.store, now.audit, clock + 1)
  <2>1. clock + 1 \in Nat /\ "-" \in Status \cup {"-"}
    BY <1>2
  <2>2. Shape(Store!Upsert(store, id, a, fails),
              Append(audit, Store!Entry(id, "-", a.status)), clock + 1)
    BY <1>2, <1>3, <2>1, UpsertKeepsShape
  <2> QED BY <1>1, <1>3, <2>2
<1>5. ASSUME ~fails, failures = 0 PROVE History(now.store, now.audit)
  <2>1. now.store = Store!Upsert(store, id, a, FALSE) /\ History(store, audit)
    BY <1>1, <1>5 DEF Store!Upsert, StoreInv
  <2>2. clock + 1 \in Nat
    BY <1>2
  <2>3. History(Store!Upsert(store, id, a, FALSE),
                Append(audit, Store!Entry(id, "-", a.status)))
    BY <1>2, <1>3, <2>1, <2>2, HistoryGoesOn
  <2> QED BY <1>1, <1>3, <2>1, <2>3
<1>6. /\ KeepsOthers(store, now.store, id)
      /\ ~fails => id \in DOMAIN now.store /\ now.store[id].created = clock + 1
  BY <1>1, <1>3 DEF Store!Upsert, KeepsOthers
<1> QED BY <1>4, <1>5, <1>6

\* Without a failure so far, there was none in this step.
LEMMA NoFailure ==
  ASSUME StoreInv, NEW accesses, IsFiniteSet(accesses), NEW f \in Store!Failing(accesses),
         failures' = failures + Store!Cardinality(f)
  PROVE  /\ failures' \in Nat
         /\ failures' = 0 => failures = 0 /\ f = {}
<1>1. f \in SUBSET accesses
  BY DEF Store!Failing
<1>2. IsFiniteSet(f) /\ Store!Cardinality(f) = Cardinality(f)
  BY <1>1, FS_Subset DEF Store!Cardinality, Cardinality
<1>3. Cardinality(f) \in Nat /\ (Cardinality(f) = 0 <=> f = {})
  BY <1>2, FS_CardinalityType, FS_EmptySet
<1> QED BY <1>2, <1>3 DEF StoreInv

LEMMA FiniteCalls ==
  /\ IsFiniteSet({"create", "get", "update"})
  /\ IsFiniteSet({"create"}) /\ IsFiniteSet({"get", "update"})
<1>1. IsFiniteSet({"create"}) /\ IsFiniteSet({"get"})
  BY FS_Singleton
<1>2. IsFiniteSet({"get"} \cup {"update"})
  BY <1>1, FS_AddElement
<1>3. IsFiniteSet({"get", "update"} \cup {"create"})
  <2>1. {"get"} \cup {"update"} = {"get", "update"}
    OBVIOUS
  <2> QED BY <1>2, <2>1, FS_AddElement
<1>4. /\ {"get"} \cup {"update"} = {"get", "update"}
      /\ {"get", "update"} \cup {"create"} = {"create", "get", "update"}
  OBVIOUS
<1> QED BY <1>1, <1>2, <1>3, <1>4

\* Two steps of one tool keep what others have.
LEMMA OthersAreKept ==
  ASSUME NEW st, NEW mid, NEW now, NEW id, KeepsOthers(st, mid, id), KeepsOthers(mid, now, id)
  PROVE  KeepsOthers(st, now, id)
BY DEF KeepsOthers

\* The store after a step that kept all of the above.
LEMMA StoreGoesOn ==
  ASSUME StoreInv, clock' \in Nat, failures' \in Nat, Shape(store', audit', clock'),
         NEW id \in Ids, KeepsOthers(store, store', id),
         NEW rep, report' = [report EXCEPT ![id] = rep], Backed(store', id, rep),
         failures' = 0 => History(store', audit')
  PROVE  StoreInv'
<1>1. DOMAIN report' = Ids
  BY DEF StoreInv
<1>2. ASSUME NEW x \in Ids PROVE Backed(store', x, report'[x])
  <2>1. CASE x = id
    BY <2>1 DEF StoreInv
  <2>2. CASE x # id
    <3>1. report'[x] = report[x] /\ Backed(store, x, report[x])
      BY <2>2 DEF StoreInv
    <3> QED BY <2>2, <3>1 DEF Backed, KeepsOthers
  <2> QED BY <2>1, <2>2
<1> QED BY <1>1, <1>2 DEF StoreInv, Shape, History, LastNote, Backed

LEMMA WriteKeeps ==
  ASSUME StoreInv, NEW id \in Ids, NEW type \in Types, NEW lineage \in Lineages,
         NEW auto \in BOOLEAN, Store!artifact_write(id, type, lineage, auto)
  PROVE  StoreInv'
<1> DEFINE accesses == IF auto THEN {"create", "get", "update"} ELSE {"create"}
<1>1. PICK f \in Store!Failing(accesses) :
        LET now == Store!Created(id, Store!Artifact(type, lineage), "create" \in f)
        IN  /\ failures' = failures + Store!Cardinality(f)
            /\ \/ auto /\ Store!approve(now, id, f)
               \/ ~auto /\ Store!Becomes(now) /\ Store!Reports(id, "draft", f)
  BY DEF Store!artifact_write
<1> DEFINE now == Store!Created(id, Store!Artifact(type, lineage), "create" \in f)
<1>2. clock' = clock + 1 /\ clock \in Nat
  BY DEF Store!artifact_write, StoreInv
<1>3. IsFiniteSet(accesses)
  BY FiniteCalls
<1> HIDE DEF accesses, now
<1>4. failures' \in Nat /\ (failures' = 0 => failures = 0 /\ f = {})
  BY <1>1, <1>3, NoFailure
<1>5. /\ Shape(now.store, now.audit, clock + 1)
      /\ KeepsOthers(store, now.store, id)
      /\ "create" \notin f => id \in DOMAIN now.store /\ now.store[id].created = clock + 1
      /\ ~("create" \in f) /\ failures = 0 => History(now.store, now.audit)
  <2>1. ("create" \in f) \in BOOLEAN
    OBVIOUS
  <2>2. now = Store!Created(id, Store!Artifact(type, lineage), "create" \in f)
    BY DEF now
  <2> QED BY <2>1, <2>2, CreateKeeps
<1>6. CASE auto /\ Store!approve(now, id, f)
  <2>1. /\ Shape(store', audit', clock + 1)
        /\ KeepsOthers(now.store, store', id)
        /\ f = {} /\ History(now.store, now.audit) => History(store', audit')
        /\ \E rep : report' = [report EXCEPT ![id] = rep] /\ Backed(store', id, rep)
    BY <1>2, <1>5, <1>6, ApproveKeeps
  <2>2. /\ Shape(store', audit', clock') /\ KeepsOthers(store, store', id)
        /\ clock' \in Nat
    BY <1>2, <1>5, <2>1, OthersAreKept
  <2>3. failures' = 0 => History(store', audit')
    BY <1>4, <1>5, <2>1
  <2> QED BY <1>4, <2>1, <2>2, <2>3, StoreGoesOn
<1>7. CASE ~auto /\ Store!Becomes(now) /\ Store!Reports(id, "draft", f)
  <2>1. store' = now.store /\ audit' = now.audit
    BY <1>7 DEF Store!Becomes
  <2>2. /\ Shape(store', audit', clock') /\ KeepsOthers(store, store', id)
        /\ clock' \in Nat
    BY <1>2, <1>5, <2>1
  <2>3. failures' = 0 => History(store', audit')
    BY <1>4, <1>5, <2>1
  <2> DEFINE rep == [status |-> "draft", created |-> clock + 1, failed |-> f]
  <2>4. report' = [report EXCEPT ![id] = rep] /\ Backed(store', id, rep)
    BY <1>7 DEF Store!Reports, Backed
  <2> HIDE DEF rep
  <2> QED BY <1>4, <2>2, <2>3, <2>4, StoreGoesOn
<1> QED BY <1>1, <1>6, <1>7 DEF now

LEMMA ContractKeeps ==
  ASSUME StoreInv, NEW w \in Writers, NEW id \in Ids, NEW lineage \in Lineages,
         Store!Contract(w, id, lineage)
  PROVE  StoreInv'
<1>1. PICK f \in Store!Failing({"create", "get", "update"}) :
        LET now == Store!Created(id, Store!Artifact("CDDContract", lineage), "create" \in f)
        IN  /\ failures' = failures + Store!Cardinality(f)
            /\ Store!approve(now, id, f)
  BY DEF Store!Contract
<1> DEFINE now == Store!Created(id, Store!Artifact("CDDContract", lineage), "create" \in f)
<1>2. clock' = clock + 1 /\ clock \in Nat /\ "CDDContract" \in Types
  BY ServicesAssumption DEF Store!Contract, StoreInv, Store!StoreAssumption
<1>a. now = Store!Created(id, Store!Artifact("CDDContract", lineage), "create" \in f)
  OBVIOUS
<1>b. Store!approve(now, id, f) /\ failures' = failures + Store!Cardinality(f)
  BY <1>1
<1> HIDE DEF now
<1>3. failures' \in Nat /\ (failures' = 0 => failures = 0 /\ f = {})
  BY <1>b, FiniteCalls, NoFailure
<1>4. /\ Shape(now.store, now.audit, clock + 1)
      /\ KeepsOthers(store, now.store, id)
      /\ "create" \notin f => id \in DOMAIN now.store /\ now.store[id].created = clock + 1
      /\ ~("create" \in f) /\ failures = 0 => History(now.store, now.audit)
  <2>1. ("create" \in f) \in BOOLEAN
    OBVIOUS
  <2> QED BY <1>2, <1>a, <2>1, CreateKeeps
<1>5. /\ Shape(store', audit', clock + 1)
      /\ KeepsOthers(now.store, store', id)
      /\ f = {} /\ History(now.store, now.audit) => History(store', audit')
      /\ \E rep : report' = [report EXCEPT ![id] = rep] /\ Backed(store', id, rep)
  <2>1. clock + 1 \in Nat
    BY <1>2
  <2> QED BY <1>4, <1>b, <2>1, ApproveKeeps
<1>6. /\ Shape(store', audit', clock') /\ KeepsOthers(store, store', id)
      /\ clock' \in Nat
  BY <1>2, <1>4, <1>5, OthersAreKept
<1>7. failures' = 0 => History(store', audit')
  BY <1>3, <1>4, <1>5
<1> QED BY <1>3, <1>5, <1>6, <1>7, StoreGoesOn

LEMMA SupersedeKeeps ==
  ASSUME StoreInv, NEW id \in Ids, Store!supersede(id)
  PROVE  StoreInv'
<1> DEFINE now == [store |-> store, audit |-> audit]
<1>1. PICK f \in Store!Failing({"get", "update"}) :
        /\ failures' = failures + Store!Cardinality(f)
        /\ IF Store!Found(now, id, "get" \in f)
           THEN Store!Becomes(Store!Moved(now, id, "superseded", "update" \in f))
           ELSE UNCHANGED <<store, audit>>
  BY DEF Store!supersede
<1>2. UNCHANGED <<clock, report>> /\ clock \in Nat
  BY DEF Store!supersede, StoreInv
<1>3. failures' \in Nat /\ (failures' = 0 => failures = 0 /\ f = {})
  BY <1>1, FiniteCalls, NoFailure
<1>4. now.store = store /\ now.audit = audit
  OBVIOUS
<1> HIDE DEF now
<1>5. /\ Shape(store', audit', clock)
      /\ KeepsOthers(store, store', id)
      /\ id \in DOMAIN store =>
           /\ id \in DOMAIN store' /\ store'[id].created = store[id].created
           /\ store'[id].status \in {store[id].status, "superseded"}
      /\ failures' = 0 => History(store', audit')
  <2>1. CASE UNCHANGED <<store, audit>>
    BY <1>3, <2>1 DEF StoreInv, KeepsOthers
  <2>2. CASE /\ id \in DOMAIN store
             /\ Store!Becomes(Store!Moved(now, id, "superseded", "update" \in f))
    <3>1. "superseded" \in Status /\ ("update" \in f) \in BOOLEAN
      BY DEF Status
    <3>2. /\ Shape(now.store, now.audit, clock) /\ id \in DOMAIN now.store
          /\ failures = 0 => History(now.store, now.audit)
      BY <1>4, <2>2 DEF StoreInv
    <3>3. /\ Shape(store', audit', clock)
          /\ KeepsOthers(now.store, store', id)
          /\ id \in DOMAIN store' /\ store'[id].created = now.store[id].created
          /\ ("update" \in f) => store'[id].status = now.store[id].status
          /\ ~("update" \in f) => store'[id].status = "superseded"
          /\ ~("update" \in f) /\ History(now.store, now.audit) => History(store', audit')
      <4> DEFINE fails == "update" \in f
      <4>1. fails \in BOOLEAN /\ Store!Becomes(Store!Moved(now, id, "superseded", fails))
        BY <2>2
      <4> HIDE DEF fails
      <4>2. /\ Shape(store', audit', clock)
            /\ KeepsOthers(now.store, store', id)
            /\ id \in DOMAIN store' /\ store'[id].created = now.store[id].created
            /\ fails => store'[id].status = now.store[id].status
            /\ ~fails => store'[id].status = "superseded"
            /\ ~fails /\ History(now.store, now.audit) => History(store', audit')
        BY <1>2, <3>1, <3>2, <4>1, MoveKeeps
      <4> QED BY <4>2 DEF fails
    <3> QED BY <1>3, <1>4, <3>2, <3>3
  <2> QED BY <1>1, <1>4, <2>1, <2>2 DEF Store!Found
<1>6. ASSUME NEW x \in Ids PROVE Backed(store', x, report'[x])
  <2>1. report'[x] = report[x] /\ Backed(store, x, report[x])
    BY <1>2 DEF StoreInv
  <2>2. CASE x = id
    BY <1>5, <2>1, <2>2 DEF Backed
  <2>3. CASE x # id
    BY <1>5, <2>1, <2>3 DEF Backed, KeepsOthers
  <2> QED BY <2>2, <2>3
<1>7. Shape(store', audit', clock')
  BY <1>2, <1>5
<1> QED BY <1>2, <1>3, <1>5, <1>6, <1>7 DEF StoreInv, Shape, History, LastNote, Backed

LEMMA StoreStepKeeps == StoreInv /\ Store!Next => StoreInv'
<1> SUFFICES ASSUME StoreInv, Store!Next PROVE StoreInv'
  OBVIOUS
<1>1. ASSUME NEW w \in Writers, Store!Draft(w) \/ Store!NoDocument(w) PROVE StoreInv'
  <2>1. UNCHANGED <<store, audit, clock, failures, report>>
    BY <1>1 DEF Store!Draft, Store!NoDocument
  <2> QED BY <2>1 DEF StoreInv, Shape, History, LastNote, Backed
<1> QED BY <1>1, WriteKeeps, SupersedeKeeps, ContractKeeps DEF Store!Next

LEMMA StoreInvAlways == Spec => []StoreInv
<1>1. Init => StoreInv
  BY PartsBegin, StoreBegins
<1>2. StoreInv /\ [Next]_vars => StoreInv'
  <2>1. StoreInv /\ UNCHANGED storeVars => StoreInv'
    BY DEF storeVars, StoreInv, Shape, History, LastNote, Backed
  <2> QED BY <2>1, PartsStep, StoreStepKeeps
<1> QED BY <1>1, <1>2, PTL DEF Spec

(* ArtifactStore: what a tool reports as approved is stored, as the artifact  *)
(* it wrote unless its create() failed over an older one, and as approved or  *)
(* superseded unless its update failed (memory/artifacts.py:127, 139, 168).   *)
THEOREM ApprovedIsStored == Spec => []ApprovedWasStored
<1>1. StoreInv => ApprovedWasStored
  BY DEF StoreInv, Backed, ApprovedWasStored, Store!ApprovedWasStored
<1> QED BY <1>1, StoreInvAlways, PTL

LEMMA HistoryTells == StoreInv => AuditTellsStatus
<1> SUFFICES ASSUME StoreInv, failures = 0
             PROVE  /\ \A i, j \in DOMAIN audit :
                         (i < j /\ audit[i].id = audit[j].id /\ audit[j].from # "-"
                            /\ \A k \in i + 1..j - 1 : audit[k].id # audit[i].id)
                              => audit[j].from = audit[i].to
                    /\ \A id \in DOMAIN store :
                         audit[Store!LastAudit(id)].to = store[id].status
  BY DEF AuditTellsStatus, Store!AuditTellsStatus
<1>1. History(store, audit) /\ DOMAIN audit = 1..Len(audit) /\ Len(audit) \in Nat
  BY DEF StoreInv, Shape
<1>2. ASSUME NEW id \in DOMAIN store
      PROVE  audit[Store!LastAudit(id)].to = store[id].status
  <2>1. PICK i \in DOMAIN audit : LastNote(audit, id, i) /\ audit[i].to = store[id].status
    BY <1>1 DEF History
  <2>2. \A l \in DOMAIN audit : LastNote(audit, id, l) => l = i
    BY <1>1, <2>1 DEF LastNote
  <2>3. Store!LastAudit(id) = i
    BY <2>1, <2>2 DEF Store!LastAudit, LastNote
  <2> QED BY <2>1, <2>3
<1> QED BY <1>1, <1>2 DEF History

(* ArtifactStore: as long as the store did not fail, the audit log is the     *)
(* history of every artifact, and ends in its status in the store             *)
(* (memory/artifacts.py:105).                                                 *)
THEOREM AuditIsHistory == Spec => []AuditTellsStatus
BY HistoryTells, StoreInvAlways, PTL

-----------------------------------------------------------------------------
(* The readers of the store *)

Chains == Seq(Ids)

\* A chain of ancestors from id up: each a parent of the one before it.
Path(id, chain) ==
  /\ chain \in Chains
  /\ \A i \in 1..Len(chain) : chain[i] \in DOMAIN store
  /\ \A i, j \in 1..Len(chain) : chain[i] = chain[j] => i = j
  /\ \A i \in 1..Len(chain) :
       \E k \in DOMAIN store[IF i = 1 THEN id ELSE chain[i - 1]].lineage :
          chain[i] = store[IF i = 1 THEN id ELSE chain[i - 1]].lineage[k]

\* A round leaves the chain or adds a parent that is not on it.
LEMMA RoundAdds ==
  ASSUME NEW id, NEW chain,
         chain \in Chains, Store!Above(id, chain) \in Seq(Ids)
  PROVE  \/ Store!Extended(id, chain) = chain
         \/ \E i \in DOMAIN Store!Above(id, chain) :
              /\ Store!Extended(id, chain) = Append(chain, Store!Above(id, chain)[i])
              /\ Store!Above(id, chain)[i] \in DOMAIN store
              /\ \A k \in 1..Len(chain) : chain[k] # Store!Above(id, chain)[i]
<1> DEFINE above == Store!Above(id, chain)
           parents == {i \in DOMAIN above : above[i] \in DOMAIN store \ Store!ToSet(chain)}
<1>1. Store!Extended(id, chain) =
        IF parents = {} THEN chain ELSE Append(chain, above[Store!Min(parents)])
  BY DEF Store!Extended
<1>2. ASSUME parents # {} PROVE Store!Min(parents) \in parents
  <2>1. \E x \in parents : \A y \in parents : x <= y
    <3>1. parents \subseteq Nat
      OBVIOUS
    <3> HIDE DEF parents
    <3> QED BY <1>2, <3>1, Least
  <2> HIDE DEF parents
  <2> QED BY <2>1 DEF Store!Min
<1>3. \A x : x \notin Store!ToSet(chain) => \A k \in 1..Len(chain) : chain[k] # x
  BY DEF Store!ToSet, Chains
<1>4. CASE parents # {}
  <2> DEFINE m == Store!Min(parents)
  <2>1. m \in DOMAIN above /\ above[m] \in DOMAIN store \ Store!ToSet(chain)
    BY <1>2, <1>4
  <2> HIDE DEF m, parents, above
  <2>2. Store!Extended(id, chain) = Append(chain, above[m])
    BY <1>1, <1>4 DEF m
  <2> QED BY <1>3, <2>1, <2>2 DEF above
<1> QED BY <1>1, <1>4

LEMMA RoundKeepsPath ==
  ASSUME StoreInv, NEW id \in DOMAIN store, NEW chain, Path(id, chain)
  PROVE  Path(id, Store!Extended(id, chain))
<1> DEFINE now == IF chain = <<>> THEN id ELSE Store!Last(chain)
<1>1. /\ chain \in Chains /\ Len(chain) \in Nat
      /\ now = IF Len(chain) = 0 THEN id ELSE chain[Len(chain)]
      /\ now \in DOMAIN store
  BY EmptySeq DEF Path, Chains, Store!Last
<1>2. store[now].lineage \in Seq(Ids) /\ Store!Above(id, chain) = store[now].lineage
  BY <1>1, ServicesAssumption
     DEF Store!Above, StoreInv, Shape, Held, Store!StoreAssumption
<1> HIDE DEF now
<1>3. ASSUME NEW i \in DOMAIN store[now].lineage, NEW p,
             p = store[now].lineage[i], p \in DOMAIN store,
             \A k \in 1..Len(chain) : chain[k] # p
      PROVE  Path(id, Append(chain, p))
  <2> DEFINE new == Append(chain, p)
  <2>1. p \in Ids
    BY <1>2, <1>3
  <2>2. /\ new \in Chains /\ Len(new) = Len(chain) + 1 /\ new[Len(chain) + 1] = p
        /\ \A k \in 1..Len(chain) : new[k] = chain[k]
    BY <1>1, <2>1 DEF Chains
  <2> HIDE DEF new
  <2>3. \A k \in 1..Len(new) : new[k] \in DOMAIN store
    BY <1>1, <1>3, <2>2 DEF Path
  <2>4. \A k, l \in 1..Len(new) : new[k] = new[l] => k = l
    BY <1>1, <1>3, <2>2 DEF Path
  <2>5. ASSUME NEW k \in 1..Len(new)
        PROVE  \E j \in DOMAIN store[IF k = 1 THEN id ELSE new[k - 1]].lineage :
                 new[k] = store[IF k = 1 THEN id ELSE new[k - 1]].lineage[j]
    <3>1. CASE k \in 1..Len(chain)
      <4>1. new[k] = chain[k] /\ (k # 1 => new[k - 1] = chain[k - 1])
        BY <1>1, <2>2, <3>1
      <4>2. \E j \in DOMAIN store[IF k = 1 THEN id ELSE chain[k - 1]].lineage :
              chain[k] = store[IF k = 1 THEN id ELSE chain[k - 1]].lineage[j]
        BY <3>1 DEF Path
      <4>3. (IF k = 1 THEN id ELSE new[k - 1]) = (IF k = 1 THEN id ELSE chain[k - 1])
        BY <4>1
      <4> QED BY <4>1, <4>2, <4>3, Zenon
    <3>2. CASE k = Len(chain) + 1
      <4>1. (IF k = 1 THEN id ELSE new[k - 1]) = now /\ new[k] = p
        BY <1>1, <2>2, <3>2
      <4> QED BY <1>3, <4>1
    <3> QED BY <1>1, <2>2, <3>1, <3>2
  <2> QED BY <2>2, <2>3, <2>4, <2>5 DEF Path, new
<1>4. \/ Store!Extended(id, chain) = chain
      \/ \E i \in DOMAIN store[now].lineage :
            /\ Store!Extended(id, chain) = Append(chain, store[now].lineage[i])
            /\ store[now].lineage[i] \in DOMAIN store
            /\ \A k \in 1..Len(chain) : chain[k] # store[now].lineage[i]
  BY <1>1, <1>2, RoundAdds
<1>5. CASE Store!Extended(id, chain) = chain
  BY <1>5
<1>6. ASSUME NEW i \in DOMAIN store[now].lineage,
             Store!Extended(id, chain) = Append(chain, store[now].lineage[i]),
             store[now].lineage[i] \in DOMAIN store,
             \A k \in 1..Len(chain) : chain[k] # store[now].lineage[i]
      PROVE  Path(id, Store!Extended(id, chain))
  <2>1. Path(id, Append(chain, store[now].lineage[i]))
    BY <1>3, <1>6
  <2> QED BY <1>6, <2>1
<1> QED BY <1>4, <1>5, <1>6

\* The walk is a path after each of its rounds.
LEMMA WalkIsPath ==
  ASSUME StoreInv, NEW id \in DOMAIN store
  PROVE  Path(id, Store!Walk(id))
<1> DEFINE walk == CHOOSE w : w = [n \in 0..Depth |-> IF n = 0 THEN <<>>
                                                      ELSE Store!Extended(id, w[n - 1])]
           Paths == {chain \in Chains : Path(id, chain)}
           G == [n \in 1..Depth |-> [chain \in Paths |-> Store!Extended(id, chain)]]
<1>1. Store!Walk(id) = walk[Depth]
  BY DEF Store!Walk
<1>2. Depth \in Nat
  BY ServicesAssumption DEF Store!StoreAssumption
<1>3. <<>> \in Paths
  BY DEF Path, Chains
<1>4. \A chain \in Paths : Store!Extended(id, chain) \in Paths
  BY RoundKeepsPath DEF Path
<1> HIDE DEF Paths
<1>5. Steps(Depth, Paths, G)
  BY <1>4 DEF Steps
<1>6. PICK f \in [0..Depth -> Paths] : Follows(f, Depth, <<>>, G)
  <2> HIDE DEF G
  <2> QED BY <1>2, <1>3, <1>5, Recursion
<1>7. f = [n \in 0..Depth |-> IF n = 0 THEN <<>> ELSE Store!Extended(id, f[n - 1])]
  <2>1. ASSUME NEW n \in 0..Depth
        PROVE  f[n] = IF n = 0 THEN <<>> ELSE Store!Extended(id, f[n - 1])
    <3>1. CASE n = 0
      BY <1>6, <3>1 DEF Follows
    <3>2. CASE n \in 1..Depth
      <4>1. f[n - 1] \in Paths
        BY <1>2, <3>2
      <4> QED BY <1>6, <3>2, <4>1 DEF Follows
    <3> QED BY <1>2, <3>1, <3>2
  <2> QED BY <2>1
<1>8. walk = [n \in 0..Depth |-> IF n = 0 THEN <<>> ELSE Store!Extended(id, walk[n - 1])]
  BY <1>7
<1> HIDE DEF walk
<1> DEFINE S == {n \in 0..Depth : walk[n] \in Paths}
<1>9. 0 \in S
  BY <1>2, <1>3, <1>8
<1>10. ASSUME NEW n \in 0..Depth - 1, n \in S PROVE n + 1 \in S
  BY <1>2, <1>4, <1>8, <1>10
<1>11. 0..Depth \subseteq S
  <2> HIDE DEF S
  <2> QED BY <1>2, <1>9, <1>10, BoundedInduction
<1>12. walk[Depth] \in Paths
  BY <1>2, <1>11
<1> QED BY <1>1, <1>12 DEF Paths

LEMMA LineageHolds == StoreInv => Store!LineageIsAPath
<1> SUFFICES ASSUME StoreInv, NEW id \in DOMAIN store
    PROVE  /\ Store!IsInjective(Store!get_lineage(id))
           /\ \A i \in DOMAIN Store!get_lineage(id) :
                Store!get_lineage(id)[i] \in
                  Store!ToSet(store[IF i = 1 THEN id ELSE Store!get_lineage(id)[i - 1]].lineage)
  BY DEF Store!LineageIsAPath
<1> DEFINE chain == Store!get_lineage(id)
<1>1. Path(id, chain)
  <2>1. chain = Store!Walk(id)
    BY DEF Store!get_lineage
  <2> QED BY <2>1, WalkIsPath
<1> HIDE DEF chain
<1>2. Store!IsInjective(chain)
  BY <1>1 DEF Path, Store!IsInjective
<1>3. \A i \in DOMAIN chain :
        chain[i] \in Store!ToSet(store[IF i = 1 THEN id ELSE chain[i - 1]].lineage)
  <2>1. DOMAIN chain = 1..Len(chain)
    BY <1>1 DEF Path, Chains
  <2> SUFFICES ASSUME NEW i \in 1..Len(chain)
               PROVE  chain[i] \in Store!ToSet(store[IF i = 1 THEN id ELSE chain[i - 1]].lineage)
    BY <2>1
  <2> DEFINE above == store[IF i = 1 THEN id ELSE chain[i - 1]].lineage
  <2>2. \E k \in DOMAIN above : chain[i] = above[k]
    BY <1>1 DEF Path
  <2> HIDE DEF above
  <2>3. chain[i] \in Store!ToSet(above)
    BY <2>2 DEF Store!ToSet
  <2> QED BY <2>3 DEF above
<1> QED BY <1>2, <1>3 DEF chain

\* Among the artifacts of a type and a status there is a newest one.
LEMMA NewestIsFound ==
  ASSUME StoreInv, NEW type, NEW status, NEW id \in DOMAIN store,
         store[id].type = type, store[id].status = status
  PROVE  Store!get_latest_by_type(type, status, FALSE) # {}
<1> DEFINE matching == {x \in DOMAIN store : store[x].type = type /\ store[x].status = status}
           T == {store[x].created : x \in matching}
<1>1. clock \in Nat /\ T \subseteq 0..clock /\ T # {}
  BY DEF StoreInv, Shape, Held
<1>2. PICK t \in T : \A u \in T : u <= t
  <2> HIDE DEF T
  <2> QED BY <1>1, Greatest
<1>3. PICK x \in matching : store[x].created = t
  BY <1>2
<1>4. \A y \in matching : store[y].created <= store[x].created
  BY <1>2, <1>3
<1> QED BY <1>3, <1>4 DEF Store!get_latest_by_type, Store!_query_where

\* What is found of a type and a status is of them, and the newest.
LEMMA FoundIsNewest ==
  ASSUME NEW type, NEW status, NEW fails \in BOOLEAN,
         NEW id \in Store!get_latest_by_type(type, status, fails)
  PROVE  /\ id \in DOMAIN store /\ store[id].type = type /\ store[id].status = status
         /\ \A other \in DOMAIN store :
              store[other].type = type /\ store[other].status = status
                => store[other].created <= store[id].created
BY DEF Store!get_latest_by_type, Store!_query_where

LEMMA ReadersPrefer == StoreInv => Store!ReadPrefersWanted
<1> DEFINE OfType(type, status) ==
             {id \in DOMAIN store : store[id].type = type /\ store[id].status = status}
<1> SUFFICES
      ASSUME StoreInv, NEW type \in Types, NEW status_filter \in Store!Filters,
             NEW f \in SUBSET {"asked", "fallback"}
      PROVE  LET read == Store!artifact_read(type, status_filter, f)
                 wanted == Store!Wanted(status_filter)
             IN /\ \A id \in read : \E status \in {wanted, "draft"} :
                     /\ id \in OfType(type, status)
                     /\ \A other \in OfType(type, status) : store[other].created <= store[id].created
                /\ "asked" \notin f /\ OfType(type, wanted) # {} =>
                     read # {} /\ read \subseteq OfType(type, wanted)
                /\ "fallback" \notin f /\ OfType(type, "draft") # {} => read # {}
  BY DEF Store!ReadPrefersWanted
<1> DEFINE read == Store!artifact_read(type, status_filter, f)
           wanted == Store!Wanted(status_filter)
           asked == Store!get_latest_by_type(type, wanted, "asked" \in f)
           draft == Store!get_latest_by_type(type, "draft", "fallback" \in f)
<1>1. read = IF asked # {} THEN asked ELSE draft
  BY DEF Store!artifact_read
<1>2. ("asked" \in f) \in BOOLEAN /\ ("fallback" \in f) \in BOOLEAN
  OBVIOUS
<1>3. ASSUME NEW status, NEW fails \in BOOLEAN,
             NEW id \in Store!get_latest_by_type(type, status, fails)
      PROVE  /\ id \in OfType(type, status)
             /\ \A other \in OfType(type, status) : store[other].created <= store[id].created
  BY <1>3, FoundIsNewest
<1>4. ASSUME NEW status, OfType(type, status) # {}
      PROVE  Store!get_latest_by_type(type, status, FALSE) # {}
  BY <1>4, NewestIsFound
<1>5. /\ \A id \in asked : /\ id \in OfType(type, wanted)
                            /\ \A other \in OfType(type, wanted) : store[other].created <= store[id].created
      /\ \A id \in draft : /\ id \in OfType(type, "draft")
                            /\ \A other \in OfType(type, "draft") : store[other].created <= store[id].created
  BY <1>2, <1>3
<1>6. "asked" \notin f /\ OfType(type, wanted) # {} => asked # {}
  <2>1. "asked" \notin f => ("asked" \in f) = FALSE
    OBVIOUS
  <2> QED BY <1>4, <2>1
<1>7. "fallback" \notin f /\ OfType(type, "draft") # {} => draft # {}
  <2>1. "fallback" \notin f => ("fallback" \in f) = FALSE
    OBVIOUS
  <2> QED BY <1>4, <2>1
<1> HIDE DEF OfType, read, wanted, asked, draft
<1>8. \A id \in read : \E status \in {wanted, "draft"} :
        /\ id \in OfType(type, status)
        /\ \A other \in OfType(type, status) : store[other].created <= store[id].created
  <2> SUFFICES ASSUME NEW id \in read
               PROVE  \E status \in {wanted, "draft"} :
                        /\ id \in OfType(type, status)
                        /\ \A other \in OfType(type, status) : store[other].created <= store[id].created
    OBVIOUS
  <2>1. id \in asked \/ id \in draft
    BY <1>1
  <2> QED BY <1>5, <2>1
<1>9. /\ "asked" \notin f /\ OfType(type, wanted) # {} =>
           read # {} /\ read \subseteq OfType(type, wanted)
      /\ "fallback" \notin f /\ OfType(type, "draft") # {} => read # {}
  BY <1>1, <1>5, <1>6, <1>7
<1> QED BY <1>8, <1>9 DEF read, wanted

(* ArtifactStore: whatever the writers did to the store, a lineage is one     *)
(* path of ancestors without repetition, however the artifacts name each      *)
(* other, and a reader gets the newest of the status it asks for, and a draft *)
(* or nothing only if there is none or a query failed (get_lineage and        *)
(* get_latest_by_type of memory/artifacts.py, artifact_read).                 *)
THEOREM StoreIsRead == Spec => []ReadersFollowTheStore
<1>1. StoreInv => ReadersFollowTheStore
  BY LineageHolds, ReadersPrefer DEF ReadersFollowTheStore, Store!ReadersFollowTheStore
<1> QED BY <1>1, StoreInvAlways, PTL

-----------------------------------------------------------------------------
(* The tracer                                                               *)

FlowKinds == {"run", "task", "subswarm", "member", "tool"}
SpanKinds == {"phase", "task", "agent", "llm", "tool"}
FlowSet == [kind : FlowKinds, caller : Nat, trace : Nat, span : Nat, open : Seq(Nat),
            done : BOOLEAN]
SpanSet == [trace : Nat, parent : Nat, kind : SpanKinds, flow : Nat, metered : BOOLEAN]

Last_ == MaxSpans + 1   \* RunTrace

\* The flow g is f or awaits it: it is in each set that has f and the callers
\* of its members.
HasCallers(T) == \A h \in T : flow[h].caller # 0 => flow[h].caller \in T
Awaits(g, f) == \A T \in SUBSET (1..Len(flow)) : f \in T /\ HasCallers(T) => g \in T

\* An open span is of the flow that has it open, and nowhere else: it is not
\* written, and carries no cost.
OpenFits(f, open) ==
  /\ \A i \in 1..Len(open) : /\ open[i] \in 1..Len(spans) /\ open[i] \notin written
                             /\ spans[open[i]].flow = f /\ ~spans[open[i]].metered
  /\ \A i, j \in 1..Len(open) : open[i] = open[j] => i = j

FlowFits(f, x) ==
  /\ x.caller \in 0..f - 1
  /\ x.span \in 0..Len(spans)
  /\ x.trace \in 0..Last_
  /\ x.span # 0 => Awaits(spans[x.span].flow, f)
  /\ OpenFits(f, x.open)

SpanFits(s, x) ==
  /\ x.trace \in 1..Last_
  /\ x.parent \in 0..s - 1
  /\ x.flow \in 1..Len(flow)
  /\ x.parent # 0 => Awaits(spans[x.parent].flow, x.flow)

\* The spans the cost summaries count.
Counted == {s \in written : spans[s].kind = "llm" /\ spans[s].metered}

TraceInv ==
  /\ flow \in Seq(FlowSet)
  /\ spans \in Seq(SpanSet) /\ Len(spans) <= MaxSpans
  /\ written \subseteq 1..Len(spans)
  /\ \A f \in 1..Len(flow) : FlowFits(f, flow[f])
  /\ \A s \in 1..Len(spans) : SpanFits(s, spans[s])
  /\ metered \in Nat /\ metered = Cardinality(Counted)

LEMMA TraceFacts ==
  ASSUME TraceInv
  PROVE  /\ DOMAIN flow = 1..Len(flow) /\ Len(flow) \in Nat
         /\ DOMAIN spans = 1..Len(spans) /\ Len(spans) \in Nat
         /\ \A f \in 1..Len(flow) : flow[f] \in FlowSet /\ flow[f].open \in Seq(Nat)
                                    /\ Len(flow[f].open) \in Nat /\ flow[f].caller \in Nat
         /\ \A s \in 1..Len(spans) : spans[s] \in SpanSet
         /\ MaxSpans \in Nat /\ Last_ \in Nat
         /\ IsFiniteSet(written) /\ IsFiniteSet(Counted)
<1>1. MaxSpans \in Nat
  BY ServicesAssumption DEF Trace!TracingAssumption
<1>2. DOMAIN flow = 1..Len(flow) /\ Len(flow) \in Nat /\ DOMAIN spans = 1..Len(spans)
      /\ Len(spans) \in Nat
  BY DEF TraceInv
<1>3. ASSUME NEW f \in 1..Len(flow)
      PROVE  flow[f] \in FlowSet /\ flow[f].open \in Seq(Nat) /\ Len(flow[f].open) \in Nat
             /\ flow[f].caller \in Nat
  <2>1. flow[f] \in FlowSet
    BY <1>2 DEF TraceInv
  <2> QED BY <2>1 DEF FlowSet
<1>4. \A s \in 1..Len(spans) : spans[s] \in SpanSet
  BY <1>2 DEF TraceInv
<1>5. IsFiniteSet(written) /\ IsFiniteSet(Counted)
  <2>1. IsFiniteSet(1..Len(spans))
    BY <1>2, FS_Interval
  <2>2. IsFiniteSet(written)
    BY <2>1, FS_Subset DEF TraceInv
  <2> QED BY <2>2, FS_Subset DEF Counted
<1> QED BY <1>1, <1>2, <1>3, <1>4, <1>5 DEF Last_

LEMMA TraceBegins == Init => TraceInv
<1> SUFFICES ASSUME Trace!Init PROVE TraceInv
  BY PartsBegin
<1> DEFINE x == Trace!NewFlow("run", Trace!NoId, Trace!NoId, Trace!NoId)
<1>1. /\ x \in FlowSet /\ x.caller = 0 /\ x.span = 0 /\ x.trace = 0 /\ x.open = <<>>
      /\ spans = <<>> /\ written = {} /\ metered = 0
      /\ flow = <<x>>
  BY DEF Trace!Init, Trace!NewFlow, Trace!NoId, FlowSet, FlowKinds
<1> HIDE DEF x
<1>2. flow \in Seq(FlowSet) /\ Len(flow) = 1 /\ flow[1] = x
  BY <1>1
<1>3. spans \in Seq(SpanSet) /\ Len(spans) = 0
  BY <1>1
<1>4. MaxSpans \in Nat
  BY ServicesAssumption DEF Trace!TracingAssumption
<1>5. FlowFits(1, flow[1])
  <2>1. Len(<<>>) = 0
    OBVIOUS
  <2> QED BY <1>1, <1>2, <1>3, <1>4, <2>1 DEF FlowFits, OpenFits, Last_
<1>6. Cardinality(Counted) = 0
  <2>1. Counted = {}
    BY <1>1 DEF Counted
  <2> QED BY <2>1, FS_EmptySet
<1>7. \A f \in 1..Len(flow) : f = 1
  BY <1>2
<1>8. \A s \in 1..Len(spans) : FALSE
  BY <1>3
<1> QED BY <1>1, <1>2, <1>3, <1>4, <1>5, <1>6, <1>7, <1>8 DEF TraceInv

\* As long as no flow changes its caller, it is awaited by the same flows.
LEMMA AwaitedStill ==
  ASSUME Len(flow') = Len(flow), \A h \in 1..Len(flow) : flow'[h].caller = flow[h].caller,
         NEW g, NEW f, Awaits(g, f)
  PROVE  Awaits(g, f)'
BY DEF Awaits, HasCallers


\* A span starts in flow f: it is open, or written at once.
LEMMA SpanStarts ==
  ASSUME TraceInv, NEW f \in 1..Len(flow), NEW s \in SpanSet, NEW x \in FlowSet,
         spans' = Append(spans, s), Len(spans) < MaxSpans, flow' = [flow EXCEPT ![f] = x],
         s.trace \in 1..Last_, s.parent = flow[f].span, s.flow = f, s.metered = FALSE,
         x.caller = flow[f].caller, x.span = Len(spans) + 1, x.trace \in 0..Last_,
         metered' = metered,
         \/ x.open = <<Len(spans) + 1>> \o flow[f].open /\ written' = written
         \/ x.open = flow[f].open /\ written' = written \cup {Len(spans) + 1}
  PROVE  TraceInv'
<1> DEFINE new == Len(spans) + 1
<1>1. /\ spans \in Seq(SpanSet) /\ flow \in Seq(FlowSet) /\ written \subseteq 1..Len(spans)
      /\ DOMAIN flow = 1..Len(flow) /\ Len(flow) \in Nat /\ Len(spans) \in Nat
      /\ \A g \in 1..Len(flow) : FlowFits(g, flow[g])
      /\ \A t \in 1..Len(spans) : SpanFits(t, spans[t])
      /\ MaxSpans \in Nat /\ Last_ \in Nat /\ f \in Nat
  BY TraceFacts DEF TraceInv
<1>2. /\ spans' \in Seq(SpanSet) /\ Len(spans') = new /\ spans'[new] = s
      /\ \A t \in 1..Len(spans) : spans'[t] = spans[t]
  BY <1>1
<1>3. /\ flow' \in Seq(FlowSet) /\ Len(flow') = Len(flow) /\ flow'[f] = x
      /\ \A g \in 1..Len(flow) : g # f => flow'[g] = flow[g]
  BY <1>1
<1>4. \A g \in 1..Len(flow) : flow'[g].caller = flow[g].caller
  BY <1>3
<1>5. ASSUME NEW g, NEW h, Awaits(g, h) PROVE Awaits(g, h)'
  BY <1>3, <1>4, <1>5, AwaitedStill
<1>6. Awaits(f, f)'
  BY DEF Awaits
<1>7. new \notin 1..Len(spans) /\ new \in 1..new /\ 1..Len(spans) \subseteq 1..new
      /\ 0..Len(spans) \subseteq 0..new /\ new \in Nat /\ new # 0 /\ new <= MaxSpans
  BY <1>1
<1>8. written' \subseteq 1..new /\ \A t \in 1..Len(spans) : t \in written' <=> t \in written
  BY <1>1, <1>7
<1> HIDE DEF new
<1>9. ASSUME NEW g \in 1..Len(flow) PROVE OpenFits(g, flow[g].open)'
  <2>1. OpenFits(g, flow[g].open) /\ flow[g].open \in Seq(Nat)
    BY <1>1, TraceFacts DEF FlowFits
  <2>2. ASSUME NEW o, o = flow[g].open PROVE OpenFits(g, o)'
    <3>1. OpenFits(g, o)
      BY <2>1, <2>2
    <3> QED BY <1>2, <1>7, <1>8, <3>1 DEF OpenFits
  <2>3. CASE flow'[g].open = flow[g].open
    BY <2>2, <2>3
  <2>4. CASE flow'[g].open # flow[g].open
    <3>1. g = f /\ flow'[g].open = <<new>> \o flow[f].open /\ written' = written
      BY <1>3, <2>4 DEF new
    <3> DEFINE o == flow[f].open
               l == <<new>> \o o
    <3>2. /\ o \in Seq(Nat) /\ Len(o) \in Nat /\ Len(l) = 1 + Len(o) /\ l[1] = new
          /\ \A i \in 1..Len(o) : l[i + 1] = o[i]
      <4>1. o \in Seq(Nat) /\ <<new>> \in Seq(Nat) /\ Len(<<new>>) = 1 /\ <<new>>[1] = new
        BY <1>7, <2>1, <3>1
      <4> HIDE DEF o
      <4> QED BY <4>1
    <3>3. OpenFits(f, o)
      BY <2>1, <3>1
    <3> HIDE DEF o, l
    <3>4. \A i \in 1..Len(l) : i = 1 \/ (i - 1 \in 1..Len(o) /\ l[i] = o[i - 1])
      <4> TAKE i \in 1..Len(l)
      <4>1. CASE i # 1
        <5>1. i - 1 \in 1..Len(o) /\ i - 1 + 1 = i
          BY <3>2, <4>1
        <5>2. l[i - 1 + 1] = o[i - 1]
          BY <3>2, <5>1
        <5> QED BY <5>1, <5>2
      <4> QED BY <4>1
    <3>5. \A i \in 1..Len(o) : o[i] \in 1..Len(spans) /\ o[i] # new
      BY <1>7, <3>3 DEF OpenFits
    <3>6. ASSUME NEW i \in 1..Len(l)
          PROVE  /\ l[i] \in 1..new /\ l[i] \notin written
                 /\ spans'[l[i]].flow = f /\ ~spans'[l[i]].metered
      <4>1. CASE i = 1
        BY <1>1, <1>2, <1>7, <3>2, <4>1
      <4>2. CASE i # 1
        <5>1. i - 1 \in 1..Len(o) /\ l[i] = o[i - 1]
          BY <3>4, <4>2
        <5> QED BY <1>2, <1>7, <3>3, <5>1 DEF OpenFits
      <4> QED BY <4>1, <4>2
    <3>7. ASSUME NEW i \in 1..Len(l), NEW j \in 1..Len(l), l[i] = l[j] PROVE i = j
      <4>1. CASE i = 1
        BY <3>2, <3>4, <3>5, <3>7, <4>1
      <4>2. CASE j = 1
        BY <3>2, <3>4, <3>5, <3>7, <4>2
      <4>3. CASE i # 1 /\ j # 1
        <5>1. i - 1 \in 1..Len(o) /\ j - 1 \in 1..Len(o) /\ o[i - 1] = o[j - 1]
          BY <3>4, <3>7, <4>3
        <5>2. i - 1 = j - 1
          BY <3>3, <5>1 DEF OpenFits
        <5> QED BY <5>2
      <4> QED BY <4>1, <4>2, <4>3
    <3>8. ASSUME NEW m, m = l PROVE OpenFits(f, m)'
      BY <3>8, <1>2, <3>1, <3>6, <3>7 DEF OpenFits
    <3> QED BY <3>1, <3>8 DEF l, o
  <2> QED BY <2>3, <2>4
<1>10. ASSUME NEW g \in 1..Len(flow) PROVE FlowFits(g, flow[g])'
  <2>1. FlowFits(g, flow[g])
    BY <1>1
  <2>2. CASE g = f
    BY <1>2, <1>3, <1>6, <1>7, <1>9, <2>1, <2>2 DEF FlowFits, new
  <2>3. CASE g # f
    <3>1. flow'[g] = flow[g]
      BY <1>3, <2>3
    <3>2. flow[g].span # 0 => /\ Awaits(spans[flow[g].span].flow, g)
                              /\ spans'[flow[g].span] = spans[flow[g].span]
      BY <1>2, <2>1 DEF FlowFits
    <3>3. ASSUME NEW a, flow[g].span # 0, a = spans[flow[g].span].flow
          PROVE  a = spans'[flow[g].span].flow /\ Awaits(a, g)'
      <4>1. Awaits(a, g)
        BY <3>2, <3>3
      <4> QED BY <1>5, <3>2, <3>3, <4>1
    <3> QED BY <1>2, <1>7, <1>9, <2>1, <3>1, <3>3 DEF FlowFits
  <2> QED BY <2>2, <2>3
<1>11. ASSUME NEW t \in 1..new PROVE SpanFits(t, spans[t])'
  <2>1. CASE t = new
    <3>1. spans'[t] = s /\ FlowFits(f, flow[f])
      BY <1>1, <1>2, <2>1
    <3>2. s.parent # 0 => /\ Awaits(spans[s.parent].flow, f)
                          /\ s.parent \in 1..Len(spans) /\ spans'[s.parent] = spans[s.parent]
      BY <1>2, <3>1 DEF FlowFits
    <3>3. s.parent \in 0..new - 1
      BY <1>1, <3>1 DEF FlowFits, new
    <3>4. ASSUME NEW a, s.parent # 0, a = spans'[s.parent].flow PROVE Awaits(a, f)'
      <4>1. Awaits(a, f)
        BY <3>2, <3>4
      <4> QED BY <1>5, <4>1
    <3> QED BY <1>3, <2>1, <3>1, <3>3, <3>4 DEF SpanFits
  <2>2. CASE t \in 1..Len(spans)
    <3>1. spans'[t] = spans[t] /\ SpanFits(t, spans[t])
      BY <1>1, <1>2, <2>2
    <3>2. spans[t].parent # 0 => /\ Awaits(spans[spans[t].parent].flow, spans[t].flow)
                                 /\ spans[t].parent \in 1..Len(spans)
      BY <1>1, <2>2, <3>1 DEF SpanFits
    <3>3. ASSUME NEW a, NEW b, spans[t].parent # 0, a = spans'[spans[t].parent].flow,
                 b = spans[t].flow
          PROVE  Awaits(a, b)'
      <4>1. Awaits(a, b)
        BY <1>2, <3>2, <3>3
      <4> QED BY <1>5, <4>1
    <3> QED BY <1>3, <3>1, <3>3 DEF SpanFits
  <2> QED BY <1>1, <2>1, <2>2 DEF new
<1>12. Counted' = Counted
  <2>1. \A t \in written' : t \in 1..Len(spans) \/ (t = new /\ ~spans'[t].metered)
    BY <1>1, <1>2 DEF new
  <2> QED BY <1>1, <1>2, <1>8, <2>1 DEF Counted
<1> QED BY <1>2, <1>3, <1>7, <1>8, <1>10, <1>11, <1>12 DEF TraceInv


\* A cost on a span changes nothing else.
CostGoes(h, costs) ==
  spans' = IF costs THEN [spans EXCEPT ![h].metered = TRUE] ELSE spans

LEMMA CostIsPut ==
  ASSUME spans \in Seq(SpanSet), NEW h \in 1..Len(spans), NEW costs \in BOOLEAN
  PROVE  CostGoes(h, costs)
           => /\ spans' \in Seq(SpanSet) /\ Len(spans') = Len(spans)
              /\ \A t \in 1..Len(spans) :
                   /\ spans'[t].trace = spans[t].trace /\ spans'[t].parent = spans[t].parent
                   /\ spans'[t].flow = spans[t].flow /\ spans'[t].kind = spans[t].kind
                   /\ spans'[t].metered = (spans[t].metered \/ (costs /\ t = h))
<1>0. SUFFICES ASSUME spans' = IF costs THEN [spans EXCEPT ![h].metered = TRUE] ELSE spans
      PROVE  /\ spans' \in Seq(SpanSet) /\ Len(spans') = Len(spans)
             /\ \A t \in 1..Len(spans) :
                  /\ spans'[t].trace = spans[t].trace /\ spans'[t].parent = spans[t].parent
                  /\ spans'[t].flow = spans[t].flow /\ spans'[t].kind = spans[t].kind
                  /\ spans'[t].metered = (spans[t].metered \/ (costs /\ t = h))
  BY DEF CostGoes
<1>1. /\ \A t \in 1..Len(spans) : spans[t] \in SpanSet /\ spans[t].metered \in BOOLEAN
      /\ spans[h] \in SpanSet
  <2>1. \A t \in 1..Len(spans) : spans[t] \in SpanSet
    OBVIOUS
  <2> QED BY <2>1 DEF SpanSet
<1>2. CASE ~costs
  <2>1. spans' = spans
    BY <1>0, <1>2
  <2> QED BY <1>1, <1>2, <2>1
<1>3. CASE costs
  <2> DEFINE y == [spans[h] EXCEPT !.metered = TRUE]
  <2>1. spans' = [spans EXCEPT ![h] = y]
    BY <1>0, <1>3
  <2>2. /\ y \in SpanSet /\ y.trace = spans[h].trace
        /\ y.parent = spans[h].parent /\ y.flow = spans[h].flow /\ y.kind = spans[h].kind
        /\ y.metered = TRUE
    BY <1>1 DEF SpanSet
  <2> HIDE DEF y
  <2>3. /\ spans' \in Seq(SpanSet) /\ Len(spans') = Len(spans) /\ spans'[h] = y
        /\ \A t \in 1..Len(spans) : t # h => spans'[t] = spans[t]
    <3>1. y \in SpanSet
      BY <2>2
    <3> QED BY <2>1, <3>1, Replaced
  <2>4. \A t \in 1..Len(spans) : spans'[t].metered = (spans[t].metered \/ (costs /\ t = h))
    BY <1>1, <1>3, <2>2, <2>3
  <2> QED BY <2>2, <2>3, <2>4
<1> QED BY <1>2, <1>3

\* The innermost n open spans of flow f end, the first of them with a cost or
\* without, and none but them are written.
LEMMA SpansEnd ==
  ASSUME TraceInv, NEW f \in 1..Len(flow), NEW n \in 1..Len(flow[f].open), NEW x \in FlowSet,
         NEW W, NEW costs \in BOOLEAN,
         flow' = [flow EXCEPT ![f] = x],
         x.caller = flow[f].caller, x.span = flow[f].span, x.trace = flow[f].trace,
         x.open = SubSeq(flow[f].open, n + 1, Len(flow[f].open)),
         W \subseteq {flow[f].open[i] : i \in 1..n}, flow[f].open[1] \in W,
         written' = written \cup W,
         spans' = IF costs THEN [spans EXCEPT ![flow[f].open[1]].metered = TRUE] ELSE spans,
         metered' = IF costs /\ spans[flow[f].open[1]].kind = "llm" THEN metered + 1 ELSE metered
  PROVE  TraceInv'
<1> DEFINE o == flow[f].open
           h == o[1]
<1>1. /\ spans \in Seq(SpanSet) /\ flow \in Seq(FlowSet) /\ written \subseteq 1..Len(spans)
      /\ DOMAIN flow = 1..Len(flow) /\ Len(flow) \in Nat /\ Len(spans) \in Nat
      /\ DOMAIN spans = 1..Len(spans)
      /\ \A g \in 1..Len(flow) : FlowFits(g, flow[g])
      /\ \A t \in 1..Len(spans) : SpanFits(t, spans[t])
      /\ MaxSpans \in Nat /\ Last_ \in Nat /\ f \in Nat
  <2>1. DOMAIN flow = 1..Len(flow) /\ Len(flow) \in Nat /\ Len(spans) \in Nat
        /\ DOMAIN spans = 1..Len(spans) /\ MaxSpans \in Nat /\ Last_ \in Nat
    BY TraceFacts
  <2>2. f \in Nat
    BY <2>1
  <2> QED BY <2>1, <2>2 DEF TraceInv
<1>2. /\ o \in Seq(Nat) /\ Len(o) \in Nat /\ 1 \in 1..Len(o) /\ OpenFits(f, o)
      /\ n \in Nat /\ 1 \in 1..n /\ 1..n \subseteq 1..Len(o)
  <2>1. o \in Seq(Nat) /\ Len(o) \in Nat /\ OpenFits(f, o)
    BY <1>1, TraceFacts DEF FlowFits
  <2> QED BY <2>1
<1>3. h \in 1..Len(spans) /\ h \notin written /\ ~spans[h].metered
  BY <1>2 DEF OpenFits
<1>4. /\ spans' \in Seq(SpanSet) /\ Len(spans') = Len(spans)
      /\ \A t \in 1..Len(spans) :
           /\ spans'[t].trace = spans[t].trace /\ spans'[t].parent = spans[t].parent
           /\ spans'[t].flow = spans[t].flow /\ spans'[t].kind = spans[t].kind
           /\ spans'[t].metered = (spans[t].metered \/ (costs /\ t = h))
  <2>1. CostGoes(h, costs)
    BY DEF CostGoes
  <2> HIDE DEF h
  <2>2. spans \in Seq(SpanSet) /\ h \in 1..Len(spans)
    BY <1>1, <1>3
  <2> QED BY <2>1, <2>2, CostIsPut
<1>5. /\ flow' \in Seq(FlowSet) /\ Len(flow') = Len(flow) /\ flow'[f] = x
      /\ \A g \in 1..Len(flow) : g # f => flow'[g] = flow[g]
  BY <1>1
<1>6. ASSUME NEW g, NEW k, Awaits(g, k) PROVE Awaits(g, k)'
  <2>1. \A k_ \in 1..Len(flow) : flow'[k_].caller = flow[k_].caller
    BY <1>5
  <2> QED BY <1>5, <1>6, <2>1, AwaitedStill
<1>7. \A t \in W : \E i \in 1..n : t = o[i]
  OBVIOUS
<1>8. \A t \in W : t \in 1..Len(spans) /\ t \notin written /\ ~spans[t].metered /\ spans[t].flow = f
  <2> HIDE DEF o
  <2> TAKE t \in W
  <2>1. PICK i \in 1..n : t = o[i]
    BY <1>7
  <2>2. i \in 1..Len(o)
    BY <1>2, <2>1
  <2> QED BY <1>2, <2>1, <2>2 DEF OpenFits
<1> HIDE DEF h
<1>9. ASSUME NEW g \in 1..Len(flow), g # f PROVE OpenFits(g, flow[g].open)'
  <2>1. OpenFits(g, flow[g].open) /\ flow'[g] = flow[g]
    BY <1>1, <1>5, <1>9 DEF FlowFits
  <2>2. ASSUME NEW m, m = flow[g].open PROVE OpenFits(g, m)'
    <3>1. OpenFits(g, m)
      BY <2>1, <2>2
    <3>2. ASSUME NEW i \in 1..Len(m)
          PROVE  /\ m[i] \in 1..Len(spans) /\ m[i] \notin written'
                 /\ spans'[m[i]].flow = g /\ ~spans'[m[i]].metered
      <4>1. /\ m[i] \in 1..Len(spans) /\ m[i] \notin written /\ spans[m[i]].flow = g
            /\ ~spans[m[i]].metered
        BY <3>1 DEF OpenFits
      <4>2. m[i] \notin W /\ m[i] # h
        <5>1. h \in W
          BY DEF h
        <5> QED BY <1>8, <1>9, <4>1, <5>1
      <4> QED BY <1>4, <4>1, <4>2
    <3> QED BY <1>4, <3>1, <3>2 DEF OpenFits
  <2> QED BY <2>1, <2>2
<1>10. ASSUME NEW m, m = x.open PROVE OpenFits(f, m)'
  <2>1. /\ Len(m) \in Nat
        /\ \A i \in 1..Len(m) : n + i \in 1..Len(o) /\ m[i] = o[n + i]
    <3> HIDE DEF o
    <3>1. n \in 0..Len(o) /\ o \in Seq(Nat)
      BY <1>2
    <3>2. LET z == SubSeq(o, n + 1, Len(o))
          IN  /\ Len(z) = Len(o) - n
              /\ \A i \in 1..Len(z) : n + i \in 1..Len(o) /\ z[i] = o[n + i]
      BY <3>1, Behind
    <3>3. m = SubSeq(o, n + 1, Len(o))
      BY <1>10 DEF o
    <3>4. Len(o) - n \in Nat
      BY <1>2, <3>1
    <3> QED BY <3>2, <3>3, <3>4
  <2> HIDE DEF o
  <2>2. ASSUME NEW i \in 1..Len(m)
        PROVE  /\ m[i] \in 1..Len(spans) /\ m[i] \notin written'
               /\ spans'[m[i]].flow = f /\ ~spans'[m[i]].metered
    <3>1. n + i \in 1..Len(o) /\ m[i] = o[n + i] /\ n + i \notin 1..n
      BY <1>2, <2>1
    <3>2. /\ m[i] \in 1..Len(spans) /\ m[i] \notin written /\ spans[m[i]].flow = f
          /\ ~spans[m[i]].metered
      BY <1>2, <3>1 DEF OpenFits
    <3>3. \A k \in 1..n : o[k] # m[i]
      <4> SUFFICES ASSUME NEW k \in 1..n, o[k] = o[n + i] PROVE FALSE
        BY <3>1
      <4>1. k \in 1..Len(o)
        BY <1>2
      <4>2. k = n + i
        BY <1>2, <3>1, <4>1 DEF OpenFits
      <4> QED BY <3>1, <4>2
    <3>4. m[i] \notin W /\ m[i] # h
      BY <1>2, <1>7, <3>3 DEF h
    <3> QED BY <1>4, <3>2, <3>4
  <2>3. ASSUME NEW i \in 1..Len(m), NEW j \in 1..Len(m), m[i] = m[j] PROVE i = j
    <3>1. /\ n + i \in 1..Len(o) /\ n + j \in 1..Len(o) /\ o[n + i] = o[n + j]
      BY <2>1, <2>3
    <3>2. n + i = n + j
      BY <1>2, <3>1 DEF OpenFits
    <3> QED BY <1>2, <2>1, <3>2
  <2> QED BY <1>4, <2>2, <2>3 DEF OpenFits
<1>11. ASSUME NEW g \in 1..Len(flow) PROVE FlowFits(g, flow[g])'
  <2>1. FlowFits(g, flow[g])
    BY <1>1
  <2>2. /\ flow'[g].caller = flow[g].caller /\ flow'[g].span = flow[g].span
        /\ flow'[g].trace = flow[g].trace
    BY <1>5
  <2>3. OpenFits(g, flow[g].open)'
    BY <1>5, <1>9, <1>10
  <2>4. ASSUME NEW a, flow'[g].span # 0, a = spans'[flow'[g].span].flow PROVE Awaits(a, g)'
    <3>1. flow[g].span \in 1..Len(spans)
      <4>1. flow[g].span \in 0..Len(spans) /\ flow[g].span # 0
        BY <2>1, <2>2, <2>4 DEF FlowFits
      <4> QED BY <1>1, <4>1
    <3>2. Awaits(a, g)
      BY <1>4, <2>1, <2>2, <2>4, <3>1 DEF FlowFits
    <3> QED BY <1>6, <3>2
  <2> QED BY <1>4, <2>1, <2>2, <2>3, <2>4 DEF FlowFits
<1>12. ASSUME NEW t \in 1..Len(spans) PROVE SpanFits(t, spans[t])'
  <2>1. SpanFits(t, spans[t])
    BY <1>1
  <2>2. ASSUME NEW a, NEW b, spans'[t].parent # 0, a = spans'[spans'[t].parent].flow,
               b = spans'[t].flow
        PROVE  Awaits(a, b)'
    <3>1. spans[t].parent \in 1..Len(spans) /\ spans'[t].parent = spans[t].parent
      <4>1. spans'[t].parent = spans[t].parent
        BY <1>4
      <4>2. spans[t].parent \in 0..t - 1 /\ spans[t].parent # 0
        BY <2>1, <2>2, <4>1 DEF SpanFits
      <4>3. spans[t].parent \in 1..t - 1
        BY <1>1, <4>2
      <4>4. 1..t - 1 \subseteq 1..Len(spans)
        BY <1>1
      <4> QED BY <4>1, <4>3, <4>4
    <3>2. Awaits(a, b)
      BY <1>4, <2>1, <2>2, <3>1 DEF SpanFits
    <3> QED BY <1>6, <3>2
  <2> QED BY <1>4, <1>5, <2>1, <2>2 DEF SpanFits
<1>13. metered' \in Nat /\ metered' = Cardinality(Counted')
  <2>1. h \in W
    BY DEF h
  <2>2. Counted' = IF costs /\ spans[h].kind = "llm" THEN Counted \cup {h} ELSE Counted
    <3>1. \A t \in written : t \in 1..Len(spans) /\ t # h
      BY <1>1, <1>3
    <3>2. \A t \in written : t \in Counted' <=> t \in Counted
      BY <1>4, <3>1 DEF Counted
    <3>3. \A t \in W : t \in Counted' <=> (costs /\ spans[h].kind = "llm" /\ t = h)
      <4> TAKE t \in W
      <4>1. t \in 1..Len(spans) /\ ~spans[t].metered /\ t \in written'
        BY <1>8
      <4>2. /\ spans'[t].kind = spans[t].kind
            /\ spans'[t].metered = (spans[t].metered \/ (costs /\ t = h))
        BY <1>4, <4>1
      <4> QED BY <4>1, <4>2 DEF Counted
    <3>4. Counted \subseteq written /\ Counted' \subseteq written \cup W
      BY DEF Counted
    <3>5. \A t : t \in Counted' <=> \/ t \in Counted
                                    \/ costs /\ spans[h].kind = "llm" /\ t = h
      BY <1>8, <2>1, <3>2, <3>3, <3>4
    <3> QED BY <3>5
  <2>3. h \notin Counted /\ IsFiniteSet(Counted) /\ metered = Cardinality(Counted) /\ metered \in Nat
    BY <1>3, TraceFacts DEF TraceInv, Counted
  <2>4. Cardinality(Counted \cup {h}) = Cardinality(Counted) + 1
    BY <2>3, FS_AddElement
  <2>5. metered' = IF costs /\ spans[h].kind = "llm" THEN metered + 1 ELSE metered
    BY DEF h
  <2> QED BY <2>2, <2>3, <2>4, <2>5
<1>14. written' \subseteq 1..Len(spans) /\ Len(spans') <= MaxSpans
  BY <1>1, <1>4, <1>8 DEF TraceInv
<1> QED BY <1>4, <1>5, <1>11, <1>12, <1>13, <1>14 DEF TraceInv


\* New flows, made of coroutines, inherit from the flow that awaits them.
LEMMA FlowsStart ==
  ASSUME TraceInv, NEW f \in 1..Len(flow), NEW kinds \in Seq(FlowKinds),
         UNCHANGED <<spans, written, metered>>
  PROVE  flow' = flow \o [i \in DOMAIN kinds |->
                            Trace!NewFlow(kinds[i], f, flow[f].trace, flow[f].span)]
           => TraceInv'
<1> DEFINE made == [i \in DOMAIN kinds |->
                      Trace!NewFlow(kinds[i], f, flow[f].trace, flow[f].span)]
           old == Len(flow)
<1>1. /\ flow \in Seq(FlowSet) /\ old \in Nat /\ DOMAIN flow = 1..old /\ flow[f] \in FlowSet
      /\ Len(kinds) \in Nat /\ DOMAIN kinds = 1..Len(kinds) /\ f \in Nat
      /\ FlowFits(f, flow[f]) /\ Len(spans) \in Nat
  BY TraceFacts DEF TraceInv
<1>2. \A i \in 1..Len(kinds) :
        /\ made[i] \in FlowSet /\ made[i].caller = f /\ made[i].trace = flow[f].trace
        /\ made[i].span = flow[f].span /\ made[i].open = <<>>
  BY <1>1 DEF Trace!NewFlow, FlowSet
<1>3. made \in Seq(FlowSet) /\ Len(made) = Len(kinds)
  <2>1. made = [i \in 1..Len(kinds) |-> made[i]]
    BY <1>1
  <2> HIDE DEF made
  <2> QED BY <1>1, <1>2, <2>1
<1> HIDE DEF made
<1> SUFFICES ASSUME flow' = flow \o made PROVE TraceInv'
  BY DEF made
<1>4. /\ flow' \in Seq(FlowSet) /\ Len(flow') = old + Len(kinds)
      /\ \A g \in 1..old : flow'[g] = flow[g]
      /\ \A i \in 1..Len(kinds) : flow'[old + i] = made[i]
  <2>1. LET both == flow \o made
        IN  /\ both \in Seq(FlowSet) /\ Len(both) = Len(flow) + Len(made)
            /\ \A g \in 1..Len(flow) : both[g] = flow[g]
            /\ \A i \in 1..Len(made) : both[Len(flow) + i] = made[i]
    <3>1. flow \in Seq(FlowSet) /\ made \in Seq(FlowSet)
      BY <1>1, <1>3
    <3> QED BY <3>1, Joined
  <2> QED BY <1>3, <2>1
<1> DEFINE all == Len(flow')
<1>5. all = old + Len(kinds) /\ all \in Nat /\ 1..old \subseteq 1..all
  BY <1>1, <1>4
<1>6. ASSUME NEW g, NEW h \in 1..old, Awaits(g, h) PROVE Awaits(g, h)'
  <2> SUFFICES ASSUME NEW T \in SUBSET (1..all), h \in T, HasCallers(T)' PROVE g \in T
    BY DEF Awaits
  <2> HIDE DEF all
  <2> DEFINE U == T \cap (1..old)
  <2>1. HasCallers(U)
    <3> SUFFICES ASSUME NEW k \in U, flow[k].caller # 0 PROVE flow[k].caller \in U
      BY DEF HasCallers
    <3>1. flow'[k] = flow[k] /\ k \in 1..old
      BY <1>4
    <3>2. flow[k].caller \in T
      BY <3>1 DEF HasCallers
    <3>3. FlowFits(k, flow[k]) /\ k \in Nat
      BY <3>1 DEF TraceInv
    <3>4. flow[k].caller \in 1..old
      BY SMTT(30), <1>1, <3>1, <3>3 DEF FlowFits
    <3> QED BY <3>2, <3>4
  <2>2. U \in SUBSET (1..Len(flow)) /\ h \in U
    OBVIOUS
  <2> QED BY <1>6, <2>1, <2>2 DEF Awaits
<1> HIDE DEF old, all
<1>7. ASSUME NEW g \in 1..all PROVE FlowFits(g, flow[g])'
  <2>1. CASE g \in 1..old
    <3>1. FlowFits(g, flow[g]) /\ flow'[g] = flow[g]
      BY <1>4, <2>1 DEF TraceInv, old
    <3>2. ASSUME NEW a, flow[g].span # 0, a = spans[flow[g].span].flow PROVE Awaits(a, g)'
      <4>1. Awaits(a, g)
        BY <3>1, <3>2 DEF FlowFits
      <4> QED BY <1>6, <2>1, <4>1
    <3>3. OpenFits(g, flow[g].open)'
      <4>1. ASSUME NEW o, OpenFits(g, o) PROVE OpenFits(g, o)'
        BY <4>1 DEF OpenFits
      <4>2. OpenFits(g, flow[g].open)
        BY <3>1 DEF FlowFits
      <4> QED BY <3>1, <4>1, <4>2
    <3> QED BY <3>1, <3>2, <3>3 DEF FlowFits
  <2>2. CASE g \notin 1..old
    <3> DEFINE i == g - old
    <3>1. i \in 1..Len(kinds) /\ old + i = g /\ f < g /\ g \in Nat
      <4>1. f \in 1..old
        BY DEF old
      <4> QED BY <1>1, <1>5, <2>2, <4>1
    <3> HIDE DEF i
    <3>2. /\ flow'[g].caller = f /\ flow'[g].trace = flow[f].trace
          /\ flow'[g].span = flow[f].span /\ flow'[g].open = <<>>
      BY <1>2, <1>4, <3>1
    <3>3. f \in 0..g - 1 /\ f # 0
      BY <1>1, <3>1
    <3>4. ASSUME NEW a, flow[f].span # 0, a = spans[flow[f].span].flow PROVE Awaits(a, g)'
      <4>1. Awaits(a, f)
        BY <1>1, <3>4 DEF FlowFits
      <4>2. Awaits(a, f)'
        <5>1. f \in 1..old
          BY DEF old
        <5> QED BY <1>6, <4>1, <5>1
      <4>3. ASSUME NEW T \in SUBSET (1..all), g \in T, HasCallers(T)' PROVE f \in T
        BY <3>2, <3>3, <4>3 DEF HasCallers
      <4> QED BY <4>2, <4>3 DEF Awaits, all
    <3>5. OpenFits(g, flow[g].open)'
      <4>1. ASSUME NEW o, o = <<>> PROVE OpenFits(g, o)'
        <5>1. Len(o) = 0
          BY <4>1
        <5> QED BY <5>1 DEF OpenFits
      <4> QED BY <3>2, <4>1
    <3> QED BY <1>1, <3>2, <3>3, <3>4, <3>5 DEF FlowFits
  <2> QED BY <2>1, <2>2
<1>8. ASSUME NEW s \in 1..Len(spans) PROVE SpanFits(s, spans[s])'
  <2>1. SpanFits(s, spans[s])
    BY DEF TraceInv
  <2>2. spans[s].flow \in 1..old
    BY <2>1 DEF SpanFits, old
  <2>3. ASSUME NEW a, NEW b, spans[s].parent # 0, a = spans[spans[s].parent].flow,
               b = spans[s].flow
        PROVE  Awaits(a, b)'
    <3>1. Awaits(a, b)
      BY <2>1, <2>3 DEF SpanFits
    <3> QED BY <1>6, <2>2, <2>3, <3>1
  <2> QED BY <1>5, <2>1, <2>2, <2>3 DEF SpanFits, all
<1>9. Counted' = Counted
  BY DEF Counted
<1> QED BY <1>4, <1>7, <1>8, <1>9 DEF TraceInv, all

\* The steps of the tracer, by what they do to the flow that makes them.
LEMMA EnterStarts ==
  ASSUME TraceInv, NEW f \in 1..Len(flow), NEW trace \in 0..Last_, NEW kind \in SpanKinds,
         Trace!Enter(f, trace, kind), UNCHANGED <<written, metered>>
  PROVE  TraceInv'
<1> DEFINE s == Trace!start_span(f, trace, kind)
           new == Len(spans) + 1
           x == [flow[f] EXCEPT !.trace = s.trace, !.span = new, !.open = <<new>> \o @]
<1>1. flow[f] \in FlowSet /\ new \in Nat /\ FlowFits(f, flow[f]) /\ MaxSpans \in Nat
      /\ flow[f].span \in Nat /\ f \in Nat /\ flow[f].open \in Seq(Nat) /\ Last_ \in Nat
  <2>1. /\ flow[f] \in FlowSet /\ MaxSpans \in Nat /\ Last_ \in Nat /\ new \in Nat
        /\ f \in Nat /\ flow[f].open \in Seq(Nat)
    BY TraceFacts
  <2>2. flow[f].span \in Nat
    BY <2>1 DEF FlowSet
  <2> QED BY <2>1, <2>2 DEF TraceInv
<1>2. Len(spans) < MaxSpans /\ spans' = Append(spans, s)
  BY DEF Trace!Enter
<1>3. /\ s \in SpanSet /\ s.trace \in 1..Last_ /\ s.parent = flow[f].span /\ s.flow = f
      /\ s.metered = FALSE
  <2>1. (IF trace = 0 THEN new ELSE trace) \in 1..Last_
    BY <1>1, <1>2 DEF Last_
  <2>2. s = [trace |-> IF trace = 0 THEN new ELSE trace, parent |-> flow[f].span,
             kind |-> kind, flow |-> f, metered |-> FALSE]
    BY DEF Trace!start_span, Trace!NoId, Trace!get_span_id
  <2> HIDE DEF s, new
  <2> QED BY <1>1, <2>1, <2>2 DEF SpanSet
<1> HIDE DEF s
<1>4. flow' = [flow EXCEPT ![f] = x]
  BY <1>1 DEF Trace!Enter, FlowSet, s
<1>5. /\ x \in FlowSet /\ x.caller = flow[f].caller /\ x.span = new
      /\ x.trace = s.trace /\ x.open = <<new>> \o flow[f].open
  <2>1. <<new>> \o flow[f].open \in Seq(Nat)
    <3>1. <<new>> \in Seq(Nat)
      BY <1>1
    <3> HIDE DEF new
    <3> QED BY <1>1, <3>1
  <2>2. s.trace \in Nat
    BY <1>1, <1>3
  <2> HIDE DEF new
  <2> QED BY <1>1, <2>1, <2>2 DEF FlowSet
<1> HIDE DEF x
<1>6. x.trace \in 0..Last_
  BY <1>1, <1>3, <1>5
<1> QED BY <1>2, <1>3, <1>4, <1>5, <1>6, SpanStarts

LEMMA MarkStarts ==
  ASSUME TraceInv, NEW f \in 1..Len(flow), NEW kind \in {"phase", "task"}, Trace!Mark(f, kind)
  PROVE  TraceInv'
<1> DEFINE trace == flow[f].trace
           s == Trace!start_span(f, trace, kind)
           new == Len(spans) + 1
           x == [flow[f] EXCEPT !.trace = s.trace, !.span = new, !.done = kind = "task"]
<1>1. flow[f] \in FlowSet /\ new \in Nat /\ FlowFits(f, flow[f]) /\ MaxSpans \in Nat
      /\ flow[f].span \in Nat /\ f \in Nat /\ flow[f].open \in Seq(Nat) /\ Last_ \in Nat
      /\ trace \in 0..Last_
  <2>1. /\ flow[f] \in FlowSet /\ MaxSpans \in Nat /\ Last_ \in Nat /\ new \in Nat
        /\ f \in Nat /\ flow[f].open \in Seq(Nat)
    BY TraceFacts
  <2>2. flow[f].span \in Nat
    BY <2>1 DEF FlowSet
  <2>3. FlowFits(f, flow[f])
    BY DEF TraceInv
  <2>4. trace \in 0..Last_
    BY <2>3 DEF FlowFits
  <2> QED BY <2>1, <2>2, <2>3, <2>4
<1>2. /\ Len(spans) < MaxSpans /\ spans' = Append(spans, s) /\ metered' = metered
      /\ written' = written \cup {new}
  BY DEF Trace!Mark
<1>3. /\ s \in SpanSet /\ s.trace \in 1..Last_ /\ s.parent = flow[f].span /\ s.flow = f
      /\ s.metered = FALSE
  <2>1. (IF trace = 0 THEN new ELSE trace) \in 1..Last_
    BY <1>1, <1>2 DEF Last_
  <2>2. s = [trace |-> IF trace = 0 THEN new ELSE trace, parent |-> flow[f].span,
             kind |-> kind, flow |-> f, metered |-> FALSE]
    BY DEF Trace!start_span, Trace!NoId, Trace!get_span_id
  <2> HIDE DEF s, new, trace
  <2> QED BY <1>1, <2>1, <2>2 DEF SpanSet, SpanKinds
<1> HIDE DEF s
<1>4. flow' = [flow EXCEPT ![f] = x]
  BY <1>1 DEF Trace!Mark, FlowSet, s
<1>5. /\ x \in FlowSet /\ x.caller = flow[f].caller /\ x.span = new
      /\ x.trace = s.trace /\ x.open = flow[f].open
  <2>1. s.trace \in Nat /\ (kind = "task") \in BOOLEAN
    BY <1>1, <1>3
  <2> HIDE DEF new
  <2> QED BY <1>1, <2>1 DEF FlowSet
<1> HIDE DEF x
<1>6. x.trace \in 0..Last_
  BY <1>1, <1>3, <1>5
<1> QED BY <1>2, <1>3, <1>4, <1>5, <1>6, SpanStarts

LEMMA CloseEnds ==
  ASSUME TraceInv, NEW f \in 1..Len(flow), NEW n \in 1..Len(flow[f].open), Trace!Close(f, n),
         NEW W, NEW costs \in BOOLEAN,
         W \subseteq {flow[f].open[i] : i \in 1..n}, flow[f].open[1] \in W,
         written' = written \cup W,
         spans' = IF costs THEN [spans EXCEPT ![flow[f].open[1]].metered = TRUE] ELSE spans,
         metered' = IF costs /\ spans[flow[f].open[1]].kind = "llm" THEN metered + 1 ELSE metered
  PROVE  TraceInv'
<1> DEFINE rest == SubSeq(flow[f].open, n + 1, Len(flow[f].open))
           ends == rest = <<>> /\ flow[f].kind \notin {"run", "subswarm"}
           x == [flow[f] EXCEPT !.open = rest, !.done = ends]
<1>1. flow[f] \in FlowSet /\ flow[f].open \in Seq(Nat) /\ Len(flow[f].open) \in Nat
  BY TraceFacts
<1>2. rest \in Seq(Nat)
  <2>1. n \in 0..Len(flow[f].open)
    BY <1>1
  <2> QED BY <1>1, <2>1, Behind
<1>3. flow' = [flow EXCEPT ![f] = x]
  BY <1>1 DEF Trace!Close, FlowSet
<1>4. /\ x \in FlowSet /\ x.caller = flow[f].caller /\ x.span = flow[f].span
      /\ x.trace = flow[f].trace /\ x.open = rest
  <2>1. ends \in BOOLEAN
    OBVIOUS
  <2> HIDE DEF ends, rest
  <2> QED BY <1>1, <1>2, <2>1 DEF FlowSet
<1> HIDE DEF x
<1> QED BY <1>3, <1>4, SpansEnd

LEMMA OneAndTwo == Trace!Cardinality({1}) = 1 /\ Trace!Cardinality({1, 2}) = 2
<1>1. Cardinality({1}) = 1 /\ IsFiniteSet({1})
  BY FS_Singleton
<1>2. Cardinality({1} \cup {2}) = 2
  <2> DEFINE one == {1}
  <2>1. 2 \notin one /\ IsFiniteSet(one) /\ Cardinality(one) = 1
    BY <1>1
  <2> HIDE DEF one
  <2>2. Cardinality(one \cup {2}) = Cardinality(one) + 1
    BY <2>1, FS_AddElement
  <2>3. Cardinality(one \cup {2}) = 2
    BY <2>1, <2>2
  <2> QED BY <2>3 DEF one
<1>3. {1} \cup {2} = {1, 2}
  OBVIOUS
<1>4. Cardinality({1, 2}) = 2
  BY <1>2, <1>3
<1>5. \A S : Trace!Cardinality(S) = Cardinality(S)
  BY DEF Trace!Cardinality, Trace!IsFiniteSet, Cardinality, IsFiniteSet
<1>6. Trace!Cardinality({1}) = 1
  BY <1>1, <1>5
<1>7. Trace!Cardinality({1, 2}) = 2
  BY <1>4, <1>5
<1> QED BY <1>6, <1>7

LEMMA ReplyEnds ==
  ASSUME TraceInv, NEW f \in 1..Len(flow), Trace!Reply(f)
  PROVE  TraceInv'
<1> DEFINE o == flow[f].open
           llm == {i \in DOMAIN o : spans[o[i]].kind = "llm"}
           W == {o[i] : i \in llm}
<1>1. /\ o \in Seq(Nat) /\ Len(o) \in Nat /\ DOMAIN o = 1..Len(o)
  BY TraceFacts
<1>2. /\ llm = {1, 2} \/ llm = {1}
      /\ spans' = [spans EXCEPT ![o[1]].metered = TRUE] /\ written' = written \cup W
      /\ Trace!Close(f, Trace!Cardinality(llm)) /\ metered' = metered + 1
  BY DEF Trace!Reply
<1>3. /\ Trace!Cardinality({1}) = 1 /\ Trace!Cardinality({1, 2}) = 2
  BY OneAndTwo
<1>4. /\ 1 \in llm /\ llm \subseteq 1..Len(o)
      /\ llm = 1..Trace!Cardinality(llm) /\ Trace!Cardinality(llm) \in {1, 2}
  <2>1. llm \subseteq 1..Len(o)
    BY <1>1
  <2>2. 1..1 = {1} /\ 1..2 = {1, 2}
    OBVIOUS
  <2> HIDE DEF llm
  <2> QED BY <1>2, <1>3, <2>1, <2>2
<1>5. spans[o[1]].kind = "llm"
  BY <1>4
<1> DEFINE n == Trace!Cardinality(llm)
<1>6. n \in 1..Len(o) /\ W \subseteq {o[i] : i \in 1..n} /\ o[1] \in W
  <2> HIDE DEF llm
  <2>1. n \in 1..n
    BY <1>4
  <2> HIDE DEF n
  <2>2. llm = 1..n /\ n \in llm /\ 1 \in llm
    BY <1>4, <2>1 DEF n
  <2> QED BY <1>4, <2>2
<1> HIDE DEF n, W, llm
<1>7. Trace!Close(f, n)
  BY <1>2 DEF n
<1> QED BY <1>2, <1>5, <1>6, <1>7, CloseEnds

LEMMA OneEnds ==
  ASSUME TraceInv, NEW f \in 1..Len(flow), Trace!Leave(f) \/ Trace!Answer(f)
  PROVE  TraceInv'
<1> DEFINE o == flow[f].open
<1>1. o \in Seq(Nat) /\ Len(o) \in Nat
  BY TraceFacts
<1>2. o # <<>>
  <2>1. CASE Trace!Leave(f)
    BY <2>1 DEF Trace!Leave
  <2>2. CASE Trace!Answer(f)
    BY <2>2 DEF Trace!Answer, Trace!Top
  <2> QED BY <2>1, <2>2
<1>3. Head(o) = o[1] /\ 1 \in 1..Len(o)
  BY <1>1, <1>2
<1>4. {o[1]} \subseteq {o[i] : i \in 1..1} /\ o[1] \in {o[1]}
  OBVIOUS
<1>5. CASE Trace!Leave(f)
  <2>1. /\ Trace!Close(f, 1) /\ written' = written \cup {o[1]} /\ spans' = spans
        /\ metered' = metered
    BY <1>3, <1>5 DEF Trace!Leave
  <2>2. /\ spans' = IF FALSE THEN [spans EXCEPT ![flow[f].open[1]].metered = TRUE] ELSE spans
        /\ metered' = IF FALSE /\ spans[flow[f].open[1]].kind = "llm" THEN metered + 1
                      ELSE metered
    BY <2>1
  <2> QED BY <1>3, <1>4, <2>1, <2>2, CloseEnds
<1>6. CASE Trace!Answer(f)
  <2>1. /\ Trace!Close(f, 1) /\ written' = written \cup {o[1]}
        /\ spans' = [spans EXCEPT ![o[1]].metered = TRUE]
        /\ metered' = metered /\ spans[o[1]].kind = "agent"
    BY <1>2, <1>3, <1>6 DEF Trace!Answer, Trace!Top
  <2>2. /\ spans' = IF TRUE THEN [spans EXCEPT ![flow[f].open[1]].metered = TRUE] ELSE spans
        /\ metered' = IF TRUE /\ spans[flow[f].open[1]].kind = "llm" THEN metered + 1
                      ELSE metered
    BY <2>1
  <2> QED BY <1>3, <1>4, <2>1, <2>2, CloseEnds
<1> QED BY <1>5, <1>6

LEMMA ResolvedKeeps ==
  ASSUME TraceInv, NEW f \in 1..Len(flow), Trace!Resolved(f)
  PROVE  TraceInv'
<1> DEFINE x == [flow[f] EXCEPT !.done = TRUE]
<1>1. flow[f] \in FlowSet /\ flow \in Seq(FlowSet)
  BY TraceFacts DEF TraceInv
<1>2. flow' = [flow EXCEPT ![f] = x] /\ UNCHANGED <<spans, written, metered>>
  BY <1>1 DEF Trace!Resolved, FlowSet
<1>3. /\ x \in FlowSet /\ x.caller = flow[f].caller /\ x.span = flow[f].span
      /\ x.trace = flow[f].trace /\ x.open = flow[f].open
  BY <1>1 DEF FlowSet
<1> HIDE DEF x
<1>4. /\ flow' \in Seq(FlowSet) /\ Len(flow') = Len(flow) /\ flow'[f] = x
      /\ \A g \in 1..Len(flow) : g # f => flow'[g] = flow[g]
  BY <1>1, <1>2, <1>3
<1>5. \A g \in 1..Len(flow) :
        /\ flow'[g].caller = flow[g].caller /\ flow'[g].span = flow[g].span
        /\ flow'[g].trace = flow[g].trace /\ flow'[g].open = flow[g].open
  BY <1>3, <1>4
<1>6. ASSUME NEW g, NEW h, Awaits(g, h) PROVE Awaits(g, h)'
  BY <1>4, <1>5, <1>6, AwaitedStill
<1>7. ASSUME NEW g \in 1..Len(flow) PROVE FlowFits(g, flow[g])'
  <2>1. FlowFits(g, flow[g])
    BY DEF TraceInv
  <2>2. ASSUME NEW a, flow[g].span # 0, a = spans[flow[g].span].flow PROVE Awaits(a, g)'
    <3>1. Awaits(a, g)
      BY <2>1, <2>2 DEF FlowFits
    <3> QED BY <1>6, <3>1
  <2>3. ASSUME NEW m, OpenFits(g, m) PROVE OpenFits(g, m)'
    BY <1>2, <2>3 DEF OpenFits
  <2>4. OpenFits(g, flow[g].open)'
    BY <1>5, <2>1, <2>3 DEF FlowFits
  <2> QED BY <1>2, <1>5, <2>1, <2>2, <2>4 DEF FlowFits
<1>8. ASSUME NEW s \in 1..Len(spans) PROVE SpanFits(s, spans[s])'
  <2>1. SpanFits(s, spans[s])
    BY DEF TraceInv
  <2>2. ASSUME NEW a, NEW b, spans[s].parent # 0, a = spans[spans[s].parent].flow,
               b = spans[s].flow
        PROVE  Awaits(a, b)'
    <3>1. Awaits(a, b)
      BY <2>1, <2>2 DEF SpanFits
    <3> QED BY <1>6, <3>1
  <2> QED BY <1>2, <1>4, <2>1, <2>2 DEF SpanFits
<1>9. Counted' = Counted
  BY <1>2 DEF Counted
<1> QED BY <1>2, <1>4, <1>7, <1>8, <1>9 DEF TraceInv

LEMMA TraceSteps == TraceInv /\ [Next]_vars => TraceInv'
<1> SUFFICES ASSUME TraceInv, [Next]_vars PROVE TraceInv'
  OBVIOUS
<1>1. Trace!Next \/ UNCHANGED traceVars
  BY PartsStep
<1>2. CASE UNCHANGED traceVars
  <2>1. flow' = flow /\ spans' = spans /\ written' = written /\ metered' = metered
    BY <1>2 DEF traceVars
  <2>2. ASSUME NEW g, NEW h, Awaits(g, h) PROVE Awaits(g, h)'
    BY <2>1, <2>2 DEF Awaits, HasCallers
  <2>3. ASSUME NEW g \in 1..Len(flow), NEW x, FlowFits(g, x) PROVE FlowFits(g, x)'
    <3>1. ASSUME NEW a, x.span # 0, a = spans[x.span].flow PROVE Awaits(a, g)'
      <4>1. Awaits(a, g)
        BY <2>3, <3>1 DEF FlowFits
      <4> QED BY <2>2, <4>1
    <3>2. OpenFits(g, x.open)'
      <4>1. OpenFits(g, x.open)
        BY <2>3 DEF FlowFits
      <4> QED BY <2>1, <4>1 DEF OpenFits
    <3> QED BY <2>1, <2>3, <3>1, <3>2 DEF FlowFits
  <2>4. ASSUME NEW s, NEW x, SpanFits(s, x) PROVE SpanFits(s, x)'
    <3>1. ASSUME NEW a, NEW b, x.parent # 0, a = spans[x.parent].flow, b = x.flow
          PROVE  Awaits(a, b)'
      <4>1. Awaits(a, b)
        BY <2>4, <3>1 DEF SpanFits
      <4> QED BY <2>2, <4>1
    <3> QED BY <2>1, <2>4, <3>1 DEF SpanFits
  <2>5. Counted' = Counted
    BY <2>1 DEF Counted
  <2>6. \A g \in 1..Len(flow) : FlowFits(g, flow[g])'
    BY <2>1, <2>3 DEF TraceInv
  <2>7. \A s \in 1..Len(spans) : SpanFits(s, spans[s])'
    BY <2>1, <2>4 DEF TraceInv
  <2> QED BY <2>1, <2>5, <2>6, <2>7 DEF TraceInv
<1>3. ASSUME NEW f \in DOMAIN flow,
             \/ \E kind \in {"phase", "task"} : Trace!Mark(f, kind)
             \/ Trace!Leave(f) \/ Trace!run_task(f) \/ Trace!complete(f) \/ Trace!Reply(f)
             \/ Trace!Answer(f) \/ Trace!CallTool(f) \/ Trace!Resolved(f)
             \/ \E kinds \in Trace!Batches \cup {<<"member", "member">>, <<"tool">>} :
                  Trace!Gather(f, kinds)
      PROVE  TraceInv'
  <2>1. f \in 1..Len(flow) /\ Len(spans) \in Nat /\ MaxSpans \in Nat
    BY TraceFacts
  <2>2. flow[f].trace \in 0..Last_
    BY <2>1 DEF TraceInv, FlowFits
  <2>3. ASSUME Trace!run_task(f) PROVE TraceInv'
    <3> DEFINE trace == IF flow[f].kind \in {"subswarm", "member"} /\ Trace!Top(f) = "nothing"
                        THEN Len(spans) + 1 ELSE Last_
    <3>1. Trace!Enter(f, trace, "agent") /\ UNCHANGED <<written, metered>>
      BY <2>3 DEF Trace!run_task, Trace!RunTrace, Last_
    <3>2. Len(spans) < MaxSpans
      BY <3>1 DEF Trace!Enter
    <3>3. trace \in 0..Last_ /\ "agent" \in SpanKinds
      BY <2>1, <3>2 DEF Last_, SpanKinds
    <3> HIDE DEF trace
    <3> QED BY <2>1, <3>1, <3>3, EnterStarts
  <2>4. ASSUME Trace!complete(f) \/ Trace!CallTool(f) PROVE TraceInv'
    <3>1. PICK kind \in {"llm", "tool"} :
            Trace!Enter(f, flow[f].trace, kind) /\ UNCHANGED <<written, metered>>
      BY <2>4 DEF Trace!complete, Trace!CallTool
    <3>2. kind \in SpanKinds
      BY DEF SpanKinds
    <3> QED BY <2>1, <2>2, <3>1, <3>2, EnterStarts
  <2>5. ASSUME NEW kinds \in Trace!Batches \cup {<<"member", "member">>, <<"tool">>},
               Trace!Gather(f, kinds)
        PROVE  TraceInv'
    <3>1. kinds \in Seq(FlowKinds)
      <4>1. \/ kinds \in {<<"task">>, <<"subswarm">>, <<"tool">>}
            \/ kinds \in {<<"task", "task">>, <<"task", "subswarm">>, <<"member", "member">>}
        BY DEF Trace!Batches
      <4>2. \A a, b \in FlowKinds : <<a>> \in Seq(FlowKinds) /\ <<a, b>> \in Seq(FlowKinds)
        OBVIOUS
      <4>3. {"task", "subswarm", "tool", "member"} \subseteq FlowKinds
        BY DEF FlowKinds
      <4> HIDE DEF FlowKinds
      <4> QED BY <4>1, <4>2, <4>3
    <3>2. /\ flow' = flow \o [i \in DOMAIN kinds |->
                               Trace!NewFlow(kinds[i], f, flow[f].trace, flow[f].span)]
          /\ UNCHANGED <<spans, written, metered>>
      BY <2>5 DEF Trace!Gather
    <3> QED BY <2>1, <3>1, <3>2, FlowsStart
  <2> QED BY <1>3, <2>1, <2>3, <2>4, <2>5, MarkStarts, OneEnds, ReplyEnds, ResolvedKeeps
<1> QED BY <1>1, <1>2, <1>3 DEF Trace!Next

LEMMA TraceInvAlways == Spec => []TraceInv
BY TraceBegins, TraceSteps, PTL DEF Spec

\* The flows that await f are those the recursive definition goes through: it
\* has a solution, theirs, and no other, since a flow's caller is before it.
Awaiting(f) == {g \in 1..Len(flow) : Awaits(g, f)}

LEMMA AwaitingStep ==
  ASSUME TraceInv, NEW f \in 1..Len(flow), NEW c, c = flow[f].caller
  PROVE  Awaiting(f) = {f} \cup (IF c = 0 THEN {} ELSE Awaiting(c))
<1>1. Len(flow) \in Nat
  BY TraceFacts
<1>2. \A g \in 1..Len(flow) : g \in Nat /\ flow[g].caller \in 0..g - 1
  <2>1. \A g \in 1..Len(flow) : FlowFits(g, flow[g])
    BY DEF TraceInv
  <2> QED BY <1>1, <2>1 DEF FlowFits
<1> DEFINE above == IF c = 0 THEN {} ELSE Awaiting(c)
<1>3. \A g \in 1..Len(flow) : flow[g].caller # 0 => flow[g].caller \in 1..Len(flow)
  BY <1>1, <1>2
<1>4. ASSUME NEW g \in {f} \cup above PROVE g \in Awaiting(f)
  <2>1. CASE g = f
    BY <2>1 DEF Awaiting, Awaits
  <2>2. CASE c # 0 /\ g \in Awaiting(c)
    <3>1. g \in 1..Len(flow) /\ Awaits(g, c)
      BY <2>2 DEF Awaiting
    <3>2. ASSUME NEW T \in SUBSET (1..Len(flow)), f \in T, HasCallers(T) PROVE g \in T
      <4>1. c \in T
        BY <2>2, <3>2 DEF HasCallers
      <4> QED BY <3>1, <3>2, <4>1 DEF Awaits
    <3> QED BY <3>1, <3>2 DEF Awaiting, Awaits
  <2> QED BY <1>4, <2>1, <2>2
<1>5. ASSUME NEW g \in Awaiting(f) PROVE g \in {f} \cup above
  <2> DEFINE T == {f} \cup above
  <2>1. T \in SUBSET (1..Len(flow)) /\ f \in T
    BY DEF Awaiting
  <2>2. HasCallers(T)
    <3> SUFFICES ASSUME NEW k \in T, flow[k].caller # 0 PROVE flow[k].caller \in T
      BY DEF HasCallers
    <3>1. k \in 1..Len(flow)
      BY <2>1
    <3>2. CASE k = f
      <4>1. c # 0 /\ c \in 1..Len(flow)
        BY <1>3, <3>2
      <4> QED BY <3>2, <4>1 DEF Awaiting, Awaits
    <3>3. CASE c # 0 /\ k \in Awaiting(c)
      <4>1. Awaits(k, c)
        BY <3>3 DEF Awaiting
      <4>2. ASSUME NEW U \in SUBSET (1..Len(flow)), c \in U, HasCallers(U)
            PROVE  flow[k].caller \in U
        <5>1. k \in U
          BY <4>1, <4>2 DEF Awaits
        <5> QED BY <4>2, <5>1 DEF HasCallers
      <4>3. flow[k].caller \in Awaiting(c)
        BY <1>3, <3>1, <4>2 DEF Awaiting, Awaits
      <4> QED BY <3>3, <4>3
    <3> QED BY <3>2, <3>3
  <2>3. Awaits(g, f)
    BY DEF Awaiting
  <2> HIDE DEF T
  <2>4. g \in T
    BY <2>1, <2>2, <2>3 DEF Awaits
  <2> QED BY <2>4 DEF T
<1> HIDE DEF above
<1>6. Awaiting(f) = {f} \cup above
  BY <1>4, <1>5
<1> QED BY <1>6 DEF above

LEMMA AncestryIsAwaiting ==
  ASSUME TraceInv, NEW f \in 1..Len(flow)
  PROVE  Trace!Ancestry[f] = Awaiting(f)
<1> DEFINE Body(u) == [g \in 0..f |-> IF g = 0 THEN {} ELSE {g} \cup u[flow[g].caller]]
           upto == CHOOSE u : u = [g \in 0..f |-> IF g = 0 THEN {}
                                                   ELSE {g} \cup u[flow[g].caller]]
           w == [g \in 0..f |-> IF g = 0 THEN {} ELSE Awaiting(g)]
<1>1. Trace!Ancestry[f] = upto[f]
  <2>1. f \in DOMAIN flow
    BY TraceFacts
  <2> QED BY <2>1 DEF Trace!Ancestry, Trace!NoId
<1>2. f \in Nat /\ \A g \in 1..f : g \in 1..Len(flow) /\ flow[g].caller \in 0..g - 1
  <2>1. \A g \in 1..Len(flow) : FlowFits(g, flow[g])
    BY DEF TraceInv
  <2>2. Len(flow) \in Nat
    BY TraceFacts
  <2> QED BY <2>1, <2>2 DEF FlowFits
<1>3. ASSUME NEW g \in 1..f PROVE w[g] = {g} \cup w[flow[g].caller]
  <2>1. Awaiting(g) = {g} \cup (IF flow[g].caller = 0 THEN {} ELSE Awaiting(flow[g].caller))
    BY <1>2, AwaitingStep
  <2>2. flow[g].caller \in 0..f /\ g \in 0..f /\ g # 0
    BY <1>2
  <2> QED BY <2>1, <2>2
<1>4. w[0] = {}
  BY <1>2
<1>5. w = Body(w)
  <2>1. \A g \in 0..f : w[g] = Body(w)[g]
    <3> HIDE DEF w
    <3>1. \A g \in 0..f : g # 0 => g \in 1..f
      BY <1>2
    <3> QED BY <1>3, <1>4, <3>1
  <2> QED BY <2>1
<1>6. upto = Body(upto)
  BY <1>5
<1> HIDE DEF upto
<1> DEFINE S == {n \in 0..f : \A g \in 0..n : upto[g] = w[g]}
<1>7. 0 \in S
  <2>1. upto[0] = {} /\ 0 \in 0..f /\ \A g \in 0..0 : g = 0
    BY <1>2, <1>6
  <2> HIDE DEF w
  <2> QED BY <1>4, <2>1
<1>8. ASSUME NEW n \in 0..f - 1, n \in S PROVE n + 1 \in S
  <2>1. n + 1 \in 1..f /\ n + 1 \in 0..f /\ flow[n + 1].caller \in 0..n
    BY <1>2
  <2>2. upto[n + 1] = {n + 1} \cup upto[flow[n + 1].caller]
    BY <1>6, <2>1
  <2>3. upto[n + 1] = w[n + 1]
    <3> HIDE DEF w
    <3> QED BY <1>3, <1>8, <2>1, <2>2
  <2> HIDE DEF w
  <2>4. \A g \in 0..n + 1 : g \in 0..n \/ g = n + 1
    OBVIOUS
  <2> QED BY <1>8, <2>1, <2>3, <2>4
<1>9. 0..f \subseteq S
  <2> HIDE DEF S
  <2> QED BY <1>2, <1>7, <1>8, BoundedInduction
<1>10. upto[f] = w[f]
  <2>1. f \in S /\ f \in 0..f
    <3> HIDE DEF S
    <3> QED BY <1>2, <1>9
  <2> HIDE DEF w
  <2> QED BY <2>1
<1>11. w[f] = Awaiting(f)
  <2>1. f \in 0..f /\ f # 0
    BY <1>2
  <2> QED BY <2>1
<1> QED BY <1>1, <1>10, <1>11

(* Tracing: agents of a batch run concurrently in one process, each with the *)
(* context copied from its creator (observability/tracing.py:22-23), and     *)
(* none files a span under a span of another: a span's parent was started in *)
(* the span's own flow or in one that awaits it.                             *)
THEOREM SpansFollowTheCalls == Spec => []UnderItsCaller
<1>1. TraceInv => UnderItsCaller
  <2> SUFFICES ASSUME TraceInv, NEW s \in 1..Len(spans), spans[s].parent # 0
               PROVE  spans[spans[s].parent].flow \in Trace!Ancestry[spans[s].flow]
    BY DEF UnderItsCaller, Trace!UnderItsCaller, Trace!SpanIds, Trace!NoId
  <2>1. /\ spans[s].parent \in 0..s - 1 /\ spans[s].flow \in 1..Len(flow)
        /\ Awaits(spans[spans[s].parent].flow, spans[s].flow)
    BY DEF TraceInv, SpanFits
  <2>2. spans[s].parent \in 1..Len(spans)
    <3>1. Len(spans) \in Nat
      BY TraceFacts
    <3> QED BY <2>1, <3>1
  <2>3. spans[spans[s].parent].flow \in 1..Len(flow)
    BY <2>2 DEF TraceInv, SpanFits
  <2>4. spans[spans[s].parent].flow \in Awaiting(spans[s].flow)
    BY <2>1, <2>3 DEF Awaiting
  <2> QED BY <2>1, <2>4, AncestryIsAwaiting
<1> QED BY <1>1, TraceInvAlways, PTL

\* The tree: what is shown after d rounds from the roots is of the file, and has
\* its spans up to d + 1, since a span's parent was started before it.
LEMMA TreeIsWhole ==
  ASSUME TraceInv, NEW t
  PROVE  Trace!pretty_print_trace(t) = Trace!load_trace(t)
<1> DEFINE loaded == {s \in written : spans[s].trace = t}
           roots == {s \in loaded : spans[s].parent \notin loaded}
           next(above) == above \cup {s \in loaded : spans[s].parent \in above}
           Body(a) == [d \in 0..MaxSpans |-> IF d = 0 THEN roots ELSE next(a[d - 1])]
           added == CHOOSE a : a = Body(a)
           G == [d \in 1..MaxSpans |-> [above \in SUBSET loaded |-> next(above)]]
<1>1. Trace!load_trace(t) = loaded /\ Trace!pretty_print_trace(t) = added[MaxSpans]
  BY DEF Trace!pretty_print_trace, Trace!load_trace
<1>2. /\ MaxSpans \in Nat /\ Len(spans) \in Nat /\ Len(spans) <= MaxSpans
      /\ loaded \subseteq 1..Len(spans)
      /\ \A s \in 1..Len(spans) : spans[s].parent \in 0..s - 1
  <2>1. \A s \in 1..Len(spans) : SpanFits(s, spans[s])
    BY DEF TraceInv
  <2>2. MaxSpans \in Nat /\ Len(spans) \in Nat
    BY TraceFacts
  <2> QED BY <2>1, <2>2 DEF TraceInv, SpanFits
<1>3. Steps(MaxSpans, SUBSET loaded, G)
  BY DEF Steps
<1>4. roots \in SUBSET loaded
  OBVIOUS
<1>5. PICK f \in [0..MaxSpans -> SUBSET loaded] : Follows(f, MaxSpans, roots, G)
  <2> HIDE DEF G, roots
  <2> QED BY <1>2, <1>3, <1>4, Recursion
<1>6. f = [d \in 0..MaxSpans |-> IF d = 0 THEN roots ELSE next(f[d - 1])]
  <2>1. ASSUME NEW d \in 0..MaxSpans
        PROVE  f[d] = IF d = 0 THEN roots ELSE next(f[d - 1])
    <3>1. CASE d = 0
      BY <1>5, <3>1 DEF Follows
    <3>2. CASE d \in 1..MaxSpans
      <4>1. f[d - 1] \in SUBSET loaded
        BY <1>2, <3>2
      <4>2. d # 0 /\ G[d] = [above \in SUBSET loaded |-> next(above)]
        BY <1>2, <3>2
      <4> HIDE DEF loaded, roots, next, G
      <4>3. f[d] = G[d][f[d - 1]]
        BY <1>5, <3>2 DEF Follows
      <4> QED BY <4>1, <4>2, <4>3
    <3> QED BY <1>2, <3>1, <3>2
  <2> QED BY <2>1
<1>7. added = [d \in 0..MaxSpans |-> IF d = 0 THEN roots ELSE next(added[d - 1])]
  <2> HIDE DEF loaded, roots, next
  <2>1. f = Body(f)
    BY <1>6
  <2> HIDE DEF Body
  <2>2. added = Body(added)
    BY <2>1
  <2> QED BY <2>2 DEF Body
<1> HIDE DEF added, G
<1> DEFINE S == {d \in 0..MaxSpans : /\ added[d] \subseteq loaded
                                     /\ \A s \in loaded : s <= d + 1 => s \in added[d]}
<1>8. 0 \in S
  <2>1. added[0] = roots /\ 0 \in 0..MaxSpans
    BY <1>2, <1>7
  <2>2. ASSUME NEW s \in loaded, s <= 0 + 1 PROVE s \in roots
    <3>1. s \in 1..Len(spans) /\ s = 1
      BY <1>2, <2>2
    <3>2. spans[s].parent = 0 /\ 0 \notin loaded
      BY <1>2, <3>1
    <3> QED BY <3>2
  <2> HIDE DEF loaded, roots
  <2> QED BY <1>4, <2>1, <2>2
<1>9. ASSUME NEW d \in 0..MaxSpans - 1, d \in S PROVE d + 1 \in S
  <2>1. /\ added[d + 1] = next(added[d]) /\ d + 1 \in 0..MaxSpans /\ d \in Nat
        /\ added[d] \subseteq loaded /\ \A s \in loaded : s <= d + 1 => s \in added[d]
    <3>1. d + 1 \in 0..MaxSpans /\ d + 1 # 0 /\ (d + 1) - 1 = d /\ d \in Nat
      BY <1>2
    <3> HIDE DEF next, roots, loaded
    <3> QED BY <1>7, <1>9, <3>1
  <2>2. ASSUME NEW s \in loaded, s <= d + 2 PROVE s \in next(added[d])
    <3>1. s \in 1..Len(spans) /\ s \in Nat /\ spans[s].parent \in 0..s - 1
      BY <1>2
    <3>2. CASE s <= d + 1
      BY <2>1, <3>2
    <3>3. CASE s = d + 2
      <4>1. CASE spans[s].parent \in loaded
        <5>1. spans[s].parent <= d + 1
          BY <2>1, <3>1, <3>3
        <5>2. spans[s].parent \in added[d]
          <6> HIDE DEF loaded
          <6> QED BY <2>1, <4>1, <5>1
        <5> QED BY <5>2
      <4>2. CASE spans[s].parent \notin loaded
        <5>1. s \in roots
          BY <4>2
        <5>2. \A n \in 0..MaxSpans : roots \subseteq added[n]
          <6> DEFINE U == {n \in 0..MaxSpans : roots \subseteq added[n]}
          <6> HIDE DEF roots, loaded
          <6>1. 0 \in U
            BY <1>2, <1>7
          <6>2. ASSUME NEW n \in 0..MaxSpans - 1, n \in U PROVE n + 1 \in U
            <7>1. n + 1 \in 0..MaxSpans /\ n + 1 # 0 /\ (n + 1) - 1 = n
              BY <1>2
            <7> QED BY <1>7, <6>2, <7>1
          <6> HIDE DEF U
          <6>3. 0..MaxSpans \subseteq U
            BY <1>2, <6>1, <6>2, BoundedInduction
          <6> QED BY <6>3 DEF U
        <5>3. d \in 0..MaxSpans
          BY <1>2
        <5> HIDE DEF roots
        <5> QED BY <5>1, <5>2, <5>3
      <4> QED BY <4>1, <4>2
    <3> QED BY <2>1, <2>2, <3>1, <3>2, <3>3
  <2>3. next(added[d]) \subseteq loaded
    BY <2>1
  <2>4. \A s \in loaded : s <= (d + 1) + 1 => s \in added[d + 1]
    <3>1. (d + 1) + 1 = d + 2
      BY <2>1
    <3> HIDE DEF next, loaded
    <3> QED BY <2>1, <2>2, <3>1
  <2> HIDE DEF next, loaded
  <2> QED BY <2>1, <2>3, <2>4
<1>10. 0..MaxSpans \subseteq S
  <2> HIDE DEF S
  <2> QED BY <1>2, <1>8, <1>9, BoundedInduction
<1>11. added[MaxSpans] = loaded
  <2>1. MaxSpans \in S
    <3> HIDE DEF S
    <3> QED BY <1>2, <1>10
  <2>2. \A s \in loaded : s <= MaxSpans + 1
    BY <1>2
  <2> HIDE DEF loaded
  <2> QED BY <2>1, <2>2
<1> QED BY <1>1, <1>11

\* The costs: the files have the counted spans between them, each in the one of
\* its trace.
LEMMA CostsAddUp == TraceInv => Trace!CostCountedOnce
<1> SUFFICES ASSUME TraceInv PROVE Trace!CostCountedOnce
  OBVIOUS
<1> DEFINE cost(t) == Cardinality({s \in Counted : spans[s].trace = t})
           Body(u) == [t \in 0..Last_ |-> IF t = 0 THEN 0 ELSE u[t - 1] + cost(t)]
           upto == CHOOSE u : u = Body(u)
           below(n) == {s \in Counted : spans[s].trace <= n}
           G == [t \in 1..Last_ |-> [v \in Nat |-> v + cost(t)]]
<1>1. \A t : Trace!cost_summary(t) = cost(t)
  <2> TAKE t
  <2>1. {s \in Trace!load_trace(t) : spans[s].kind = "llm" /\ spans[s].metered}
          = {s \in Counted : spans[s].trace = t}
    BY DEF Trace!load_trace, Counted
  <2>2. \A T : Trace!Cardinality(T) = Cardinality(T)
    BY DEF Trace!Cardinality, Trace!IsFiniteSet, Cardinality, IsFiniteSet
  <2> QED BY <2>1, <2>2 DEF Trace!cost_summary
<1>2. Last_ \in Nat /\ IsFiniteSet(Counted)
      /\ \A s \in Counted : spans[s].trace \in 1..Last_
  <2>1. \A s \in Counted : s \in 1..Len(spans)
    BY DEF TraceInv, Counted
  <2>2. \A s \in 1..Len(spans) : SpanFits(s, spans[s])
    BY DEF TraceInv
  <2> QED BY <2>1, <2>2, TraceFacts DEF SpanFits
<1>3. ASSUME NEW n \in Nat
      PROVE  /\ IsFiniteSet(below(n)) /\ cost(n) \in Nat
             /\ IsFiniteSet({s \in Counted : spans[s].trace = n})
             /\ Cardinality(below(n)) \in Nat
  <2>1. IsFiniteSet(below(n)) /\ IsFiniteSet({s \in Counted : spans[s].trace = n})
    <3>1. \A T \in SUBSET Counted : IsFiniteSet(T)
      BY <1>2, FS_Subset
    <3> QED BY <3>1
  <2> QED BY <2>1, FS_CardinalityType
<1>4. Trace!CostCountedOnce = (upto[Last_] = metered)
  <2> HIDE DEF cost
  <2> QED BY <1>1 DEF Trace!CostCountedOnce, Trace!RunTrace, Last_
<1> HIDE DEF cost
<1>5. upto = [t \in 0..Last_ |-> IF t = 0 THEN 0 ELSE upto[t - 1] + cost(t)]
  <2>1. Steps(Last_, Nat, G)
    <3>1. \A n \in Nat : cost(n) \in Nat
      BY <1>3
    <3>2. \A n \in 1..Last_ : n \in Nat
      BY <1>2
    <3> QED BY <3>1, <3>2 DEF Steps
  <2>2. PICK f \in [0..Last_ -> Nat] : Follows(f, Last_, 0, G)
    <3> HIDE DEF G
    <3> QED BY <1>2, <2>1, Recursion
  <2>3. ASSUME NEW t \in 0..Last_ PROVE f[t] = IF t = 0 THEN 0 ELSE f[t - 1] + cost(t)
    <3>1. CASE t = 0
      BY <2>2, <3>1 DEF Follows
    <3>2. CASE t \in 1..Last_
      <4>1. f[t - 1] \in Nat /\ t # 0
        BY <1>2, <2>2, <3>2
      <4> QED BY <2>2, <3>2, <4>1 DEF Follows
    <3> QED BY <1>2, <3>1, <3>2
  <2>4. f = Body(f)
    BY <2>3
  <2> HIDE DEF Body
  <2>5. upto = Body(upto)
    BY <2>4
  <2> QED BY <2>5 DEF Body
<1> HIDE DEF upto, G
<1> DEFINE S == {n \in 0..Last_ : upto[n] = Cardinality(below(n))}
<1>6. 0 \in S
  <2>1. below(0) = {}
    BY <1>2
  <2>2. Cardinality(below(0)) = 0
    BY <2>1, FS_EmptySet
  <2> HIDE DEF below
  <2> QED BY <1>2, <1>5, <2>2
<1>7. ASSUME NEW n \in 0..Last_ - 1, n \in S PROVE n + 1 \in S
  <2> DEFINE new == {s \in Counted : spans[s].trace = n + 1}
  <2>1. n \in Nat /\ n + 1 \in Nat /\ n + 1 \in 0..Last_ /\ n + 1 # 0 /\ (n + 1) - 1 = n
    BY <1>2
  <2>2. below(n + 1) = below(n) \cup new /\ below(n) \cap new = {}
    <3>1. \A s \in Counted : spans[s].trace \in Nat
      BY <1>2
    <3> QED BY <2>1, <3>1
  <2>3. IsFiniteSet(below(n)) /\ IsFiniteSet(new) /\ cost(n + 1) = Cardinality(new)
        /\ Cardinality(below(n)) \in Nat /\ Cardinality(new) \in Nat
    <3>1. cost(n + 1) = Cardinality(new)
      BY DEF cost
    <3>2. IsFiniteSet(new) /\ cost(n + 1) \in Nat
      BY <1>3, <2>1
    <3> QED BY <1>3, <2>1, <3>1, <3>2
  <2> HIDE DEF new, below
  <2>4. Cardinality(below(n + 1)) = Cardinality(below(n)) + Cardinality(new)
    <3>1. Cardinality(below(n) \cup new)
            = Cardinality(below(n)) + Cardinality(new) - Cardinality(below(n) \cap new)
      BY <2>3, FS_Union
    <3>2. Cardinality(below(n) \cap new) = 0
      BY <2>2, FS_EmptySet
    <3>3. Cardinality(below(n) \cup new) = Cardinality(below(n)) + Cardinality(new)
      BY <2>3, <3>1, <3>2
    <3>4. below(n + 1) = below(n) \cup new
      BY <2>2
    <3> HIDE DEF below
    <3> QED BY <3>3, <3>4
  <2>5. upto[n + 1] = upto[n] + cost(n + 1)
    BY <1>5, <2>1
  <2> QED BY <1>7, <2>1, <2>3, <2>4, <2>5
<1>8. 0..Last_ \subseteq S
  <2> HIDE DEF S
  <2> QED BY <1>2, <1>6, <1>7, BoundedInduction
<1>9. upto[Last_] = Cardinality(below(Last_))
  <2>1. Last_ \in S
    <3> HIDE DEF S
    <3> QED BY <1>2, <1>8
  <2> HIDE DEF below
  <2> QED BY <2>1
<1>10. below(Last_) = Counted
  BY <1>2
<1> HIDE DEF below
<1> QED BY <1>4, <1>9, <1>10 DEF TraceInv

(* Replay: `swarm trace` shows every span of a trace's file, whatever was    *)
(* written when the program stopped (observability/replay.py:15-36), and     *)
(* `swarm cost` counts each metered reply exactly once over all the files,   *)
(* although the agent's own span carries the same cost (replay.py:39-51).    *)
THEOREM FilesAreReadWhole == Spec => []TraceIsReadWhole
<1>1. TraceInv => TraceIsReadWhole
  <2>1. TraceInv => Trace!EverySpanIsShown
    BY TreeIsWhole DEF Trace!EverySpanIsShown
  <2> QED BY <2>1, CostsAddUp DEF TraceIsReadWhole, Trace!TraceIsReadWhole
<1> QED BY <1>1, TraceInvAlways, PTL

=============================================================================
