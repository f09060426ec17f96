---------------------------- MODULE JobApiProofs ----------------------------
(***************************************************************************)
(* The safety of JobApi for any requests, keys, bodies and bounds: replays *)
(* of a creation agree, and a terminal status in the cache, on its way to  *)
(* it or told to a client is the job's own.                                *)
(***************************************************************************)
EXTENDS JobApi, SequenceTheorems, TLAPS

\* One row per key; a result is stored exactly for the statuses it goes with.
RowsInv ==
    /\ \A i, j \in DOMAIN rows : rows[i].key = rows[j].key => i = j
    /\ \A j \in DOMAIN rows : rows[j].result <=> rows[j].status \in Published

\* A transaction that has inserted a key and not committed is the only one, and
\* no committed row has its key.
InsertInv(r) ==
    request[r].pc = "commit" =>
        /\ \A j \in DOMAIN rows : rows[j].key # request[r].key
        /\ \A c \in Requests : c # r /\ request[c].pc = "commit" => request[c].key # request[r].key

\* A job of the rows s with this key and body; a status that, being terminal, is
\* that of the job in s.
Stored(s, j, k, b) == j \in DOMAIN s /\ s[j].key = k /\ s[j].body = b
Holds(s, j, status) == status \in Terminal => j \in DOMAIN s /\ s[j].status = status

\* What a request carries over its awaits is so in the rows s.
Carries(R, s) ==
    /\ R.pc \in {"insert", "commit", "lookup"} => R.key \in Keys /\ R.body \in Bodies
    /\ R.pc \in {"read", "find", "cancel"} => R.key = NoBody /\ R.job \in JobIds
    /\ R.pc = "put" => /\ R.job \in DOMAIN s
                       /\ R.key \in Keys => Stored(s, R.job, R.key, R.body)
                       /\ Holds(s, R.job, R.status)

RequestsInv ==
    /\ \A r \in Requests : Carries(request[r], rows)
    /\ \A r \in Requests : InsertInv(r)

CacheInv ==
    /\ \A j \in JobIds : Holds(rows, j, entry[j])
    /\ \A m \in BagToSet(delayed) : Holds(rows, m[1], m[2])
    /\ \A t \in told : Holds(rows, t[1], t[2])

GrantInv == \A g \in granted : Stored(rows, g[3], g[1], g[2])

\* Only a put carries a status.
ShapeInv == \A r \in Requests : request[r].pc = "put" <=> request[r].status # "none"

ApiInv == RowsInv /\ ShapeInv /\ RequestsInv /\ CacheInv /\ GrantInv

-----------------------------------------------------------------------------
(***************************************************************************)
(* Rows.                                                                   *)
(***************************************************************************)
\* What a step leaves of the committed rows: they stay, with their key and body,
\* and a terminal status stays too.
RowsKept ==
    \A j \in DOMAIN rows :
        /\ j \in DOMAIN rows'
        /\ rows'[j].key = rows[j].key /\ rows'[j].body = rows[j].body
        /\ rows[j].status \in Terminal => rows'[j].status = rows[j].status

\* Assigning one row keeps the others.
LEMMA SetRow ==
    ASSUME NEW s \in Seq(Row), NEW j \in DOMAIN s, NEW w \in Row, NEW t, t = [s EXCEPT ![j] = w]
    PROVE  /\ t \in Seq(Row) /\ Len(t) = Len(s) /\ DOMAIN t = DOMAIN s
           /\ t[j] = w
           /\ \A i \in DOMAIN s : i # j => t[i] = s[i]
<1>1. DOMAIN s = 1..Len(s)
  BY LenProperties
<1>2. t \in Seq(Row) /\ Len(t) = Len(s)
  BY <1>1, ExceptSeq
<1>3. DOMAIN t = 1..Len(t)
  BY <1>2, LenProperties
<1>4. \A i \in 1..Len(s) : t[i] = IF i = j THEN w ELSE s[i]
  BY <1>1, ExceptSeq
<1> QED  BY <1>1, <1>2, <1>3, <1>4

\* Appending a row keeps those before it.
LEMMA AppendRow ==
    ASSUME NEW s \in Seq(Row), NEW w \in Row, NEW t, t = Append(s, w)
    PROVE  /\ t \in Seq(Row) /\ Len(t) = Len(s) + 1
           /\ DOMAIN s = 1..Len(s) /\ DOMAIN t = 1..(Len(s) + 1)
           /\ Len(s) \in Nat
           /\ t[Len(s) + 1] = w
           /\ \A i \in DOMAIN s : t[i] = s[i]
<1>1. DOMAIN s = 1..Len(s) /\ Len(s) \in Nat
  BY LenProperties
<1>2. t \in Seq(Row) /\ Len(t) = Len(s) + 1
  BY <1>1
<1>3. DOMAIN t = 1..Len(t)
  BY <1>2, LenProperties
<1>4. t[Len(s) + 1] = w /\ \A i \in 1..Len(s) : t[i] = s[i]
  BY <1>1
<1> QED  BY <1>1, <1>2, <1>3, <1>4

\* The statuses of the model are those of four disjoint kinds.
LEMMA StatusKinds ==
    /\ Active \cap Terminal = {} /\ "none" \notin Statuses
    /\ "cancelled" \notin Published /\ "cancelled" \in Terminal
    /\ Published \subseteq Terminal /\ Active \cap Published = {}
    /\ "accepted" \in Active /\ "processing" \in Active
    /\ Active \subseteq Statuses /\ Terminal \subseteq Statuses
BY JobApiAssumption DEF Active, Terminal, Statuses

\* Only a status and the mark of a result change in a committed row, together and
\* never out of a terminal status.
LEMMA StatusStep ==
    ASSUME TypeOK, RowsInv, NEW j \in DOMAIN rows, rows[j].status \in Active,
           NEW w \in Row, rows' = [rows EXCEPT ![j] = w],
           w.key = rows[j].key, w.body = rows[j].body, w.result <=> w.status \in Published
    PROVE  rows' \in Seq(Row) /\ Len(rows') = Len(rows) /\ DOMAIN rows' = DOMAIN rows
           /\ RowsKept /\ RowsInv' /\ rows'[j] = w
           /\ \A i \in DOMAIN rows : rows'[i].key = rows[i].key
<1>1. rows \in Seq(Row)
  BY DEF TypeOK
<1>2. /\ rows' \in Seq(Row) /\ Len(rows') = Len(rows) /\ DOMAIN rows' = DOMAIN rows
      /\ rows'[j] = w
      /\ \A i \in DOMAIN rows : i # j => rows'[i] = rows[i]
  BY <1>1, SetRow
<1>3. \A i \in DOMAIN rows : rows'[i].key = rows[i].key /\ rows'[i].body = rows[i].body
  BY <1>2
<1>4. RowsKept
  BY <1>2, <1>3, StatusKinds DEF RowsKept
<1>5. RowsInv'
  <2>1. \A i, k \in DOMAIN rows' : rows'[i].key = rows'[k].key => i = k
    BY <1>2, <1>3 DEF RowsInv
  <2>2. \A i \in DOMAIN rows' : rows'[i].result <=> rows'[i].status \in Published
    BY <1>2 DEF RowsInv
  <2> QED  BY <2>1, <2>2 DEF RowsInv
<1> QED  BY <1>2, <1>3, <1>4, <1>5

-----------------------------------------------------------------------------
(***************************************************************************)
(* Requests.                                                               *)
(***************************************************************************)
\* A request of the right shape: only a put carries a status.
Shaped(R) == R \in RequestRecord /\ (R.pc = "put" <=> R.status # "none")

\* The rows keep their keys, and no row is added.
SameKeys ==
    DOMAIN rows' = DOMAIN rows /\ \A j \in DOMAIN rows : rows'[j].key = rows[j].key

\* The requests are as TypeOK, ShapeInv and RequestsInv say.
RequestsOK == (\A r \in Requests : Shaped(request[r])) /\ RequestsInv /\ request \in [Requests -> RequestRecord]

\* Every request is shaped.
LEMMA RequestsTyped ==
    TypeOK /\ ShapeInv
        => request \in [Requests -> RequestRecord] /\ \A r \in Requests : Shaped(request[r])
BY DEF TypeOK, ShapeInv, Shaped

\* What was so in the store is still so when rows are kept.
LEMMA KeptFacts ==
    ASSUME RowsKept
    PROVE  /\ \A j, k, b : Stored(rows, j, k, b) => Stored(rows', j, k, b)
           /\ \A j, s : Holds(rows, j, s) => Holds(rows', j, s)
           /\ \A R : Carries(R, rows) => Carries(R, rows')
<1>1. \A j, k, b : Stored(rows, j, k, b) => Stored(rows', j, k, b)
  BY DEF RowsKept, Stored
<1>2. \A j, s : Holds(rows, j, s) => Holds(rows', j, s)
  BY DEF RowsKept, Holds
<1>3. \A R : Carries(R, rows) => Carries(R, rows')
  <2>1. \A j \in DOMAIN rows : j \in DOMAIN rows'
    BY DEF RowsKept
  <2> QED  BY <1>1, <1>2, <2>1 DEF Carries
<1> QED  BY <1>1, <1>2, <1>3

\* A request moves on, other than into an insert, and the rows keep their keys.
LEMMA RequestMoves ==
    ASSUME RequestsOK, RowsKept, SameKeys, NEW r \in Requests, NEW w,
           Shaped(w), w.pc # "commit", Carries(w, rows'), request' = [request EXCEPT ![r] = w]
    PROVE  RequestsOK'
<1>1. request'[r] = w /\ \A c \in Requests : c # r => request'[c] = request[c]
  BY DEF RequestsOK
<1>2. request' \in [Requests -> RequestRecord] /\ \A c \in Requests : Shaped(request'[c])
  BY <1>1 DEF RequestsOK, Shaped
<1>3. \A c \in Requests : Carries(request'[c], rows')
  BY <1>1, KeptFacts DEF RequestsOK, RequestsInv
<1>4. ASSUME NEW c \in Requests PROVE InsertInv(c)'
  <2>1. SUFFICES ASSUME request'[c].pc = "commit"
                 PROVE  /\ \A j \in DOMAIN rows' : rows'[j].key # request'[c].key
                        /\ \A d \in Requests : d # c /\ request'[d].pc = "commit"
                                                => request'[d].key # request'[c].key
    BY DEF InsertInv
  <2>2. c # r /\ request'[c] = request[c]
    BY <1>1, <2>1
  <2>3. /\ \A j \in DOMAIN rows : rows[j].key # request[c].key
        /\ \A d \in Requests : d # c /\ request[d].pc = "commit" => request[d].key # request[c].key
    BY <2>1, <2>2 DEF RequestsOK, RequestsInv, InsertInv
  <2>4. \A j \in DOMAIN rows' : rows'[j].key # request'[c].key
    BY <2>2, <2>3 DEF SameKeys
  <2>5. \A d \in Requests : request'[d].pc = "commit" => request'[d] = request[d]
    BY <1>1
  <2> QED  BY <2>2, <2>3, <2>4, <2>5
<1> QED  BY <1>2, <1>3, <1>4 DEF RequestsOK, RequestsInv

\* No request moves, and the rows keep their keys.
LEMMA RequestsStay ==
    ASSUME RequestsOK, RowsKept, SameKeys, UNCHANGED request
    PROVE  RequestsOK'
<1>1. \A c \in Requests : Carries(request'[c], rows')
  BY KeptFacts DEF RequestsOK, RequestsInv
<1>2. ASSUME NEW c \in Requests PROVE InsertInv(c)'
  <2>1. InsertInv(c)
    BY DEF RequestsOK, RequestsInv
  <2> QED  BY <2>1 DEF InsertInv, SameKeys
<1> QED  BY <1>1, <1>2 DEF RequestsOK, RequestsInv

\* A request ends.
LEMMA RequestEnds ==
    ASSUME RequestsOK, RowsKept, SameKeys, NEW r \in Requests, Hangup(r)
    PROVE  RequestsOK'
<1>1. Shaped(Idle)
  BY JobApiAssumption DEF Shaped, Idle, RequestRecord, Pcs
<1>2. Idle.pc = "idle"
  BY DEF Idle
<1>3. Carries(Idle, rows')
  BY <1>2 DEF Carries
<1>4. request' = [request EXCEPT ![r] = Idle]
  BY DEF Hangup, Move
<1> HIDE DEF Idle
<1> QED  BY <1>1, <1>2, <1>3, <1>4, RequestMoves

\* A request takes a status of a job to the cache.
LEMMA RequestPuts ==
    ASSUME TypeOK, RequestsOK, RowsKept, SameKeys, NEW r \in Requests,
           NEW j \in DOMAIN rows', NEW s \in Statuses, j \in JobIds, ToPut(r, j, s),
           Holds(rows', j, s),
           request[r].key \in Keys => Stored(rows', j, request[r].key, request[r].body)
    PROVE  RequestsOK'
<1> DEFINE R == request[r]
           w == [R EXCEPT !.pc = "put", !.job = j, !.status = s]
<1>1. R \in RequestRecord
  BY DEF RequestsOK
<1>2. request' = [request EXCEPT ![r] = w]
  BY DEF ToPut, Move
<1>3. Shaped(w) /\ w.pc = "put" /\ w.job = j /\ w.status = s /\ w.key = R.key /\ w.body = R.body
  <2> HIDE DEF R
  <2>1. w.pc = "put" /\ w.job = j /\ w.status = s /\ w.key = R.key /\ w.body = R.body
    BY <1>1 DEF RequestRecord
  <2>2. w \in RequestRecord
    BY <1>1 DEF RequestRecord, Pcs
  <2>3. w.status # "none"
    BY <2>1, StatusKinds
  <2> QED  BY <2>1, <2>2, <2>3 DEF Shaped
<1> HIDE DEF w
<1>4. Carries(w, rows')
  BY <1>3 DEF Carries
<1> QED  BY <1>2, <1>3, <1>4, RequestMoves

-----------------------------------------------------------------------------
(***************************************************************************)
(* Cache, answers and grants.                                              *)
(***************************************************************************)
\* What TypeOK and ApiInv say of the cache, the answers and the grants.
CacheTyped ==
    /\ entry \in [JobIds -> Statuses \cup {"none"}]
    /\ IsABag(delayed) /\ BagToSet(delayed) \subseteq JobIds \X Statuses
AnswersTyped == granted \subseteq Keys \X Bodies \X JobIds /\ told \subseteq JobIds \X Terminal

\* One more copy in a bag.
LEMMA BagGrows ==
    ASSUME NEW B, NEW x, IsABag(B)
    PROVE  IsABag(B (+) SetToBag({x})) /\ BagToSet(B (+) SetToBag({x})) = BagToSet(B) \cup {x}
BY DEF IsABag, BagToSet, SetToBag, (+)

\* One copy fewer in a bag.
LEMMA BagShrinks ==
    ASSUME NEW B, NEW x, IsABag(B)
    PROVE  IsABag(B (-) SetToBag({x})) /\ BagToSet(B (-) SetToBag({x})) \subseteq BagToSet(B)
BY DEF IsABag, BagToSet, SetToBag, (-)

\* Nothing is cached, answered or granted, and rows are kept.
LEMMA CacheStays ==
    ASSUME TypeOK, CacheInv, GrantInv, RowsKept, UNCHANGED <<entry, delayed, granted, told>>
    PROVE  CacheTyped' /\ AnswersTyped' /\ CacheInv' /\ GrantInv'
<1>1. CacheTyped' /\ AnswersTyped'
  BY DEF TypeOK, CacheTyped, AnswersTyped
<1>2. CacheInv'
  BY KeptFacts DEF CacheInv
<1>3. GrantInv'
  BY KeptFacts DEF GrantInv
<1> QED  BY <1>1, <1>2, <1>3

\* An answer tells what holds of the rows.
LEMMA Answered ==
    ASSUME TypeOK, CacheInv, GrantInv, UNCHANGED rows, NEW r \in Requests, NEW j \in JobIds,
           NEW s, Answer(r, j, s), Holds(rows, j, s),
           request[r].key \in Keys =>
               request[r].body \in Bodies /\ Stored(rows, j, request[r].key, request[r].body)
    PROVE  AnswersTyped' /\ GrantInv' /\ \A t \in told' : Holds(rows', t[1], t[2])
<1>1. granted' \subseteq Keys \X Bodies \X JobIds
  BY DEF Answer, TypeOK
<1>2. told' \subseteq JobIds \X Terminal
  BY DEF Answer, TypeOK
<1>3. \A g \in granted' : Stored(rows, g[3], g[1], g[2])
  <2>1. SUFFICES ASSUME request[r].key \in Keys, NEW g,
                        g = <<request[r].key, request[r].body, j>>
                 PROVE  Stored(rows, g[3], g[1], g[2])
    BY DEF Answer, GrantInv
  <2> QED  BY <2>1
<1>4. \A t \in told' : Holds(rows, t[1], t[2])
  <2>1. SUFFICES ASSUME NEW t, t = <<j, s>> PROVE Holds(rows, t[1], t[2])
    BY DEF Answer, CacheInv
  <2> QED  BY <2>1
<1> QED  BY <1>1, <1>2, <1>3, <1>4 DEF AnswersTyped, GrantInv

\* What the parts of the state keep, the whole keeps.
LEMMA Together ==
    ASSUME uploadAccepted' \in BOOLEAN, rows' \in Seq(Row), Len(rows') <= MaxJobs, RowsInv',
           RequestsOK', CacheTyped', AnswersTyped', CacheInv', GrantInv'
    PROVE  TypeOK' /\ ApiInv'
<1>1. ASSUME NEW j \in DOMAIN rows' PROVE (FindResult(j) # "InvalidStoredResult")'
  <2>1. rows'[j] \in Row
    BY ElementOfSeq, LenProperties
  <2>2. rows'[j].status \in Active \/ rows'[j].status = "cancelled" \/ rows'[j].status \in Published
    BY <2>1 DEF Row, Statuses, Terminal
  <2>3. rows'[j].result <=> rows'[j].status \in Published
    BY DEF RowsInv
  <2> QED  BY <2>2, <2>3, StatusKinds DEF FindResult
<1>2. TypeOK'
  BY <1>1 DEF TypeOK, RequestsOK, CacheTyped, AnswersTyped
<1>3. ApiInv'
  BY DEF ApiInv, ShapeInv, RequestsOK, Shaped
<1> QED  BY <1>2, <1>3

\* A state of the invariant, part by part.
LEMMA Parts ==
    ASSUME TypeOK, ApiInv
    PROVE  /\ uploadAccepted \in BOOLEAN /\ rows \in Seq(Row) /\ Len(rows) <= MaxJobs
           /\ Len(rows) \in Nat /\ DOMAIN rows = 1..Len(rows)
           /\ \A j \in DOMAIN rows : j \in JobIds /\ rows[j] \in Row
           /\ RequestsOK /\ RowsInv /\ CacheInv /\ GrantInv
<1>1. uploadAccepted \in BOOLEAN /\ rows \in Seq(Row) /\ Len(rows) <= MaxJobs
  BY DEF TypeOK
<1>2. Len(rows) \in Nat /\ DOMAIN rows = 1..Len(rows) /\ \A j \in 1..Len(rows) : rows[j] \in Row
  BY <1>1, LenProperties
<1>3. \A j \in 1..Len(rows) : j \in JobIds
  BY <1>1, <1>2, JobApiAssumption DEF JobIds
<1>4. RequestsOK
  BY RequestsTyped DEF RequestsOK, ApiInv
<1> QED  BY <1>1, <1>2, <1>3, <1>4 DEF ApiInv

\* Rows that do not change are kept.
LEMMA SameRows == UNCHANGED rows => RowsKept /\ SameKeys /\ (RowsInv => RowsInv')
BY DEF RowsKept, SameKeys, RowsInv

\* A step of a request alone.
LEMMA RequestOnly ==
    ASSUME TypeOK, ApiInv, UNCHANGED <<uploadAccepted, rows, entry, delayed, granted, told>>, RequestsOK'
    PROVE  TypeOK' /\ ApiInv'
<1>1. UNCHANGED rows /\ UNCHANGED uploadAccepted /\ UNCHANGED <<entry, delayed, granted, told>>
  OBVIOUS
<1> QED  BY <1>1, Parts, SameRows, CacheStays, Together

-----------------------------------------------------------------------------
(***************************************************************************)
(* One lemma per operation.                                                *)
(***************************************************************************)
\* The start.
LEMMA ApiInit == Init => TypeOK /\ ApiInv
<1> SUFFICES ASSUME Init PROVE TypeOK /\ ApiInv
  OBVIOUS
<1>1. rows = <<>> /\ rows \in Seq(Row) /\ Len(rows) = 0 /\ DOMAIN rows = {}
  BY EmptySeq DEF Init
<1>2. Shaped(Idle) /\ Idle.pc = "idle"
  BY JobApiAssumption DEF Shaped, Idle, RequestRecord, Pcs
<1>3. \A r \in Requests : request[r] = Idle
  BY DEF Init
<1>4. delayed = EmptyBag /\ IsABag(delayed) /\ BagToSet(delayed) = {}
  BY DEF Init, EmptyBag, SetToBag, IsABag, BagToSet
<1>5. TypeOK
  <2>1. request \in [Requests -> RequestRecord]
    BY <1>2 DEF Init, Shaped
  <2>2. \A j \in DOMAIN rows : FindResult(j) # "InvalidStoredResult"
    BY <1>1
  <2>3. entry \in [JobIds -> Statuses \cup {"none"}]
    BY DEF Init
  <2>4. Len(rows) <= MaxJobs
    BY <1>1, JobApiAssumption
  <2> QED  BY <1>1, <1>4, <2>1, <2>2, <2>3, <2>4 DEF Init, TypeOK
<1>6. RowsInv /\ ShapeInv
  BY <1>1, <1>2, <1>3 DEF RowsInv, ShapeInv, Shaped
<1>7. RequestsInv
  BY <1>2, <1>3 DEF RequestsInv, Carries, InsertInv
<1>8. CacheInv
  <2>1. \A j \in JobIds : entry[j] = "none"
    BY DEF Init
  <2> QED  BY <1>4, <2>1, StatusKinds DEF CacheInv, Init, Holds
<1>9. GrantInv
  BY DEF Init, GrantInv
<1> QED  BY <1>5, <1>6, <1>7, <1>8, <1>9 DEF ApiInv

\* A creation arrives.
LEMMA PostJobInv ==
    ASSUME TypeOK, ApiInv, NEW r \in Requests, NEW k \in Keys, NEW b \in Bodies, PostJob(r, k, b)
    PROVE  TypeOK' /\ ApiInv'
<1> DEFINE w == [Idle EXCEPT !.pc = "insert", !.key = k, !.body = b]
<1>1. w.pc = "insert" /\ w.key = k /\ w.body = b /\ Shaped(w)
  BY DEF Idle, Shaped, RequestRecord, Pcs
<1>2. request' = [request EXCEPT ![r] = w] /\ UNCHANGED rows
  BY DEF PostJob, Move
<1> HIDE DEF w
<1>3. Carries(w, rows')
  BY <1>1 DEF Carries
<1>4. RequestsOK'
  BY <1>1, <1>2, <1>3, Parts, SameRows, RequestMoves
<1> QED  BY <1>4, RequestOnly DEF PostJob

\* A status or a cancellation is asked for.
LEMMA AskInv ==
    ASSUME TypeOK, ApiInv, NEW r \in Requests, NEW j \in JobIds, GetJob(r, j) \/ PostCancel(r, j)
    PROVE  TypeOK' /\ ApiInv'
<1>1. PICK label \in {"read", "cancel"} : request' = [request EXCEPT ![r] = [Idle EXCEPT !.pc = label, !.job = j]]
  BY DEF GetJob, PostCancel, Move
<1> DEFINE w == [Idle EXCEPT !.pc = label, !.job = j]
<1>2. w.pc = label /\ w.key = NoBody /\ w.job = j /\ Shaped(w)
  BY DEF Idle, Shaped, RequestRecord, Pcs
<1>3. request' = [request EXCEPT ![r] = w]
  BY <1>1
<1> HIDE DEF w
<1>4. Carries(w, rows')
  BY <1>2 DEF Carries
<1>5. UNCHANGED <<uploadAccepted, rows, entry, delayed, granted, told>>
  BY DEF GetJob, PostCancel
<1>6. RequestsOK'
  BY <1>2, <1>3, <1>4, <1>5, Parts, SameRows, RequestMoves
<1> QED  BY <1>5, <1>6, RequestOnly

\* The insert finds its key, or takes it.
LEMMA InsertJobInv ==
    ASSUME TypeOK, ApiInv, NEW r \in Requests, InsertJob(r)
    PROVE  TypeOK' /\ ApiInv'
<1>1. PICK label \in {"commit", "lookup"} :
          /\ request' = [request EXCEPT ![r] = [request[r] EXCEPT !.pc = label]]
          /\ label = "commit" => JobOf(request[r].key) = {}
  BY DEF InsertJob, Goto, Move
<1> DEFINE R == request[r]
           w == [R EXCEPT !.pc = label]
<1>2. request' = [request EXCEPT ![r] = w]
  BY <1>1
<1>3. R \in RequestRecord /\ R.pc = "insert" /\ Shaped(R) /\ Carries(R, rows) /\ RequestsOK
  BY Parts DEF RequestsOK, RequestsInv, InsertJob
<1>4. w.pc = label /\ w.key = R.key /\ w.body = R.body /\ w.status = R.status /\ w \in RequestRecord
  <2> HIDE DEF R
  <2> QED  BY <1>3 DEF RequestRecord, Pcs
<1>5. UNCHANGED <<uploadAccepted, rows, entry, delayed, granted, told>> /\ Inserting(R.key) = {}
  BY DEF InsertJob
<1>6. label = "commit" => \A j \in DOMAIN rows : rows[j].key # R.key
  BY <1>1 DEF JobOf
<1>7. \A c \in Requests : request[c].pc = "commit" => request[c].key # R.key
  BY <1>5 DEF Inserting
<1> HIDE DEF w, R
<1>8. Shaped(w)
  BY <1>3, <1>4 DEF Shaped
<1>9. Carries(w, rows')
  BY <1>3, <1>4, <1>5 DEF Carries
<1>10. request'[r] = w /\ \A c \in Requests : c # r => request'[c] = request[c]
  BY <1>2, <1>3 DEF RequestsOK
<1>11. request' \in [Requests -> RequestRecord] /\ \A c \in Requests : Shaped(request'[c])
  BY <1>2, <1>3, <1>4, <1>8, <1>10 DEF RequestsOK
<1>12. \A c \in Requests : Carries(request'[c], rows')
  BY <1>3, <1>5, <1>9, <1>10 DEF RequestsOK, RequestsInv
<1>13. ASSUME NEW c \in Requests PROVE InsertInv(c)'
  <2>1. CASE c = r
    BY <1>4, <1>5, <1>6, <1>7, <1>10, <2>1 DEF InsertInv
  <2>2. CASE c # r
    <3>1. InsertInv(c)
      BY <1>3 DEF RequestsOK, RequestsInv
    <3> QED  BY <1>4, <1>5, <1>7, <1>10, <2>2, <3>1 DEF InsertInv
  <2> QED  BY <2>1, <2>2
<1>14. RequestsOK'
  BY <1>11, <1>12, <1>13 DEF RequestsOK, RequestsInv
<1> QED  BY <1>5, <1>14, RequestOnly

\* A row is committed, for a key that has none; the request is answered or gone.
LEMMA CommitJobInv ==
    ASSUME TypeOK, ApiInv, NEW r \in Requests, CommitJob(r)
    PROVE  TypeOK' /\ ApiInv'
<1> DEFINE R == request[r]
           w == NewRow(r)
           n == Len(rows) + 1
<1>1. R \in RequestRecord /\ R.pc = "commit" /\ R.key \in Keys /\ R.body \in Bodies /\ InsertInv(r)
  BY Parts DEF RequestsOK, RequestsInv, CommitJob, Carries
<1>2. w \in Row /\ w.key = R.key /\ w.body = R.body /\ w.status = "accepted" /\ w.result = FALSE
  BY <1>1, StatusKinds DEF NewRow, Row
<1>3. rows' = Append(rows, w) /\ Len(rows) < MaxJobs
  BY DEF CommitJob
<1> HIDE DEF w
<1>4. /\ rows' \in Seq(Row) /\ Len(rows') = n
      /\ DOMAIN rows = 1..Len(rows) /\ DOMAIN rows' = 1..n /\ Len(rows) \in Nat
      /\ rows'[n] = w
      /\ \A i \in DOMAIN rows : rows'[i] = rows[i]
  BY <1>2, <1>3, Parts, AppendRow
<1>5. DOMAIN rows' = DOMAIN rows \cup {n} /\ n \notin DOMAIN rows /\ Len(rows') <= MaxJobs /\ n \in JobIds
  BY <1>3, <1>4, JobApiAssumption DEF JobIds
<1> HIDE DEF n
<1>6. RowsKept
  BY <1>4, <1>5 DEF RowsKept
<1>7. \A j \in DOMAIN rows : rows[j].key # R.key
  BY <1>1 DEF InsertInv
<1>8. RowsInv'
  <2>1. \A i, j \in DOMAIN rows' : rows'[i].key = rows'[j].key => i = j
    <3>1. \A i, j \in DOMAIN rows : rows[i].key = rows[j].key => i = j
      BY Parts DEF RowsInv
    <3>2. \A i \in DOMAIN rows : rows'[i].key # rows'[n].key
      BY <1>2, <1>4, <1>7
    <3> QED  BY <1>4, <1>5, <3>1, <3>2
  <2>2. \A j \in DOMAIN rows' : rows'[j].result <=> rows'[j].status \in Published
    BY <1>2, <1>4, <1>5, Parts, StatusKinds DEF RowsInv
  <2> QED  BY <2>1, <2>2 DEF RowsInv
<1>9. RequestsOK'
  <2>1. PICK v : /\ request' = [request EXCEPT ![r] = v] /\ Shaped(v) /\ v.pc # "commit"
                 /\ Carries(v, rows')
    <3>1. CASE Hangup(r)
      <4>1. Shaped(Idle) /\ Idle.pc = "idle"
        BY JobApiAssumption DEF Shaped, Idle, RequestRecord, Pcs
      <4>2. Carries(Idle, rows')
        BY <4>1 DEF Carries
      <4> QED  BY <3>1, <4>1, <4>2 DEF Hangup, Move
    <3>2. CASE ToPut(r, Len(rows'), "accepted")
      <4> DEFINE v == [R EXCEPT !.pc = "put", !.job = n, !.status = "accepted"]
      <4>1. request' = [request EXCEPT ![r] = v]
        BY <1>4, <3>2 DEF ToPut, Move
      <4>2. v.pc = "put" /\ v.job = n /\ v.status = "accepted" /\ v.key = R.key /\ v.body = R.body
        <5> HIDE DEF R
        <5> QED  BY <1>1 DEF RequestRecord
      <4>3. v \in RequestRecord
        <5> HIDE DEF R
        <5> QED  BY <1>1, <1>5, StatusKinds DEF RequestRecord, Pcs
      <4> HIDE DEF v
      <4>4. Shaped(v)
        BY <4>2, <4>3 DEF Shaped
      <4>5. Holds(rows', v.job, v.status) /\ Stored(rows', v.job, v.key, v.body)
        BY <1>2, <1>4, <1>5, <4>2, StatusKinds DEF Holds, Stored
      <4>6. Carries(v, rows')
        BY <1>5, <4>2, <4>5 DEF Carries
      <4> QED  BY <4>1, <4>2, <4>4, <4>6
    <3> QED  BY <3>1, <3>2 DEF CommitJob
  <2>2. request'[r] = v /\ \A c \in Requests : c # r => request'[c] = request[c]
    BY <2>1, Parts DEF RequestsOK
  <2>3. request' \in [Requests -> RequestRecord] /\ \A c \in Requests : Shaped(request'[c])
    BY <2>1, <2>2, Parts DEF RequestsOK, Shaped
  <2>4. \A c \in Requests : Carries(request'[c], rows')
    BY <1>6, <2>1, <2>2, KeptFacts, Parts DEF RequestsOK, RequestsInv
  <2>5. ASSUME NEW c \in Requests, request'[c].pc = "commit"
        PROVE  /\ \A j \in DOMAIN rows' : rows'[j].key # request'[c].key
               /\ \A d \in Requests : d # c /\ request'[d].pc = "commit"
                                        => request'[d].key # request'[c].key
    <3>1. c # r /\ request'[c] = request[c] /\ InsertInv(c)
      BY <2>1, <2>2, <2>5, Parts DEF RequestsOK, RequestsInv
    <3>2. request[c].key # R.key
      BY <1>1, <2>5, <3>1 DEF InsertInv
    <3>3. \A j \in DOMAIN rows : rows[j].key # request[c].key
      BY <2>5, <3>1 DEF InsertInv
    <3>4. \A d \in Requests : request'[d].pc = "commit" => request'[d] = request[d]
      BY <2>1, <2>2
    <3> QED  BY <1>2, <1>4, <1>5, <2>5, <3>1, <3>2, <3>3, <3>4 DEF InsertInv
  <2>6. \A c \in Requests : InsertInv(c)'
    BY <2>5 DEF InsertInv
  <2> QED  BY <2>3, <2>4, <2>6 DEF RequestsOK, RequestsInv
<1>10. UNCHANGED uploadAccepted /\ UNCHANGED <<entry, delayed, granted, told>>
  BY DEF CommitJob
<1>11. CacheTyped' /\ AnswersTyped' /\ CacheInv' /\ GrantInv'
  BY <1>6, <1>10, Parts, CacheStays
<1> QED  BY <1>4, <1>5, <1>8, <1>9, <1>10, <1>11, Parts, Together

\* The second statement of a creation finds the job of the key and body.
LEMMA LookupJobInv ==
    ASSUME TypeOK, ApiInv, NEW r \in Requests, LookupJob(r)
    PROVE  TypeOK' /\ ApiInv'
<1>1. UNCHANGED <<uploadAccepted, rows, entry, delayed, granted, told>>
  BY DEF LookupJob
<1>2. CASE Hangup(r)
  <2>1. RequestsOK'
    BY <1>1, <1>2, Parts, SameRows, RequestEnds
  <2> QED  BY <1>1, <2>1, RequestOnly
<1>3. CASE ~ Hangup(r)
  <2>1. PICK j \in DOMAIN rows : /\ rows[j].key = request[r].key /\ rows[j].body = request[r].body
                                 /\ ToPut(r, j, rows[j].status)
    BY <1>3 DEF LookupJob, JobOf
  <2>2. rows[j] \in Row /\ j \in JobIds
    BY Parts
  <2>3. rows[j].status \in Statuses /\ j \in DOMAIN rows'
    BY <1>1, <2>2 DEF Row
  <2>4. Holds(rows', j, rows[j].status) /\ Stored(rows', j, request[r].key, request[r].body)
    BY <1>1, <2>1 DEF Holds, Stored
  <2>5. RequestsOK'
    BY <1>1, <2>1, <2>2, <2>3, <2>4, Parts, SameRows, RequestPuts
  <2> QED  BY <1>1, <2>5, RequestOnly
<1> QED  BY <1>2, <1>3

\* A store read on a cache miss.
LEMMA FindJobInv ==
    ASSUME TypeOK, ApiInv, NEW r \in Requests, FindJob(r)
    PROVE  TypeOK' /\ ApiInv'
<1> DEFINE j == request[r].job
<1>1. UNCHANGED <<uploadAccepted, rows, entry, delayed, granted, told>>
  BY DEF FindJob
<1>2. CASE Hangup(r)
  <2>1. RequestsOK'
    BY <1>1, <1>2, Parts, SameRows, RequestEnds
  <2> QED  BY <1>1, <2>1, RequestOnly
<1>3. CASE ~ Hangup(r)
  <2>1. j \in DOMAIN rows /\ ToPut(r, j, rows[j].status) /\ request[r].pc = "find"
    BY <1>3 DEF FindJob
  <2>2. Carries(request[r], rows)
    BY Parts DEF RequestsOK, RequestsInv
  <2>3. request[r].key \notin Keys
    BY <2>1, <2>2, JobApiAssumption DEF Carries
  <2>4. rows[j] \in Row /\ j \in JobIds
    BY <2>1, Parts
  <2>5. rows[j].status \in Statuses /\ j \in DOMAIN rows'
    BY <1>1, <2>1, <2>4 DEF Row
  <2>6. Holds(rows', j, rows[j].status)
    BY <1>1, <2>1 DEF Holds
  <2> HIDE DEF j
  <2>7. RequestsOK'
    BY <1>1, <2>1, <2>3, <2>4, <2>5, <2>6, Parts, SameRows, RequestPuts
  <2> QED  BY <1>1, <2>7, RequestOnly
<1> QED  BY <1>2, <1>3

\* A request is dropped.
LEMMA DropRequestInv ==
    ASSUME TypeOK, ApiInv, NEW r \in Requests, DropRequest(r)
    PROVE  TypeOK' /\ ApiInv'
<1>1. UNCHANGED <<uploadAccepted, rows, entry, delayed, granted, told>> /\ Hangup(r)
  BY DEF DropRequest
<1>2. RequestsOK'
  BY <1>1, Parts, SameRows, RequestEnds
<1> QED  BY <1>1, <1>2, RequestOnly

\* A status change of one active row, with whatever the request does after it.
LEMMA RowChanges ==
    ASSUME TypeOK, ApiInv, NEW j \in DOMAIN rows, rows[j].status \in Active,
           NEW w \in Row, rows' = [rows EXCEPT ![j] = w],
           w.key = rows[j].key, w.body = rows[j].body, w.result <=> w.status \in Published,
           UNCHANGED uploadAccepted, UNCHANGED <<entry, delayed, granted, told>>,
           RequestsOK'
    PROVE  TypeOK' /\ ApiInv'
<1>1. rows' \in Seq(Row) /\ Len(rows') = Len(rows) /\ RowsKept /\ RowsInv'
  BY Parts, StatusStep
<1>2. CacheTyped' /\ AnswersTyped' /\ CacheInv' /\ GrantInv'
  BY <1>1, Parts, CacheStays
<1> QED  BY <1>1, <1>2, Parts, Together

\* A cancellation of an active job, a repeated one, or a refused one.
LEMMA CancelJobInv ==
    ASSUME TypeOK, ApiInv, NEW r \in Requests, CancelJob(r)
    PROVE  TypeOK' /\ ApiInv'
<1> DEFINE j == request[r].job
           w == [rows[j] EXCEPT !.status = "cancelled"]
<1>1. Carries(request[r], rows) /\ request[r].pc = "cancel"
  BY Parts DEF RequestsOK, RequestsInv, CancelJob
<1>2. j \in JobIds /\ request[r].key \notin Keys
  BY <1>1, JobApiAssumption DEF Carries
<1>3. UNCHANGED uploadAccepted /\ UNCHANGED <<entry, delayed, granted, told>>
  BY DEF CancelJob
<1>4. CASE JobIn(j, Active) /\ rows' = [rows EXCEPT ![j].status = "cancelled"]
           /\ (ToPut(r, j, "cancelled") \/ Hangup(r))
  <2>1. j \in DOMAIN rows /\ rows[j].status \in Active
    BY <1>4 DEF JobIn
  <2>2. rows[j] \in Row
    BY <2>1, Parts
  <2>3. rows' = [rows EXCEPT ![j] = w]
    BY <1>4
  <2>4. w \in Row /\ w.key = rows[j].key /\ w.body = rows[j].body /\ w.status = "cancelled"
        /\ w.result = rows[j].result
    BY <2>2, StatusKinds DEF Row
  <2>5. w.result <=> w.status \in Published
    <3>1. rows[j].result <=> rows[j].status \in Published
      BY <2>1, Parts DEF RowsInv
    <3> QED  BY <2>1, <2>4, <3>1, StatusKinds
  <2> HIDE DEF w, j
  <2>6. RowsKept /\ DOMAIN rows' = DOMAIN rows /\ rows'[j] = w /\ SameKeys
    BY <2>1, <2>3, <2>4, <2>5, Parts, StatusStep DEF SameKeys
  <2>7. Holds(rows', j, "cancelled")
    BY <2>1, <2>4, <2>6 DEF Holds
  <2>8. RequestsOK'
    BY <1>2, <1>4, <2>1, <2>6, <2>7, Parts, RequestPuts, RequestEnds, StatusKinds
  <2> QED  BY <1>3, <2>1, <2>3, <2>4, <2>5, <2>8, RowChanges
<1>5. CASE JobIn(j, {"cancelled"}) /\ ToPut(r, j, "cancelled") /\ UNCHANGED rows
  <2>1. Holds(rows', j, "cancelled") /\ j \in DOMAIN rows'
    BY <1>5 DEF Holds, JobIn
  <2> HIDE DEF j
  <2>2. RequestsOK'
    BY <1>2, <1>5, <2>1, Parts, SameRows, RequestPuts, StatusKinds
  <2> QED  BY <1>3, <1>5, <2>2, RequestOnly
<1>6. CASE Hangup(r) /\ UNCHANGED rows
  <2>1. RequestsOK'
    BY <1>6, Parts, SameRows, RequestEnds
  <2> QED  BY <1>3, <1>6, <2>1, RequestOnly
<1> QED  BY <1>4, <1>5, <1>6 DEF CancelJob

\* The workers start a job.
LEMMA StartJobInv ==
    ASSUME TypeOK, ApiInv, NEW j \in JobIds, StartJob(j)
    PROVE  TypeOK' /\ ApiInv'
<1> DEFINE w == [rows[j] EXCEPT !.status = "processing"]
<1>1. j \in DOMAIN rows /\ rows[j].status = "accepted" /\ rows' = [rows EXCEPT ![j] = w]
  BY DEF StartJob, JobIn
<1>2. rows[j] \in Row
  BY <1>1, Parts
<1>3. w \in Row /\ w.key = rows[j].key /\ w.body = rows[j].body /\ w.status = "processing"
      /\ w.result = rows[j].result
  BY <1>2, StatusKinds DEF Row
<1>4. rows[j].result <=> rows[j].status \in Published
  BY <1>1, Parts DEF RowsInv
<1> HIDE DEF w
<1>5. w.result <=> w.status \in Published
  BY <1>1, <1>3, <1>4, StatusKinds
<1>6. RowsKept /\ SameKeys
  BY <1>1, <1>3, <1>5, Parts, StatusKinds, StatusStep DEF SameKeys
<1>7. UNCHANGED <<uploadAccepted, entry, delayed, request, granted, told>>
  BY DEF StartJob
<1>8. RequestsOK'
  BY <1>6, <1>7, Parts, RequestsStay
<1> QED  BY <1>1, <1>3, <1>5, <1>7, <1>8, StatusKinds, RowChanges

\* The workers publish a result with its status.
LEMMA PublishJobInv ==
    ASSUME TypeOK, ApiInv, NEW j \in JobIds, NEW s \in Published, PublishJob(j, s)
    PROVE  TypeOK' /\ ApiInv'
<1> DEFINE w == [rows[j] EXCEPT !.status = s, !.result = TRUE]
<1>1. j \in DOMAIN rows /\ rows[j].status = "processing" /\ rows \in Seq(Row) /\ rows[j] \in Row
  BY Parts DEF PublishJob, JobIn
<1>2. rows' = [rows EXCEPT ![j] = w]
  BY <1>1 DEF PublishJob
<1>3. w \in Row /\ w.key = rows[j].key /\ w.body = rows[j].body /\ w.status = s /\ w.result = TRUE
  BY <1>1, StatusKinds DEF Row
<1> HIDE DEF w
<1>4. w.result <=> w.status \in Published
  BY <1>3
<1>5. RowsKept /\ SameKeys
  BY <1>1, <1>2, <1>3, <1>4, Parts, StatusKinds, StatusStep DEF SameKeys
<1>6. UNCHANGED <<uploadAccepted, entry, delayed, request, granted, told>>
  BY DEF PublishJob
<1>7. RequestsOK'
  BY <1>5, <1>6, Parts, RequestsStay
<1> QED  BY <1>1, <1>2, <1>3, <1>4, <1>6, <1>7, StatusKinds, RowChanges

\* A cache hit is answered; an error or a miss goes to the store.
LEMMA ReadCacheInv ==
    ASSUME TypeOK, ApiInv, NEW r \in Requests, ReadCache(r)
    PROVE  TypeOK' /\ ApiInv'
<1> DEFINE R == request[r]
           j == request[r].job
<1>1. R \in RequestRecord /\ R.pc = "read" /\ Shaped(R) /\ Carries(R, rows)
  BY Parts DEF RequestsOK, RequestsInv, ReadCache
<1>2. j \in JobIds /\ R.key = NoBody /\ R.key \notin Keys
  BY <1>1, JobApiAssumption DEF Carries
<1>3. UNCHANGED uploadAccepted /\ UNCHANGED rows /\ UNCHANGED <<entry, delayed>>
  BY DEF ReadCache
<1>4. CASE Answer(r, j, entry[j]) /\ Hangup(r)
  <2>1. RequestsOK'
    BY <1>3, <1>4, Parts, SameRows, RequestEnds
  <2>2. Holds(rows, j, entry[j])
    BY <1>2, Parts DEF CacheInv
  <2>3. AnswersTyped' /\ GrantInv' /\ \A t \in told' : Holds(rows', t[1], t[2])
    <3> HIDE DEF j
    <3> QED  BY <1>2, <1>3, <1>4, <2>2, Parts, Answered DEF R
  <2>4. CacheTyped'
    BY <1>3 DEF TypeOK, CacheTyped
  <2>5. CacheInv'
    BY <1>3, <2>3, Parts DEF CacheInv
  <2>6. rows' \in Seq(Row) /\ Len(rows') <= MaxJobs /\ RowsInv' /\ uploadAccepted' \in BOOLEAN
    BY <1>3, Parts, SameRows
  <2> QED  BY <2>1, <2>3, <2>4, <2>5, <2>6, Together
<1>5. CASE Goto(r, "find") /\ UNCHANGED <<granted, told>>
  <2> DEFINE w == [R EXCEPT !.pc = "find"]
  <2>1. w.pc = "find" /\ w.key = R.key /\ w.job = j /\ w.status = R.status /\ w \in RequestRecord
    <3>1. R.job = j
      OBVIOUS
    <3> HIDE DEF R, j
    <3> QED  BY <1>1, <3>1 DEF RequestRecord, Pcs
  <2>2. request' = [request EXCEPT ![r] = w]
    BY <1>5 DEF Goto, Move
  <2> HIDE DEF w, R, j
  <2>3. Shaped(w) /\ Carries(w, rows')
    BY <1>1, <1>2, <2>1 DEF Shaped, Carries
  <2>4. RequestsOK'
    BY <1>3, <2>1, <2>2, <2>3, Parts, SameRows, RequestMoves
  <2> QED  BY <1>3, <1>5, <2>4, RequestOnly
<1> QED  BY <1>4, <1>5 DEF ReadCache

\* What a put holds when it is sent.
LEMMA PutHolds ==
    ASSUME TypeOK, ApiInv, NEW r \in Requests, request[r].pc = "put"
    PROVE  /\ request[r].job \in JobIds /\ request[r].status \in Statuses
           /\ Holds(rows, request[r].job, request[r].status)
           /\ request[r].key \in Keys =>
                 /\ request[r].body \in Bodies
                 /\ Stored(rows, request[r].job, request[r].key, request[r].body)
<1>1. request[r] \in RequestRecord /\ Shaped(request[r]) /\ Carries(request[r], rows)
  BY Parts DEF RequestsOK, RequestsInv
<1>2. request[r].status \in Statuses
  BY <1>1 DEF Shaped, RequestRecord
<1>3. request[r].job \in DOMAIN rows /\ Holds(rows, request[r].job, request[r].status)
      /\ (request[r].key \in Keys => Stored(rows, request[r].job, request[r].key, request[r].body))
  BY <1>1 DEF Carries
<1>4. request[r].job \in JobIds /\ rows[request[r].job] \in Row
  BY <1>3, Parts
<1>5. request[r].key \in Keys => request[r].body \in Bodies
  BY <1>3, <1>4 DEF Stored, Row
<1> QED  BY <1>2, <1>3, <1>4, <1>5

\* A put lands or fails, and the request is answered.
LEMMA PutStatusInv ==
    ASSUME TypeOK, ApiInv, NEW r \in Requests, PutStatus(r)
    PROVE  TypeOK' /\ ApiInv'
<1> DEFINE j == request[r].job
           s == request[r].status
<1>1. j \in JobIds /\ s \in Statuses /\ Holds(rows, j, s)
      /\ (request[r].key \in Keys => request[r].body \in Bodies
                                     /\ Stored(rows, j, request[r].key, request[r].body))
  BY PutHolds DEF PutStatus
<1>2. /\ UNCHANGED uploadAccepted /\ UNCHANGED rows /\ UNCHANGED delayed
      /\ Answer(r, j, s) /\ Hangup(r)
      /\ entry' = entry \/ entry' = [entry EXCEPT ![j] = s]
  BY DEF PutStatus
<1> HIDE DEF j, s
<1>3. RequestsOK'
  BY <1>2, Parts, SameRows, RequestEnds
<1>4. AnswersTyped' /\ GrantInv' /\ \A t \in told' : Holds(rows', t[1], t[2])
  BY <1>1, <1>2, Parts, Answered
<1>5. CacheTyped'
  BY <1>1, <1>2 DEF TypeOK, CacheTyped
<1>6. \A i \in JobIds : entry'[i] = entry[i] \/ (i = j /\ entry'[i] = s)
  BY <1>1, <1>2 DEF TypeOK
<1>7. CacheInv'
  BY <1>1, <1>2, <1>4, <1>6, Parts DEF CacheInv
<1>8. rows' \in Seq(Row) /\ Len(rows') <= MaxJobs /\ RowsInv' /\ uploadAccepted' \in BOOLEAN
  BY <1>2, Parts, SameRows
<1> QED  BY <1>3, <1>4, <1>5, <1>7, <1>8, Together

\* A put is given up, and may still be carried out.
LEMMA PutTimesOutInv ==
    ASSUME TypeOK, ApiInv, NEW r \in Requests, PutTimesOut(r)
    PROVE  TypeOK' /\ ApiInv'
<1> DEFINE j == request[r].job
           s == request[r].status
<1>1. j \in JobIds /\ s \in Statuses /\ Holds(rows, j, s)
      /\ (request[r].key \in Keys => request[r].body \in Bodies
                                     /\ Stored(rows, j, request[r].key, request[r].body))
  BY PutHolds DEF PutTimesOut
<1>2. /\ UNCHANGED uploadAccepted /\ UNCHANGED rows /\ UNCHANGED entry /\ Hangup(r)
      /\ Answer(r, j, s) \/ UNCHANGED <<granted, told>>
      /\ delayed' = delayed (+) SetToBag({<<j, s>>})
  BY DEF PutTimesOut
<1> HIDE DEF j, s
<1>3. RequestsOK'
  BY <1>2, Parts, SameRows, RequestEnds
<1>4. AnswersTyped' /\ GrantInv' /\ \A t \in told' : Holds(rows', t[1], t[2])
  <2>1. CASE Answer(r, j, s)
    BY <1>1, <1>2, <2>1, Parts, Answered
  <2>2. CASE UNCHANGED <<granted, told>>
    BY <1>2, <2>2, Parts DEF TypeOK, AnswersTyped, CacheInv, GrantInv
  <2> QED  BY <1>2, <2>1, <2>2
<1>5. IsABag(delayed') /\ BagToSet(delayed') = BagToSet(delayed) \cup {<<j, s>>}
  BY <1>2, BagGrows DEF TypeOK
<1>6. CacheTyped'
  <2>1. entry' \in [JobIds -> Statuses \cup {"none"}] /\ BagToSet(delayed) \subseteq JobIds \X Statuses
    BY <1>2 DEF TypeOK
  <2>2. <<j, s>> \in JobIds \X Statuses
    BY <1>1
  <2>3. BagToSet(delayed') \subseteq JobIds \X Statuses
    BY <1>5, <2>1, <2>2
  <2> QED  BY <1>5, <2>1, <2>3 DEF CacheTyped
<1>7. CacheInv'
  <2>1. \A m \in BagToSet(delayed') : Holds(rows, m[1], m[2])
    BY <1>1, <1>5, Parts DEF CacheInv
  <2> QED  BY <1>2, <1>4, <2>1, Parts DEF CacheInv
<1>8. rows' \in Seq(Row) /\ Len(rows') <= MaxJobs /\ RowsInv' /\ uploadAccepted' \in BOOLEAN
  BY <1>2, Parts, SameRows
<1> QED  BY <1>3, <1>4, <1>6, <1>7, <1>8, Together

\* Valkey carries out a write, or an entry expires.
LEMMA ValkeyInv ==
    ASSUME TypeOK, ApiInv, Valkey
    PROVE  TypeOK' /\ ApiInv'
<1>1. PICK j \in JobIds, s \in Statuses \cup {"none"} :
          /\ entry' = [entry EXCEPT ![j] = s]
          /\ \/ s = "none" /\ UNCHANGED delayed
             \/ <<j, s>> \in BagToSet(delayed) /\ delayed' = delayed (-) SetToBag({<<j, s>>})
  BY DEF Valkey, EntryExpires, DelayedPutLands, BagIn
<1>2. UNCHANGED uploadAccepted /\ UNCHANGED rows /\ UNCHANGED request /\ UNCHANGED <<granted, told>>
  BY DEF Valkey, EntryExpires, DelayedPutLands
<1>3. IsABag(delayed') /\ BagToSet(delayed') \subseteq BagToSet(delayed)
  BY <1>1, BagShrinks DEF TypeOK
<1>4. Holds(rows, j, s)
  <2>1. CASE s = "none"
    BY <2>1, StatusKinds DEF Holds
  <2>2. CASE <<j, s>> \in BagToSet(delayed)
    BY <2>2, Parts DEF CacheInv
  <2> QED  BY <1>1, <2>1, <2>2
<1>5. \A i \in JobIds : entry'[i] = entry[i] \/ (i = j /\ entry'[i] = s)
  BY <1>1 DEF TypeOK
<1>6. CacheTyped' /\ AnswersTyped'
  BY <1>1, <1>2, <1>3 DEF TypeOK, CacheTyped, AnswersTyped
<1>7. CacheInv'
  BY <1>2, <1>3, <1>4, <1>5, Parts DEF CacheInv
<1>8. rows' \in Seq(Row) /\ Len(rows') <= MaxJobs /\ RowsInv' /\ uploadAccepted' \in BOOLEAN
      /\ GrantInv'
  BY <1>2, Parts, SameRows DEF GrantInv
<1>9. RequestsOK'
  BY <1>2, Parts, SameRows, RequestsStay
<1> QED  BY <1>6, <1>7, <1>8, <1>9, Together

\* The upload is accepted, or nothing happens.
LEMMA ElsewhereInv ==
    ASSUME TypeOK, ApiInv, AcceptUpload \/ UNCHANGED vars
    PROVE  TypeOK' /\ ApiInv'
<1>1. /\ UNCHANGED rows /\ UNCHANGED request /\ UNCHANGED <<entry, delayed, granted, told>>
      /\ uploadAccepted' \in BOOLEAN
  BY Parts DEF AcceptUpload, vars
<1>2. RequestsOK'
  BY <1>1, Parts, SameRows, RequestsStay
<1> QED  BY <1>1, <1>2, Parts, SameRows, CacheStays, Together

\* The invariant is inductive.
LEMMA ApiNext ==
    TypeOK /\ ApiInv /\ [Next]_vars => TypeOK' /\ ApiInv'
<1> SUFFICES ASSUME TypeOK, ApiInv, [Next]_vars PROVE TypeOK' /\ ApiInv'
  OBVIOUS
<1>1. ASSUME NEW r \in Requests, Serve(r) PROVE TypeOK' /\ ApiInv'
  BY <1>1, InsertJobInv, CommitJobInv, LookupJobInv, ReadCacheInv, FindJobInv, CancelJobInv,
     PutStatusInv, PutTimesOutInv, DropRequestInv DEF Serve
<1>2. CASE \E r \in Requests, k \in Keys, b \in Bodies : PostJob(r, k, b)
  BY <1>2, PostJobInv
<1>3. CASE \E r \in Requests, j \in JobIds : GetJob(r, j) \/ PostCancel(r, j)
  BY <1>3, AskInv
<1>4. CASE Valkey
  BY <1>4, ValkeyInv
<1>5. CASE AcceptUpload \/ UNCHANGED vars
  BY <1>5, ElsewhereInv
<1>6. CASE \E j \in JobIds : StartJob(j)
  BY <1>6, StartJobInv
<1>7. CASE \E j \in JobIds, status \in Published : PublishJob(j, status)
  BY <1>7, PublishJobInv
<1> QED  BY <1>1, <1>2, <1>3, <1>4, <1>5, <1>6, <1>7 DEF Next

-----------------------------------------------------------------------------
\* The invariant of the job endpoints: one row per key, one insert of a key at a
\* time, and what a request carries over its awaits still so in the store.
THEOREM Serving == Spec => [](TypeOK /\ ApiInv)
<1>1. TypeOK /\ ApiInv /\ [Next]_vars => (TypeOK /\ ApiInv)'
  BY ApiNext
<1> QED  BY <1>1, ApiInit, PTL DEF Spec

\* However creations, reads and cancellations interleave, every variable keeps its
\* type, and only a request on its way to the cache carries a status.
THEOREM TypeCorrect == Spec => []TypeOK
BY Serving, PTL

\* However many creations of a key race, are dropped or are replayed, those that
\* were answered 202 name one stored job and one body.
THEOREM Replays == Spec => []ReplaysAgree
<1>1. ASSUME TypeOK, ApiInv PROVE ReplaysAgree
  <2>1. \A g \in granted : /\ g[3] \in DOMAIN rows
                           /\ rows[g[3]].key = g[1] /\ rows[g[3]].body = g[2]
    BY <1>1 DEF ApiInv, GrantInv, Stored
  <2>2. ASSUME NEW g \in granted, NEW h \in granted, g[1] = h[1] PROVE g = h
    <3>1. g \in Keys \X Bodies \X JobIds /\ h \in Keys \X Bodies \X JobIds
      BY <1>1 DEF TypeOK
    <3>2. g[3] = h[3]
      BY <1>1, <2>1, <2>2 DEF ApiInv, RowsInv
    <3>3. g[2] = h[2]
      BY <2>1, <3>2
    <3> QED  BY <2>2, <3>1, <3>2, <3>3
  <2> QED  BY <2>1, <2>2 DEF ReplaysAgree
<1> QED  BY <1>1, Serving, PTL

\* A terminal status that is cached, on its way to the cache or told to a client
\* is the job's own, and a published one has its result, whatever was delayed.
THEOREM TrueStatus == Spec => []TerminalStatusIsTrue
<1>1. ASSUME TypeOK, ApiInv PROVE TerminalStatusIsTrue
  <2>1. SUFFICES ASSUME NEW j \in JobIds, NEW s \in Terminal,
                        entry[j] = s \/ BagIn(<<j, s>>, delayed) \/ <<j, s>> \in told
                 PROVE  JobIn(j, {s}) /\ FindResult(j) = IF s \in Published THEN "Ready" ELSE "Unavailable"
    BY DEF TerminalStatusIsTrue
  <2>2. Holds(rows, j, s)
    <3>1. CASE entry[j] = s
      BY <1>1, <3>1 DEF ApiInv, CacheInv
    <3>2. CASE <<j, s>> \in BagToSet(delayed)
      BY <1>1, <3>2 DEF ApiInv, CacheInv
    <3>3. CASE <<j, s>> \in told
      BY <1>1, <3>3 DEF ApiInv, CacheInv
    <3> QED  BY <2>1, <3>1, <3>2, <3>3 DEF BagIn
  <2>3. j \in DOMAIN rows /\ rows[j].status = s
    BY <2>2 DEF Holds
  <2>4. rows[j].result <=> s \in Published
    BY <1>1, <2>3 DEF ApiInv, RowsInv
  <2>5. s \in Published \/ s = "cancelled"
    BY DEF Terminal
  <2>6. CASE s \in Published
    BY <2>3, <2>4, <2>6, StatusKinds DEF FindResult, JobIn
  <2>7. CASE s = "cancelled"
    BY <2>3, <2>4, <2>7, StatusKinds DEF FindResult, JobIn
  <2> QED  BY <2>5, <2>6, <2>7
<1> QED  BY <1>1, Serving, PTL
=============================================================================
