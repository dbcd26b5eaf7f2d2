-------------------------- MODULE DeploymentProofs --------------------------
(***************************************************************************)
(* Theorems about the matches and the models on the server's disk, for any *)
(* runs of seeker_model_init on any versions, interleaved in any way with  *)
(* each other, with the server's restarts and with the matches it serves.  *)
(***************************************************************************)
EXTENDS Deployment, FiniteSetTheorems, SequenceTheorems, TLAPS

-----------------------------------------------------------------------------
(* The document store, for any matches, any capacity of its cache and any   *)
(* number of saves, crashes and write errors.                               *)

\* What the variables hold.
Documents == [kind : {"document"}, version : Nat, content : Nat]
CacheEntry == Names \X Documents

StoreTypes ==
  /\ file \in [Names -> Documents \cup {Absent, Torn}]
  /\ cache \in Seq(CacheEntry)
  /\ pc \in {"idle", "loaded", "open", "write", "saved"} /\ name \in Names
  /\ held \in Documents \cup {Absent}
  /\ confirmed \in [Names -> Nat]
  /\ saves \in Nat

\* The list has one node per match, the one the map points to.
Distinct(c) == \A i, j \in DOMAIN c : c[i][1] = c[j][1] => i = j
OneNodeEach == Distinct(cache)

\* A document that stands for a match is no older than its last acknowledged save,
\* and is what the match's file holds, unless that is torn or has just been written.
Stands(n, d) ==
  /\ confirmed[n] <= d.content
  /\ IsReadable(n) => d = file[n] \/ (pc = "saved" /\ n = name)

CacheTrue == \A i \in DOMAIN cache : Stands(cache[i][1], cache[i][2])

\* Contents are numbered by their saves: a file that can be read is as young as
\* the last acknowledged save, and what is being saved is younger than all.
FilesYoung ==
  /\ \A n \in Names : confirmed[n] <= saves
  /\ \A n \in Names : IsReadable(n) => confirmed[n] <= file[n].content

\* What the handler holds, and what it has made of its file.
HeldTrue ==
  /\ pc = "loaded" => held \in Documents /\ Stands(name, held)
  /\ pc \in {"open", "write", "saved"} => held \in Documents /\ held.content = saves
  /\ pc = "write" => ~ IsReadable(name)
  /\ pc = "saved" => ~ IsReadable(name) \/ file[name] = held

StoreInv == StoreTypes /\ OneNodeEach /\ CacheTrue /\ FilesYoung /\ HeldTrue

-----------------------------------------------------------------------------
(* Sequences and the cache.                                                *)

\* A sequence without one of its elements.
LEMMA RemoveAtFacts ==
  ASSUME NEW S, NEW s \in Seq(S), NEW k \in DOMAIN s
  PROVE  /\ RemoveAt(s, k) \in Seq(S)
         /\ DOMAIN RemoveAt(s, k) = 1 .. Len(s) - 1
         /\ \A i \in 1 .. Len(s) - 1 : RemoveAt(s, k)[i] = s[IF i < k THEN i ELSE i + 1]
<1>1. Len(s) \in Nat /\ DOMAIN s = 1 .. Len(s) /\ k \in 1 .. Len(s)
  BY LenProperties
<1>2. \A i \in 1 .. Len(s) : s[i] \in S
  BY ElementOfSeq
<1> DEFINE a == SubSeq(s, 1, k - 1)
           b == SubSeq(s, k + 1, Len(s))
<1>3. a \in Seq(S) /\ Len(a) = k - 1 /\ \A i \in 1 .. k - 1 : a[i] = s[i]
  <2>1. \A i \in 1 .. k - 1 : s[i] \in S
    BY <1>1, <1>2
  <2>2. a \in Seq(S) /\ Len(a) = (IF 1 <= k - 1 THEN k - 1 - 1 + 1 ELSE 0)
        /\ \A i \in 1 .. k - 1 - 1 + 1 : a[i] = s[1 + i - 1]
    BY <1>1, <2>1, SubSeqProperties
  <2>3. QED
    BY <1>1, <2>2
<1>4. b \in Seq(S) /\ Len(b) = Len(s) - k /\ \A i \in 1 .. Len(s) - k : b[i] = s[k + i]
  <2>1. \A i \in k + 1 .. Len(s) : s[i] \in S
    BY <1>1, <1>2
  <2>2. b \in Seq(S) /\ Len(b) = (IF k + 1 <= Len(s) THEN Len(s) - (k + 1) + 1 ELSE 0)
        /\ \A i \in 1 .. Len(s) - (k + 1) + 1 : b[i] = s[k + 1 + i - 1]
    BY <1>1, <2>1, SubSeqProperties
  <2>3. QED
    BY <1>1, <2>2
<1> HIDE DEF a, b
<1>5. /\ a \o b \in Seq(S) /\ Len(a \o b) = Len(a) + Len(b)
      /\ \A i \in 1 .. Len(a) + Len(b) : (a \o b)[i] = IF i <= Len(a) THEN a[i] ELSE b[i - Len(a)]
  BY <1>3, <1>4, ConcatProperties
<1> DEFINE t == a \o b
<1>6. RemoveAt(s, k) = t
  BY DEF RemoveAt, a, b
<1>7. t \in Seq(S) /\ Len(t) = Len(s) - 1
  BY <1>1, <1>3, <1>4, <1>5
<1>8. ASSUME NEW i \in 1 .. Len(s) - 1
      PROVE  t[i] = s[IF i < k THEN i ELSE i + 1]
  <2>1. i \in Int /\ 1 <= i /\ i <= Len(s) - 1 /\ i \in 1 .. Len(a) + Len(b)
    BY <1>1, <1>3, <1>4
  <2>2. t[i] = IF i <= Len(a) THEN a[i] ELSE b[i - Len(a)]
    BY <2>1, <1>5
  <2>3. CASE i < k
    <3>1. i <= Len(a) /\ i \in 1 .. k - 1
      BY <2>1, <2>3, <1>1, <1>3
    <3>2. QED
      BY <2>2, <2>3, <3>1, <1>3
  <2>4. CASE ~ (i < k)
    <3> DEFINE j == i - Len(a)
    <3>1. ~ (i <= Len(a)) /\ j \in 1 .. Len(s) - k /\ k + j = i + 1
      BY <2>1, <2>4, <1>1, <1>3
    <3> HIDE DEF j
    <3>2. b[j] = s[k + j]
      BY <3>1, <1>4
    <3>3. QED
      BY <2>2, <2>4, <3>1, <3>2 DEF j
  <2>5. QED
    BY <2>3, <2>4
<1>9. DOMAIN t = 1 .. Len(t)
  BY <1>7, LenProperties
<1> HIDE DEF t
<1>10. DOMAIN t = 1 .. Len(s) - 1
  BY <1>7, <1>9
<1>11. QED
  BY <1>6, <1>7, <1>8, <1>10

\* Dropping a match leaves the other nodes, and only them.
LEMMA WithoutFacts ==
  ASSUME StoreTypes, OneNodeEach, NEW n
  PROVE  /\ Without(n) \in Seq(CacheEntry)
         /\ Distinct(Without(n))
         /\ \A i \in DOMAIN Without(n) :
              Without(n)[i][1] # n /\ \E j \in DOMAIN cache : Without(n)[i] = cache[j]
<1>1. cache \in Seq(CacheEntry) /\ Distinct(cache)
  BY DEF StoreTypes, OneNodeEach
<1>2. CASE Nodes(n) = {}
  <2>1. Without(n) = cache
    BY <1>2 DEF Without
  <2>2. \A i \in DOMAIN cache : cache[i][1] # n
    BY <1>2 DEF Nodes
  <2>3. QED
    BY <1>1, <2>1, <2>2
<1>3. CASE Nodes(n) # {}
  <2> DEFINE k == CHOOSE i \in Nodes(n) : TRUE
             w == RemoveAt(cache, k)
             at == [i \in 1 .. Len(cache) - 1 |-> IF i < k THEN i ELSE i + 1]
  <2>1. k \in DOMAIN cache /\ cache[k][1] = n /\ Without(n) = w
    BY <1>3 DEF Nodes, Without
  <2> HIDE DEF k
  <2>2. /\ w \in Seq(CacheEntry) /\ DOMAIN w = 1 .. Len(cache) - 1
        /\ \A i \in 1 .. Len(cache) - 1 : w[i] = cache[IF i < k THEN i ELSE i + 1]
    BY <1>1, <2>1, RemoveAtFacts
  <2>3. Len(cache) \in Nat /\ DOMAIN cache = 1 .. Len(cache)
    BY <1>1, LenProperties
  <2>4. /\ \A i \in DOMAIN w : at[i] \in DOMAIN cache /\ at[i] # k /\ w[i] = cache[at[i]]
        /\ \A i, j \in DOMAIN w : at[i] = at[j] => i = j
    BY <2>1, <2>2, <2>3
  <2> HIDE DEF w, at
  <2>5. Distinct(w)
    BY <1>1, <2>4 DEF Distinct
  <2>6. \A i \in DOMAIN w : w[i][1] # n
    BY <1>1, <2>1, <2>4 DEF Distinct
  <2>7. QED
    BY <2>1, <2>2, <2>4, <2>5, <2>6
<1>4. QED
  BY <1>2, <1>3

\* Caching a document adds its node, in place of the match's old one, and may
\* evict another.
LEMMA CacheFacts ==
  ASSUME StoreTypes, OneNodeEach, NEW n \in Names, NEW d \in Documents
  PROVE  /\ Cache(n, d) \in Seq(CacheEntry)
         /\ Distinct(Cache(n, d))
         /\ \A i \in DOMAIN Cache(n, d) :
              Cache(n, d)[i] = <<n, d>> \/ \E j \in DOMAIN cache : Cache(n, d)[i] = cache[j]
<1> DEFINE w == Without(n)
           new == <<<<n, d>>>>
           all == new \o w
<1>1. /\ w \in Seq(CacheEntry) /\ Distinct(w)
      /\ \A i \in DOMAIN w : w[i][1] # n /\ \E j \in DOMAIN cache : w[i] = cache[j]
  BY WithoutFacts
<1>2. new \in Seq(CacheEntry) /\ Len(new) = 1 /\ new[1] = <<n, d>>
  BY DEF CacheEntry
<1>3. Cache(n, d) = IF Len(all) > CacheCap THEN Front(all) ELSE all
  BY DEF Cache
<1>4. Len(w) \in Nat /\ DOMAIN w = 1 .. Len(w)
  BY <1>1, LenProperties
<1> HIDE DEF w, new
<1>5. /\ all \in Seq(CacheEntry) /\ Len(all) = 1 + Len(w)
      /\ \A i \in 1 .. 1 + Len(w) : all[i] = IF i <= 1 THEN new[i] ELSE w[i - 1]
  <2>1. /\ all \in Seq(CacheEntry) /\ Len(all) = Len(new) + Len(w)
        /\ \A i \in 1 .. Len(new) + Len(w) :
             all[i] = IF i <= Len(new) THEN new[i] ELSE w[i - Len(new)]
    BY <1>1, <1>2, ConcatProperties
  <2> HIDE DEF all
  <2>2. QED
    BY <1>2, <2>1
<1>6. DOMAIN all = 1 .. 1 + Len(w)
  BY <1>5, LenProperties
<1> HIDE DEF all
<1>7. \A i \in DOMAIN all : \/ i = 1 /\ all[i] = <<n, d>>
                            \/ i # 1 /\ i - 1 \in DOMAIN w /\ all[i] = w[i - 1]
  BY <1>2, <1>4, <1>5, <1>6
<1>8. \A i \in DOMAIN all : i \in Int
  BY <1>6
<1>9. Distinct(all)
  <2> SUFFICES ASSUME NEW i \in DOMAIN all, NEW j \in DOMAIN all, all[i][1] = all[j][1]
               PROVE  i = j
    BY DEF Distinct
  <2>1. CASE i # 1 /\ j # 1
    <3>1. i - 1 = j - 1
      BY <1>1, <1>7, <2>1 DEF Distinct
    <3>2. QED
      BY <3>1, <1>8
  <2>2. CASE i = 1 /\ j # 1
    BY <1>1, <1>7, <2>2
  <2>3. CASE i # 1 /\ j = 1
    BY <1>1, <1>7, <2>3
  <2>4. QED
    BY <2>1, <2>2, <2>3
<1>10. \A i \in DOMAIN all : all[i] = <<n, d>> \/ \E j \in DOMAIN cache : all[i] = cache[j]
  BY <1>1, <1>7
<1>11. /\ Front(all) \in Seq(CacheEntry) /\ DOMAIN Front(all) \subseteq DOMAIN all
       /\ \A i \in DOMAIN Front(all) : Front(all)[i] = all[i]
  <2> DEFINE f == SubSeq(all, 1, Len(w))
  <2>1. Front(all) = f
    BY <1>4, <1>5 DEF Front
  <2>2. \A i \in 1 .. Len(w) : all[i] \in CacheEntry
    BY <1>4, <1>5, ElementOfSeq
  <2>3. /\ f \in Seq(CacheEntry) /\ Len(f) = IF 1 <= Len(w) THEN Len(w) - 1 + 1 ELSE 0
        /\ \A i \in 1 .. Len(w) - 1 + 1 : f[i] = all[1 + i - 1]
    BY <1>4, <2>2, SubSeqProperties
  <2>4. DOMAIN f = 1 .. Len(f)
    BY <2>3, LenProperties
  <2> HIDE DEF f
  <2>5. Len(f) = Len(w)
    BY <1>4, <2>3
  <2>6. \A i \in 1 .. Len(w) : f[i] = all[i]
    BY <1>4, <2>3
  <2>7. QED
    BY <1>4, <1>6, <2>1, <2>3, <2>4, <2>5, <2>6
<1>12. Distinct(Front(all))
  BY <1>9, <1>11 DEF Distinct
<1>13. CASE Len(all) > CacheCap
  BY <1>3, <1>10, <1>11, <1>12, <1>13
<1>14. CASE ~ (Len(all) > CacheCap)
  BY <1>3, <1>5, <1>9, <1>10, <1>14
<1>15. QED
  BY <1>13, <1>14

-----------------------------------------------------------------------------
(* The invariant is inductive.                                             *)

\* No match has a file, and nothing is cached.
LEMMA InitStore == Init => StoreInv
<1> SUFFICES ASSUME Init PROVE StoreInv
  OBVIOUS
<1>1. cache = <<>> /\ DOMAIN cache = {} /\ cache \in Seq(CacheEntry)
  BY DEF Init
<1>2. StoreTypes
  BY <1>1 DEF Init, StoreTypes
<1>3. OneNodeEach /\ CacheTrue
  BY <1>1 DEF OneNodeEach, Distinct, CacheTrue
<1>4. FilesYoung /\ HeldTrue
  BY DEF Init, FilesYoung, HeldTrue, IsReadable, Absent
<1>5. QED
  BY <1>2, <1>3, <1>4 DEF StoreInv

\* The document a load returns stands for its match, cached or stored.
LEMMA LoadKeeps ==
  ASSUME StoreInv, NEW n \in Names, Load(n)
  PROVE  StoreInv'
<1>1. PICK d \in (IF Cached(n) # {} THEN Cached(n) ELSE IF IsReadable(n) THEN {file[n]} ELSE {}) :
        held' = d /\ cache' = Cache(n, d)
  BY DEF Load
<1>2. /\ pc = "idle" /\ pc' = "loaded" /\ name' = n
      /\ UNCHANGED <<file, confirmed, saves, faults>>
  BY DEF Load
<1>3. \A i \in DOMAIN cache : cache[i] \in CacheEntry
  BY ElementOfSeq, LenProperties DEF StoreInv, StoreTypes
<1>4. d \in Documents /\ Stands(n, d)
  <2>1. CASE Cached(n) # {}
    <3>1. PICK i \in DOMAIN cache : cache[i][1] = n /\ cache[i][2] = d
      BY <1>1, <2>1 DEF Cached, Nodes
    <3>2. QED
      BY <1>3, <3>1 DEF StoreInv, CacheTrue, CacheEntry
  <2>2. CASE Cached(n) = {}
    <3>1. IsReadable(n) /\ d = file[n]
      BY <1>1, <2>2
    <3>2. d \in Documents
      BY <3>1 DEF StoreInv, StoreTypes, IsReadable, Absent, Torn
    <3>3. QED
      BY <3>1, <3>2 DEF StoreInv, FilesYoung, Stands
  <2>3. QED
    BY <2>1, <2>2
<1>5. /\ cache' \in Seq(CacheEntry) /\ Distinct(cache')
      /\ \A i \in DOMAIN cache' : cache'[i] = <<n, d>> \/ \E j \in DOMAIN cache : cache'[i] = cache[j]
  BY <1>1, <1>4, CacheFacts DEF StoreInv
<1>6. StoreTypes'
  BY <1>1, <1>2, <1>4, <1>5 DEF StoreInv, StoreTypes
<1>7. OneNodeEach'
  BY <1>5 DEF OneNodeEach
<1>8. \A m, e : Stands(m, e) => Stands(m, e)'
  BY <1>2 DEF Stands, IsReadable
<1>9. CacheTrue'
  BY <1>4, <1>5, <1>8 DEF StoreInv, CacheTrue
<1>10. FilesYoung'
  BY <1>2 DEF StoreInv, FilesYoung, IsReadable
<1>11. HeldTrue'
  BY <1>1, <1>2, <1>4, <1>8 DEF HeldTrue
<1>12. QED
  BY <1>6, <1>7, <1>9, <1>10, <1>11 DEF StoreInv

\* A save is numbered after all others.
LEMMA BeginKeeps ==
  ASSUME StoreInv, NEW n \in Names, NEW version \in Nat, Begin(n, version),
         pc \in {"idle", "loaded"}
  PROVE  StoreInv'
<1>1. /\ saves' = saves + 1 /\ pc' = "open" /\ name' = n /\ held' = Document(version, saves')
      /\ UNCHANGED <<file, cache, confirmed, faults>>
  BY DEF Begin
<1>2. held' \in Documents /\ held'.content = saves' /\ saves' \in Nat /\ saves' > saves
  BY <1>1 DEF Document, Documents, StoreInv, StoreTypes
<1>3. StoreTypes'
  BY <1>1, <1>2 DEF StoreInv, StoreTypes
<1>4. OneNodeEach' /\ CacheTrue'
  BY <1>1 DEF StoreInv, OneNodeEach, Distinct, CacheTrue, Stands, IsReadable
<1>5. FilesYoung'
  <2>1. \A k \in Names : confirmed[k] \in Nat /\ confirmed[k] <= saves
    BY DEF StoreInv, StoreTypes, FilesYoung
  <2>2. \A k \in Names : confirmed'[k] <= saves'
    BY <1>1, <2>1 DEF StoreInv, StoreTypes
  <2>3. QED
    BY <1>1, <2>2 DEF StoreInv, FilesYoung, IsReadable
<1>6. HeldTrue'
  BY <1>1, <1>2 DEF HeldTrue
<1>7. QED
  BY <1>3, <1>4, <1>5, <1>6 DEF StoreInv

\* Opening truncates the file of the match that is written.
LEMMA OpenKeeps ==
  ASSUME StoreInv, Open
  PROVE  StoreInv'
<1>1. /\ pc = "open" /\ pc' = "write" /\ file' = [file EXCEPT ![name] = Torn]
      /\ UNCHANGED <<cache, name, held, confirmed, saves, faults>>
  BY DEF Open
<1>2. file'[name] = Torn /\ \A n \in Names : n # name => file'[n] = file[n]
  BY <1>1 DEF StoreInv, StoreTypes
<1>3. StoreTypes'
  BY <1>1 DEF StoreInv, StoreTypes
<1>4. OneNodeEach'
  BY <1>1 DEF StoreInv, OneNodeEach
<1>5. \A i \in DOMAIN cache : cache[i] \in CacheEntry
  BY ElementOfSeq, LenProperties DEF StoreInv, StoreTypes
<1>6. CacheTrue'
  BY <1>1, <1>2, <1>5 DEF StoreInv, CacheTrue, CacheEntry, Stands, IsReadable, Torn
<1>7. FilesYoung'
  BY <1>1, <1>2 DEF StoreInv, FilesYoung, IsReadable, Torn
<1>8. HeldTrue'
  BY <1>1, <1>2 DEF StoreInv, HeldTrue, IsReadable, Torn
<1>9. QED
  BY <1>3, <1>4, <1>6, <1>7, <1>8 DEF StoreInv

\* The file is the document or stays torn.
LEMMA WriteKeeps ==
  ASSUME StoreInv, Write
  PROVE  StoreInv'
<1>1. /\ pc = "write" /\ pc' = "saved" /\ UNCHANGED <<cache, name, held, confirmed, saves>>
      /\ file' = [file EXCEPT ![name] = held] \/ file' = file
  BY DEF Write
<1>2. held \in Documents /\ held.content = saves /\ ~ IsReadable(name)
  BY <1>1 DEF StoreInv, HeldTrue
<1>3. /\ file'[name] = held \/ file'[name] = file[name]
      /\ \A n \in Names : n # name => file'[n] = file[n]
  BY <1>1 DEF StoreInv, StoreTypes
<1>4. StoreTypes'
  BY <1>1, <1>2 DEF StoreInv, StoreTypes
<1>5. OneNodeEach'
  BY <1>1 DEF StoreInv, OneNodeEach
<1>6. \A i \in DOMAIN cache : cache[i] \in CacheEntry
  BY ElementOfSeq, LenProperties DEF StoreInv, StoreTypes
<1>7. CacheTrue'
  BY <1>1, <1>3, <1>6 DEF StoreInv, CacheTrue, CacheEntry, Stands, IsReadable
<1>8. FilesYoung'
  BY <1>1, <1>2, <1>3 DEF StoreInv, FilesYoung, IsReadable
<1>9. HeldTrue'
  BY <1>1, <1>2, <1>3 DEF StoreInv, HeldTrue, IsReadable
<1>10. QED
  BY <1>4, <1>5, <1>7, <1>8, <1>9 DEF StoreInv

\* The node that could be wrong is dropped, and the save is acknowledged.
LEMMA ReturnKeeps ==
  ASSUME StoreInv, Return
  PROVE  StoreInv'
<1>1. /\ pc = "saved" /\ pc' = "idle" /\ held' = Absent /\ cache' = Without(name)
      /\ confirmed' = [confirmed EXCEPT ![name] = held.content]
      /\ UNCHANGED <<file, name, saves, faults>>
  BY DEF Return, DropCached
<1>2. /\ cache' \in Seq(CacheEntry) /\ Distinct(cache')
      /\ \A i \in DOMAIN cache' :
           cache'[i][1] # name /\ \E j \in DOMAIN cache : cache'[i] = cache[j]
  BY <1>1, WithoutFacts DEF StoreInv
<1>3. held \in Documents /\ held.content = saves /\ (~ IsReadable(name) \/ file[name] = held)
  BY <1>1 DEF StoreInv, HeldTrue
<1>4. confirmed'[name] = saves /\ \A n \in Names : n # name => confirmed'[n] = confirmed[n]
  BY <1>1, <1>3 DEF StoreInv, StoreTypes
<1>5. StoreTypes'
  BY <1>1, <1>2, <1>3 DEF StoreInv, StoreTypes
<1>6. OneNodeEach'
  BY <1>2 DEF OneNodeEach
<1>6a. \A i \in DOMAIN cache : cache[i] \in CacheEntry
  BY ElementOfSeq, LenProperties DEF StoreInv, StoreTypes
<1>7. CacheTrue'
  BY <1>1, <1>2, <1>4, <1>6a DEF StoreInv, CacheTrue, CacheEntry, Stands, IsReadable
<1>8. FilesYoung'
  BY <1>1, <1>3, <1>4 DEF StoreInv, StoreTypes, FilesYoung, IsReadable
<1>9. HeldTrue'
  BY <1>1 DEF HeldTrue
<1>10. QED
  BY <1>5, <1>6, <1>7, <1>8, <1>9 DEF StoreInv

\* A handler that ends without a save, or with one that failed, changes nothing
\* else; a crash empties the cache.
LEMMA StopKeeps ==
  ASSUME StoreInv, Leave \/ OpenFails \/ DumpFails \/ Crash
  PROVE  StoreInv'
<1>1. /\ pc' = "idle" /\ held' = Absent /\ UNCHANGED <<file, name, confirmed, saves>>
      /\ \/ cache' = cache /\ pc \in {"loaded", "open", "write"}
         \/ cache' = <<>>
  BY DEF Leave, OpenFails, DumpFails, Crash
<1>2. cache' = <<>> => DOMAIN cache' = {} /\ cache' \in Seq(CacheEntry)
  OBVIOUS
<1>3. StoreTypes'
  BY <1>1, <1>2 DEF StoreInv, StoreTypes
<1>4. OneNodeEach' /\ CacheTrue'
  BY <1>1, <1>2 DEF StoreInv, OneNodeEach, Distinct, CacheTrue, Stands, IsReadable
<1>5. FilesYoung' /\ HeldTrue'
  BY <1>1 DEF StoreInv, FilesYoung, HeldTrue, IsReadable
<1>6. QED
  BY <1>3, <1>4, <1>5 DEF StoreInv

\* Every step keeps the invariant, a stutter included.
LEMMA StepKeeps == StoreInv /\ [Next]_vars => StoreInv'
<1> SUFFICES ASSUME StoreInv, [Next]_vars PROVE StoreInv'
  OBVIOUS
<1>1. ASSUME NEW n \in Names, Load(n) PROVE StoreInv'
  BY <1>1, LoadKeeps
<1>2. ASSUME NEW n \in Names, Create(n) PROVE StoreInv'
  BY <1>2, BeginKeeps DEF Create
<1>3. CASE Update
  <2>1. held \in Documents /\ held.version + 1 \in Nat /\ name \in Names
    BY <1>3 DEF Update, CanUpdate, IsReadable, StoreInv, StoreTypes, HeldTrue, Documents, Absent, Torn
  <2>2. QED
    BY <1>3, <2>1, BeginKeeps DEF Update
<1>4. CASE Open
  BY <1>4, OpenKeeps
<1>5. CASE Write
  BY <1>5, WriteKeeps
<1>6. CASE Return
  BY <1>6, ReturnKeeps
<1>7. CASE Leave \/ OpenFails \/ DumpFails \/ Crash
  BY <1>7, StopKeeps
<1>8. CASE UNCHANGED vars
  BY <1>8 DEF vars, StoreInv, StoreTypes, OneNodeEach, Distinct, CacheTrue, Stands, FilesYoung, HeldTrue,
            IsReadable
<1>9. QED
  BY <1>1, <1>2, <1>3, <1>4, <1>5, <1>6, <1>7, <1>8 DEF Next

-----------------------------------------------------------------------------
(* What a crash costs.                                                     *)

\* The matches that are lost, or will be when the running save is acknowledged: a
\* file that is being written is not given up yet.
Doomed ==
  {n \in Names : /\ ~ IsReadable(n)
                 /\ \/ confirmed[n] > 0 /\ ~ (pc = "write" /\ n = name)
                    \/ pc = "saved" /\ n = name}

LossInv == faults \in Nat /\ IsFiniteSet(Doomed) /\ Cardinality(Doomed) <= faults

\* Only a fault dooms a match, the one that is being served.
LEMMA DoomedByFaults ==
  ASSUME StoreInv, Next
  PROVE  \/ Doomed' \subseteq Doomed /\ faults' = faults
         \/ Doomed' \subseteq Doomed \cup {name} /\ faults' = faults + 1
<1> USE DEF Doomed, IsReadable
<1>0. /\ file \in [Names -> Documents \cup {Absent, Torn}] /\ confirmed \in [Names -> Nat]
      /\ pc \in {"open", "write", "saved"} => held \in Documents
  BY DEF StoreInv, StoreTypes, HeldTrue
<1>1. ASSUME NEW n \in Names, Load(n) PROVE Doomed' \subseteq Doomed /\ faults' = faults
  BY <1>1 DEF Load
<1>2. ASSUME NEW n \in Names, Create(n) PROVE Doomed' \subseteq Doomed /\ faults' = faults
  BY <1>2 DEF Create, Begin
<1>3. CASE Leave \/ Update
  <2>1. Doomed' \subseteq Doomed /\ faults' = faults
    BY <1>3 DEF Leave, Update, Begin
  <2> QED BY <2>1
<1>4. CASE Open
  <2>1. /\ pc' = "write" /\ UNCHANGED <<name, confirmed, faults>>
        /\ \A n \in Names : n # name => file'[n] = file[n]
    BY <1>0, <1>4 DEF Open
  <2> QED BY <2>1
<1>5. CASE Write
  <2>1. pc = "write" /\ pc' = "saved" /\ UNCHANGED <<name, confirmed>>  BY <1>5 DEF Write
  <2>2. CASE file' = [file EXCEPT ![name] = held] /\ UNCHANGED faults
    <3>1. held.kind = "document"  BY <1>0, <2>1 DEF Documents
    <3>2. \A n \in Names : file'[n] = IF n = name THEN held ELSE file[n]  BY <1>0, <2>2
    <3> QED BY <2>1, <2>2, <3>1, <3>2
  <2>3. CASE faults' = faults + 1 /\ UNCHANGED file  BY <2>1, <2>3
  <2> QED BY <1>5, <2>2, <2>3 DEF Write
<1>6. CASE Return
  <2>1. /\ pc = "saved" /\ pc' = "idle" /\ UNCHANGED <<file, name, faults>>
        /\ \A n \in Names : n # name => confirmed'[n] = confirmed[n]
    BY <1>0, <1>6 DEF Return
  <2> QED BY <2>1
<1>7. CASE OpenFails \/ DumpFails \/ Crash
  <2>1. pc' = "idle" /\ UNCHANGED <<file, name, confirmed>> /\ faults' = faults + 1
    BY <1>7 DEF OpenFails, DumpFails, Crash
  <2> QED BY <2>1
<1> QED BY <1>1, <1>2, <1>3, <1>4, <1>5, <1>6, <1>7 DEF Next

LEMMA LossKeeps == StoreInv /\ LossInv /\ [Next]_vars => LossInv'
<1> SUFFICES ASSUME StoreInv, LossInv, [Next]_vars PROVE LossInv'  OBVIOUS
<1> USE DEF LossInv
<1>1. ASSUME NEW S, IsFiniteSet(S), Doomed' \subseteq S
      PROVE  /\ IsFiniteSet(Doomed') /\ Cardinality(Doomed') <= Cardinality(S)
             /\ Cardinality(Doomed') \in Nat /\ Cardinality(S) \in Nat
  BY <1>1, FS_Subset, FS_CardinalityType
<1>2. CASE Doomed' \subseteq Doomed /\ faults' = faults
  BY <1>1, <1>2
<1>3. CASE Doomed' \subseteq Doomed \cup {name} /\ faults' = faults + 1
  <2>1. /\ IsFiniteSet(Doomed \cup {name}) /\ Cardinality(Doomed) \in Nat
        /\ Cardinality(Doomed \cup {name}) <= Cardinality(Doomed) + 1
    <3>1. IsFiniteSet(Doomed) /\ Cardinality(Doomed) \in Nat  BY FS_CardinalityType
    <3>2. /\ IsFiniteSet(Doomed \cup {name})
          /\ \/ Cardinality(Doomed \cup {name}) = Cardinality(Doomed)
             \/ Cardinality(Doomed \cup {name}) = Cardinality(Doomed) + 1
      BY <3>1, FS_AddElement
    <3> HIDE DEF LossInv
    <3> QED BY <3>1, <3>2
  <2>2. /\ Cardinality(Doomed') <= Cardinality(Doomed \cup {name})
        /\ Cardinality(Doomed \cup {name}) \in Nat /\ Cardinality(Doomed') \in Nat
        /\ IsFiniteSet(Doomed')
    BY <1>1, <1>3, <2>1
  <2> QED BY <1>3, <2>1, <2>2
<1>4. CASE UNCHANGED vars
  BY <1>4 DEF vars, Doomed, IsReadable
<1> QED BY <1>2, <1>3, <1>4, DoomedByFaults

-----------------------------------------------------------------------------
(* The properties.                                                         *)

LEMMA StoreInvIsCurrent == StoreInv => CacheIsCurrent
BY DEF StoreInv, HeldTrue, Stands, CacheIsCurrent, LoadsLatest, WorksOnTheFile

\* What is acknowledged is served: a handler neither misses an acknowledged save nor
\* works on a version its file no longer has, and each crash, write error or failing
\* dump costs one match at most (MatchRepository.cpp:10-41, FileStore.cpp:101-163),
\* for any matches, any capacity of the cache and any number of saves and faults.
THEOREM MatchesStayKept == Spec => []MatchesAreKept
<1>1. Spec => []StoreInv
  BY InitStore, StepKeeps, PTL DEF Spec
<1>2. Init => LossInv
  <2> SUFFICES ASSUME Init PROVE LossInv  OBVIOUS
  <2>1. Doomed = {} /\ faults = 0
    BY DEF Init, Doomed
  <2> QED BY <2>1, FS_EmptySet DEF LossInv
<1>3. StoreInv /\ LossInv => MatchesAreKept
  <2> SUFFICES ASSUME StoreInv, LossInv, pc = "idle" PROVE Cardinality(Lost) <= faults
    BY StoreInvIsCurrent DEF MatchesAreKept, EachLossIsAFault
  <2>1. Lost \subseteq Doomed  BY DEF Lost, Doomed
  <2>2. /\ Cardinality(Lost) <= Cardinality(Doomed) /\ Cardinality(Lost) \in Nat
        /\ Cardinality(Doomed) \in Nat
    BY <2>1, FS_Subset, FS_CardinalityType DEF LossInv
  <2> QED BY <2>2 DEF LossInv
<1>4. QED
  BY <1>1, <1>2, <1>3, LossKeeps, PTL DEF Spec

-----------------------------------------------------------------------------
(* The models beside it.                                                   *)

USE NameAssumption DEF Models!Absent, Models!Cut, Models!Mixed, Models!Baseline, Models!Model

Runs(v) == {t \in Tools : VersionOf[t] = v}

Contents == Tools \cup {Models!Absent, Models!Cut, Models!Mixed}

Steps == {"new", "create", "open weights", "write weights", "open manifest", "write manifest",
          "open active", "write active", "done"}

TypeInv ==
  /\ versions \in [Models!Versions -> [exists : BOOLEAN, weights : Contents, manifest : Contents]]
  /\ tool \in [Tools -> Steps]
  /\ upsets \in Nat

\* The files of a version are the work of runs on that version, whole or not: a
\* manifest that parses is the manifest of one of them.
FilesInv ==
  \A v \in Models!Versions :
    /\ versions[v].weights \in Runs(v) \cup {Models!Absent, Models!Cut, Models!Mixed}
    /\ versions[v].manifest \in Runs(v) \cup {Models!Absent, Models!Cut}

\* What an undisturbed run has made of its version, at each of its steps.
Made(t) ==
  LET files == versions[VersionOf[t]]
  IN /\ tool[t] \notin {"new", "create"} => files.exists
     /\ tool[t] \in {"open manifest", "write manifest", "open active", "write active", "done"} =>
          files.weights = t
     /\ tool[t] = "write manifest" => files.manifest = Models!Cut
     /\ tool[t] \in {"open active", "write active", "done"} => files.manifest = t

\* Undisturbed runs have their versions to themselves, and ACTIVE names the
\* version of a finished one.
ProgressInv ==
  Models!Undisturbed =>
    /\ \A t \in Tools : Made(t)
    /\ \A v \in Models!Versions : versions[v].exists => \E t \in Runs(v) : tool[t] # "new"
    /\ active \in Models!Versions => \E t \in Runs(active) : tool[t] = "done"
    /\ Models!HasActivated /\ active \notin Models!Versions =>
         \E t \in Tools : Models!Activating(t)

Inv == TypeInv /\ FilesInv /\ ProgressInv /\ PlaysOneRunsModel

LEMMA VersionsOfTools == \A t \in Tools : VersionOf[t] \in Models!Versions /\ t \in Runs(VersionOf[t])
BY DEF Models!Versions, Runs

-----------------------------------------------------------------------------
(* The steps of a tool.                                                    *)

\* What any step of a run changes: its own place, and the files of its version.
ToolSteps(t) ==
  \/ Models!CheckVersion(t) \/ Models!CreateDirectory(t)
  \/ \E f \in Models!Files : Models!OpenFile(t, f) \/ Models!WriteFile(t, f)
  \/ Models!OpenActive(t) \/ Models!WriteActive(t) \/ Models!Killed(t)

Moves(t) ==
  /\ tool' = [tool EXCEPT ![t] = tool'[t]]
  /\ tool'[t] \in Steps \ {"new"}
  /\ \A v \in Models!Versions : v # VersionOf[t] => versions'[v] = versions[v]
  /\ upsets' \in {upsets, upsets + 1}
  /\ UNCHANGED policy

LEMMA StepsMove ==
  ASSUME TypeInv, NEW t \in Tools, ToolSteps(t)
  PROVE  Moves(t)
<1> USE VersionsOfTools DEF TypeInv, Moves, Steps, Models!At
<1>1. CASE Models!CheckVersion(t)  BY <1>1 DEF Models!CheckVersion
<1>2. CASE Models!CreateDirectory(t)  BY <1>2 DEF Models!CreateDirectory
<1>3. ASSUME NEW f \in Models!Files, Models!OpenFile(t, f) PROVE Moves(t)
  <2>1. /\ tool' = [tool EXCEPT ![t] = Models!Writing[f]]
        /\ versions' = [versions EXCEPT ![VersionOf[t]][f] = Models!Cut]
        /\ UNCHANGED <<policy, upsets>>
    BY <1>3 DEF Models!OpenFile, Models!Stored
  <2>2. Models!Writing[f] \in {"write weights", "write manifest"}
    <3>1. Models!Writing["weights"] = "write weights"  BY DEF Models!Writing
    <3>2. Models!Writing["manifest"] = "write manifest"  BY DEF Models!Writing
    <3> QED BY <3>1, <3>2 DEF Models!Files
  <2>3. \A v \in Models!Versions : v # VersionOf[t] => versions'[v] = versions[v]  BY <2>1
  <2> QED BY <2>1, <2>2, <2>3
<1>4. ASSUME NEW f \in Models!Files, Models!WriteFile(t, f) PROVE Moves(t)
  <2>1. tool' = [tool EXCEPT ![t] = Models!AfterWrite(t, f)] /\ UNCHANGED policy
    BY <1>4 DEF Models!WriteFile
  <2>2. Models!AfterWrite(t, f) \in Steps \ {"new"}  BY DEF Models!AfterWrite, Models!Files
  <2>3. (\E content : Models!Stored(t, f, content)) /\ upsets' \in {upsets, upsets + 1}
    BY <1>4 DEF Models!WriteFile
  <2>4. \A v \in Models!Versions : v # VersionOf[t] => versions'[v] = versions[v]
    BY <2>3 DEF Models!Stored
  <2> QED BY <2>1, <2>2, <2>3, <2>4
<1>5. CASE Models!OpenActive(t)  BY <1>5 DEF Models!OpenActive
<1>6. CASE Models!WriteActive(t)  BY <1>6 DEF Models!WriteActive
<1>7. CASE Models!Killed(t)  BY <1>7 DEF Models!Killed
<1> QED BY <1>1, <1>2, <1>3, <1>4, <1>5, <1>6, <1>7 DEF ToolSteps

\* What a step does to the files of the run's version: nothing, its directory is
\* created, or one of its two files gets a content.
FileChange(t, v) ==
  \/ versions'[v] = versions[v]
  \/ versions'[v] = [versions[v] EXCEPT !.exists = TRUE]
  \/ \E content \in {t, Models!Cut, Models!Mixed, versions[v].weights} :
       versions'[v] = [versions[v] EXCEPT !.weights = content]
  \/ \E content \in {t, Models!Cut, versions[v].manifest} :
       versions'[v] = [versions[v] EXCEPT !.manifest = content]

LEMMA StepsStore ==
  ASSUME TypeInv, NEW t \in Tools, ToolSteps(t)
  PROVE  versions' \in [Models!Versions -> [exists : BOOLEAN, weights : Contents, manifest : Contents]]
         /\ FileChange(t, VersionOf[t])
<1> DEFINE v == VersionOf[t]
<1>v. v \in Models!Versions  BY VersionsOfTools
<1>t. versions \in [Models!Versions -> [exists : BOOLEAN, weights : Contents, manifest : Contents]]
  BY DEF TypeInv
<1>c. /\ versions[v] \in [exists : BOOLEAN, weights : Contents, manifest : Contents]
      /\ versions[v].weights \in Contents /\ versions[v].manifest \in Contents
  BY <1>v, <1>t
<1>w. {t, Models!Cut, Models!Mixed} \subseteq Contents  BY DEF Contents
<1>g. ASSUME NEW r \in [exists : BOOLEAN, weights : Contents, manifest : Contents],
             versions' = [versions EXCEPT ![v] = r]
      PROVE  versions' \in [Models!Versions -> [exists : BOOLEAN, weights : Contents, manifest : Contents]]
             /\ versions'[v] = r
  BY <1>g, <1>v, <1>t
<1>1. CASE UNCHANGED versions  BY <1>1, <1>t DEF FileChange
<1>2. CASE Models!CreateDirectory(t)
  <2>1. versions' = [versions EXCEPT ![v] = [versions[v] EXCEPT !.exists = TRUE]]
    BY <1>2 DEF Models!CreateDirectory
  <2>2. [versions[v] EXCEPT !.exists = TRUE] \in [exists : BOOLEAN, weights : Contents, manifest : Contents]
    BY <1>c
  <2> QED BY <2>1, <2>2, <1>g DEF FileChange
<1>3. ASSUME NEW content \in {t, Models!Cut, Models!Mixed, versions[v].weights},
             Models!Stored(t, "weights", content)
      PROVE  versions' \in [Models!Versions -> [exists : BOOLEAN, weights : Contents, manifest : Contents]]
             /\ FileChange(t, v)
  <2>1. versions' = [versions EXCEPT ![v] = [versions[v] EXCEPT !.weights = content]]
    BY <1>3 DEF Models!Stored
  <2>2. [versions[v] EXCEPT !.weights = content] \in [exists : BOOLEAN, weights : Contents, manifest : Contents]
    BY <1>c, <1>w
  <2> QED BY <2>1, <2>2, <1>g DEF FileChange
<1>4. ASSUME NEW content \in {t, Models!Cut, versions[v].manifest},
             Models!Stored(t, "manifest", content)
      PROVE  versions' \in [Models!Versions -> [exists : BOOLEAN, weights : Contents, manifest : Contents]]
             /\ FileChange(t, v)
  <2>1. versions' = [versions EXCEPT ![v] = [versions[v] EXCEPT !.manifest = content]]
    BY <1>4 DEF Models!Stored
  <2>2. [versions[v] EXCEPT !.manifest = content] \in [exists : BOOLEAN, weights : Contents, manifest : Contents]
    BY <1>c, <1>w
  <2> QED BY <2>1, <2>2, <1>g DEF FileChange
<1>5. ASSUME NEW f \in Models!Files, Models!OpenFile(t, f)
      PROVE  (f = "weights" \/ f = "manifest") /\ Models!Stored(t, f, Models!Cut)
  BY <1>5 DEF Models!OpenFile, Models!Files
<1>6. ASSUME NEW f \in Models!Files, Models!WriteFile(t, f)
      PROVE  \/ f = "weights" /\ \E content \in {t, Models!Cut, Models!Mixed, versions[v].weights} :
                                   Models!Stored(t, f, content)
             \/ f = "manifest" /\ \E content \in {t, Models!Cut, versions[v].manifest} :
                                   Models!Stored(t, f, content)
  <2>1. CASE f = "weights"  BY <1>6, <2>1 DEF Models!WriteFile, Models!Remains
  <2>2. CASE f = "manifest"  BY <1>6, <2>2 DEF Models!WriteFile, Models!Remains
  <2> QED BY <2>1, <2>2 DEF Models!Files
<1> QED BY <1>1, <1>2, <1>3, <1>4, <1>5, <1>6
        DEF ToolSteps, Models!CheckVersion, Models!OpenActive, Models!WriteActive, Models!Killed

LEMMA FilesOfStep ==
  ASSUME TypeInv, FilesInv, NEW t \in Tools, ToolSteps(t)
  PROVE  TypeInv' /\ FilesInv'
<1>1. Moves(t) /\ FileChange(t, VersionOf[t])
      /\ versions' \in [Models!Versions -> [exists : BOOLEAN, weights : Contents, manifest : Contents]]
  BY StepsMove, StepsStore
<1>2. TypeInv'
  <2>1. tool' \in [Tools -> Steps]  BY <1>1 DEF TypeInv, Moves
  <2> QED BY <1>1, <2>1 DEF TypeInv, Moves
<1>3. ASSUME NEW v \in Models!Versions
      PROVE  /\ versions'[v].weights \in Runs(v) \cup {Models!Absent, Models!Cut, Models!Mixed}
             /\ versions'[v].manifest \in Runs(v) \cup {Models!Absent, Models!Cut}
  <2>0. /\ versions[v] \in [exists : BOOLEAN, weights : Contents, manifest : Contents]
        /\ versions[v].weights \in Runs(v) \cup {Models!Absent, Models!Cut, Models!Mixed}
        /\ versions[v].manifest \in Runs(v) \cup {Models!Absent, Models!Cut}
    BY DEF TypeInv, FilesInv
  <2>1. CASE v # VersionOf[t]  BY <2>0, <2>1, <1>1 DEF Moves
  <2>2. CASE v = VersionOf[t]
    <3>1. t \in Runs(v)  BY <2>2, VersionsOfTools
    <3> QED BY <1>1, <2>0, <2>2, <3>1 DEF FileChange
  <2> QED BY <2>1, <2>2
<1> QED BY <1>2, <1>3 DEF FilesInv

-----------------------------------------------------------------------------
(* Undisturbed runs.                                                       *)

\* Runs that are undisturbed after a step were so before it, and no other run
\* that has begun is on the version of the one that took the step.
LEMMA UndisturbedBefore ==
  ASSUME TypeInv, NEW t \in Tools, Moves(t), Models!Undisturbed'
  PROVE  /\ Models!Undisturbed /\ upsets' = upsets
         /\ \A s \in Tools : s # t /\ tool[s] # "new" => VersionOf[s] # VersionOf[t]
<1> USE DEF Models!Undisturbed, Moves, TypeInv
<1>1. upsets = 0 /\ upsets' = upsets  OBVIOUS
<1>2. tool'[t] # "new" /\ \A s \in Tools \ {t} : tool'[s] = tool[s]  OBVIOUS
<1>3. \A r \in Tools : tool[r] # "new" => tool'[r] # "new"  BY <1>2
<1>4. \A r, s \in Tools :
        tool'[r] # "new" /\ tool'[s] # "new" /\ VersionOf[r] = VersionOf[s] => r = s
  OBVIOUS
<1> QED BY <1>1, <1>2, <1>3, <1>4

\* Each step of an undisturbed run makes what its next place needs.
LEMMA StepMakes ==
  ASSUME Inv, NEW t \in Tools, ToolSteps(t), Models!Undisturbed'
  PROVE  Made(t)'
<1> DEFINE v == VersionOf[t]
<1>1. Moves(t)  BY StepsMove DEF Inv
<1>2. /\ Models!Undisturbed /\ upsets' = upsets
      /\ \A s \in Tools : s # t /\ tool[s] # "new" => VersionOf[s] # v
  BY <1>1, UndisturbedBefore DEF Inv
<1>3. Made(t) /\ \A w \in Models!Versions : versions[w].exists => \E s \in Runs(w) : tool[s] # "new"
  BY <1>2 DEF Inv, ProgressInv
<1>v. v \in Models!Versions  BY VersionsOfTools
<1>r. /\ versions \in [Models!Versions -> [exists : BOOLEAN, weights : Contents, manifest : Contents]]
      /\ versions[v] \in [exists : BOOLEAN, weights : Contents, manifest : Contents]
      /\ tool \in [Tools -> Steps] /\ upsets \in Nat
  BY <1>v DEF Inv, TypeInv
<1> USE DEF Made, Models!At
<1>4. CASE Models!CheckVersion(t)
  <2>1. tool[t] = "new"  BY <1>4 DEF Models!CheckVersion
  <2>2. ~ versions[v].exists  BY <1>2, <1>3, <1>v, <2>1 DEF Runs
  <2>3. tool'[t] = "create"  BY <1>4, <1>r, <2>2 DEF Models!CheckVersion
  <2> QED BY <2>3
<1>5. CASE Models!CreateDirectory(t)
  <2>1. tool'[t] = "open weights"  BY <1>5, <1>r DEF Models!CreateDirectory
  <2>2. versions'[v].exists  BY <1>5, <1>r, <1>v DEF Models!CreateDirectory
  <2> QED BY <2>1, <2>2
<1>6. ASSUME Models!OpenFile(t, "weights") PROVE Made(t)'
  <2>1. tool[t] = "open weights" /\ tool'[t] = "write weights"
    BY <1>6, <1>r DEF Models!OpenFile, Models!Opening, Models!Writing
  <2>2. versions'[v].exists = versions[v].exists
    BY <1>6, <1>r, <1>v DEF Models!OpenFile, Models!Stored
  <2> QED BY <1>3, <2>1, <2>2
<1>7. ASSUME Models!OpenFile(t, "manifest") PROVE Made(t)'
  <2>1. tool[t] = "open manifest" /\ tool'[t] = "write manifest"
    BY <1>7, <1>r DEF Models!OpenFile, Models!Opening, Models!Writing
  <2>2. /\ versions'[v].exists = versions[v].exists
        /\ versions'[v].weights = versions[v].weights
        /\ versions'[v].manifest = Models!Cut
    BY <1>7, <1>r, <1>v DEF Models!OpenFile, Models!Stored
  <2> QED BY <1>3, <2>1, <2>2
<1>8. ASSUME Models!WriteFile(t, "weights") PROVE Made(t)'
  <2>1. tool[t] = "write weights" /\ tool'[t] = "open manifest"
    BY <1>8, <1>r DEF Models!WriteFile, Models!Writing, Models!AfterWrite
  <2>2. Models!Stored(t, "weights", t)
    BY <1>8, <1>2, <1>r DEF Models!WriteFile
  <2>3. versions'[v].exists = versions[v].exists /\ versions'[v].weights = t
    BY <2>2, <1>r, <1>v DEF Models!Stored
  <2> QED BY <1>3, <2>1, <2>3
<1>9. ASSUME Models!WriteFile(t, "manifest") PROVE Made(t)'
  <2>1. tool[t] = "write manifest" /\ tool'[t] \in {"open active", "done"}
    BY <1>9, <1>r DEF Models!WriteFile, Models!Writing, Models!AfterWrite
  <2>2. versions[v].manifest = Models!Cut  BY <1>3, <2>1
  <2>3. Models!Stored(t, "manifest", t)
    BY <1>9, <1>2, <1>r, <2>2 DEF Models!WriteFile
  <2>4. /\ versions'[v].exists = versions[v].exists
        /\ versions'[v].weights = versions[v].weights
        /\ versions'[v].manifest = t
    BY <2>3, <1>r, <1>v DEF Models!Stored
  <2> QED BY <1>3, <2>1, <2>4
<1>10. CASE Models!OpenActive(t) \/ Models!WriteActive(t)
  <2>1. /\ tool[t] \in {"open active", "write active"} /\ tool'[t] \in {"write active", "done"}
        /\ UNCHANGED versions
    BY <1>10, <1>r DEF Models!OpenActive, Models!WriteActive
  <2> QED BY <1>3, <2>1
<1>11. CASE Models!Killed(t)  BY <1>11, <1>2, <1>r DEF Models!Killed
<1> QED BY <1>4, <1>5, <1>6, <1>7, <1>8, <1>9, <1>10, <1>11 DEF ToolSteps, Models!Files

\* An undisturbed run that activates ends with its version in ACTIVE, and only
\* opening and writing ACTIVE touch it.
LEMMA ActivatesLast ==
  ASSUME Inv, NEW t \in Tools, ToolSteps(t), Models!Undisturbed', ~ Models!OpenActive(t),
         active' \notin Models!Versions
  PROVE  UNCHANGED active /\ tool[t] # "write active" /\ (t \in Activates => tool'[t] # "done")
<1>1. Moves(t)  BY StepsMove DEF Inv
<1>2. /\ Models!Undisturbed /\ upsets' = upsets
      /\ \A s \in Tools : s # t /\ tool[s] # "new" => VersionOf[s] # VersionOf[t]
  BY <1>1, UndisturbedBefore DEF Inv
<1>3. \A v \in Models!Versions : versions[v].exists => \E s \in Runs(v) : tool[s] # "new"
  BY <1>2 DEF Inv, ProgressInv
<1>t. tool \in [Tools -> Steps] /\ upsets \in Nat /\ upsets' # upsets + 1
  BY <1>2 DEF Inv, TypeInv
<1>v. VersionOf[t] \in Models!Versions  BY VersionsOfTools
<1> USE DEF Models!At
<1>4. CASE Models!CheckVersion(t)
  <2>1. tool[t] = "new" /\ UNCHANGED active  BY <1>4 DEF Models!CheckVersion
  <2>2. ~ versions[VersionOf[t]].exists  BY <1>2, <1>3, <1>v, <2>1 DEF Runs
  <2> QED BY <1>4, <1>t, <2>1, <2>2 DEF Models!CheckVersion
<1>5. CASE Models!CreateDirectory(t)  BY <1>5, <1>t DEF Models!CreateDirectory
<1>6. ASSUME NEW f \in Models!Files, Models!OpenFile(t, f)
      PROVE  UNCHANGED active /\ tool[t] # "write active" /\ tool'[t] # "done"
  <2>1. /\ UNCHANGED active /\ tool[t] = Models!Opening[f]
        /\ tool'[t] = Models!Writing[f]
    BY <1>6, <1>t DEF Models!OpenFile
  <2>2. CASE f = "weights"  BY <2>1, <2>2 DEF Models!Opening, Models!Writing
  <2>3. CASE f = "manifest"  BY <2>1, <2>3 DEF Models!Opening, Models!Writing
  <2> QED BY <2>2, <2>3 DEF Models!Files
<1>7. ASSUME NEW f \in Models!Files, Models!WriteFile(t, f)
      PROVE  UNCHANGED active /\ tool[t] # "write active" /\ (t \in Activates => tool'[t] # "done")
  <2>1. /\ UNCHANGED active /\ tool[t] = Models!Writing[f]
        /\ tool'[t] = Models!AfterWrite(t, f)
    BY <1>7, <1>t DEF Models!WriteFile
  <2>2. CASE f = "weights"  BY <2>1, <2>2 DEF Models!Writing, Models!AfterWrite
  <2>3. CASE f = "manifest"  BY <2>1, <2>3 DEF Models!Writing, Models!AfterWrite
  <2> QED BY <2>2, <2>3 DEF Models!Files
<1>8. CASE Models!WriteActive(t)
  <2>1. active' = VersionOf[t]  BY <1>8, <1>t, Zenon DEF Models!WriteActive
  <2> QED BY <1>v, <2>1
<1>9. CASE Models!Killed(t)  BY <1>9, <1>t DEF Models!Killed
<1> QED BY <1>4, <1>5, <1>6, <1>7, <1>8, <1>9 DEF ToolSteps

LEMMA ProgressOfStep ==
  ASSUME Inv, NEW t \in Tools, ToolSteps(t)
  PROVE  ProgressInv'
<1> SUFFICES ASSUME Models!Undisturbed'
             PROVE  /\ \A s \in Tools : Made(s)'
                    /\ \A v \in Models!Versions :
                         versions'[v].exists => \E s \in Runs(v) : tool'[s] # "new"
                    /\ active' \in Models!Versions => \E s \in Runs(active') : tool'[s] = "done"
                    /\ Models!HasActivated' /\ active' \notin Models!Versions =>
                         \E s \in Tools : Models!Activating(s)'
  BY DEF ProgressInv, Runs
<1>1. Moves(t)  BY StepsMove DEF Inv
<1>2. /\ Models!Undisturbed /\ upsets' = upsets
      /\ \A s \in Tools : s # t /\ tool[s] # "new" => VersionOf[s] # VersionOf[t]
  BY <1>1, UndisturbedBefore DEF Inv
<1>3. /\ \A s \in Tools : Made(s)
      /\ \A v \in Models!Versions : versions[v].exists => \E s \in Runs(v) : tool[s] # "new"
      /\ active \in Models!Versions => \E s \in Runs(active) : tool[s] = "done"
      /\ Models!HasActivated /\ active \notin Models!Versions =>
           \E s \in Tools : Models!Activating(s)
  BY <1>2 DEF Inv, ProgressInv
<1>4. tool \in [Tools -> Steps] /\ tool'[t] # "new" /\ \A s \in Tools \ {t} : tool'[s] = tool[s]
  BY <1>1 DEF Inv, TypeInv, Moves
<1>5. ASSUME NEW s \in Tools PROVE Made(s)'
  <2>1. CASE s = t  BY <2>1, StepMakes
  <2>2. CASE s # t /\ tool[s] = "new"
    BY <1>4, <2>2 DEF Made
  <2>3. CASE s # t /\ tool[s] # "new"
    <3>1. versions'[VersionOf[s]] = versions[VersionOf[s]]
      BY <1>1, <1>2, <2>3, VersionsOfTools DEF Moves
    <3> QED BY <1>3, <1>4, <2>3, <3>1 DEF Made
  <2> QED BY <2>1, <2>2, <2>3
<1>6. ASSUME NEW v \in Models!Versions, versions'[v].exists
      PROVE  \E s \in Runs(v) : tool'[s] # "new"
  <2>1. CASE v = VersionOf[t]  BY <2>1, <1>4, VersionsOfTools
  <2>2. CASE v # VersionOf[t]
    <3>1. versions'[v] = versions[v]  BY <1>1, <2>2 DEF Moves
    <3>2. PICK s \in Runs(v) : tool[s] # "new"  BY <1>3, <1>6, <3>1
    <3> QED BY <2>2, <3>2, <1>4 DEF Runs
  <2> QED BY <2>1, <2>2
<1>7. ASSUME active' \in Models!Versions PROVE \E s \in Runs(active') : tool'[s] = "done"
  <2>1. CASE UNCHANGED active
    <3>1. PICK s \in Runs(active) : tool[s] = "done"  BY <1>3, <1>7, <2>1
    <3>2. CASE s = t
      <4>1. FALSE
        BY <3>1, <3>2, <1>2 DEF ToolSteps, Models!CheckVersion, Models!CreateDirectory,
           Models!OpenFile, Models!WriteFile, Models!OpenActive, Models!WriteActive,
           Models!Killed, Models!At, Models!Files, Models!Opening, Models!Writing, Inv, TypeInv
      <4> QED BY <4>1
    <3>3. CASE s # t  BY <3>1, <3>3, <1>4, <2>1 DEF Runs
    <3> QED BY <3>2, <3>3
  <2>2. CASE Models!OpenActive(t)
    <3>1. active' = Models!Cut  BY <2>2 DEF Models!OpenActive
    <3> QED BY <3>1, <1>7
  <2>3. CASE Models!WriteActive(t)
    <3>0. upsets' # upsets + 1  BY <1>2 DEF Inv, TypeInv
    <3>1. active' = VersionOf[t]  BY <2>3, <3>0, Zenon DEF Models!WriteActive
    <3>2. tool'[t] = "done"  BY <2>3, <1>4 DEF Models!WriteActive, Models!At
    <3> QED BY <3>1, <3>2, VersionsOfTools
  <2> QED BY <2>1, <2>2, <2>3
        DEF ToolSteps, Models!CheckVersion, Models!CreateDirectory, Models!OpenFile,
            Models!WriteFile, Models!Killed
<1>8. ASSUME Models!HasActivated', active' \notin Models!Versions
      PROVE  \E s \in Tools : Models!Activating(s)'
  <2>1. CASE Models!OpenActive(t)
    <3>1. tool'[t] = "write active"  BY <2>1, <1>4 DEF Models!OpenActive, Models!At
    <3> QED BY <3>1 DEF Models!Activating
  <2>2. CASE ~ Models!OpenActive(t)
    <3>1. UNCHANGED active /\ tool[t] # "write active" /\ (t \in Activates => tool'[t] # "done")
      BY <1>2, <1>8, <2>2, ActivatesLast
    <3>2. Models!HasActivated
      <4>1. PICK s \in Activates : tool'[s] = "done"  BY <1>8 DEF Models!HasActivated
      <4>2. s \in Tools \ {t}  BY <3>1, <4>1, ActivatesAssumption
      <4> QED BY <1>4, <4>1, <4>2 DEF Models!HasActivated
    <3>3. PICK s \in Tools : tool[s] = "write active"
      BY <1>3, <1>8, <3>1, <3>2 DEF Models!Activating
    <3> QED BY <1>4, <3>1, <3>3 DEF Models!Activating
  <2> QED BY <2>1, <2>2
<1> QED BY <1>5, <1>6, <1>7, <1>8

-----------------------------------------------------------------------------
(* The deployment.                                                         *)

LEMMA InvOfInit == DeploymentInit => Inv
<1> SUFFICES ASSUME Models!Init PROVE Inv  BY DEF DeploymentInit
<1> USE DEF Models!Init
<1>1. TypeInv  BY DEF TypeInv, Steps, Contents
<1>2. FilesInv  BY DEF FilesInv
<1>3. ProgressInv
  <2>1. \A t \in Tools : Made(t)  BY DEF Made
  <2>2. \A v \in Models!Versions : ~ versions[v].exists  OBVIOUS
  <2>3. active \notin Models!Versions /\ ~ Models!HasActivated
    <3>1. \A t \in Activates : tool[t] # "done"
      <4> SUFFICES ASSUME NEW t \in Activates PROVE tool[t] # "done"  OBVIOUS
      <4> QED BY ActivatesAssumption
    <3> QED BY <3>1 DEF Models!HasActivated
  <2> QED BY <2>1, <2>2, <2>3 DEF ProgressInv
<1>4. PlaysOneRunsModel  BY DEF PlaysOneRunsModel, Models!PlaysOneRunsModel
<1> QED BY <1>1, <1>2, <1>3, <1>4 DEF Inv

\* The server takes a model only when the checksum in a manifest that parses, one
\* run's, is that of the weights: then they are that run's weights.
LEMMA InvOfRestart == Inv /\ Restart => Inv'
<1> SUFFICES ASSUME Inv, Restart PROVE Inv'  OBVIOUS
<1>0. Models!ChoosePolicy /\ UNCHANGED <<versions, active, tool, upsets>>
  BY DEF Restart, Models!StartServer
<1>1. TypeInv'  BY <1>0 DEF Inv, TypeInv
<1>2. FilesInv'  BY <1>0 DEF Inv, FilesInv, Runs
<1>3. ProgressInv'
  BY <1>0 DEF Inv, ProgressInv, Made, Models!Undisturbed, Models!HasActivated, Models!Activating, Runs
<1>4. PlaysOneRunsModel'
  <2>1. CASE active \in Models!Versions /\ Models!IsLoadable(active)
    <3>1. policy' = [id |-> versions[active].weights, version |-> active]
      BY <1>0, <2>1 DEF Models!ChoosePolicy
    <3>2. versions[active].weights \in Runs(active)
      BY <2>1 DEF Models!IsLoadable, Inv, FilesInv
    <3> QED BY <3>1, <3>2 DEF PlaysOneRunsModel, Models!PlaysOneRunsModel, Runs
  <2>2. CASE ~ (active \in Models!Versions /\ Models!IsLoadable(active))
    BY <1>0, <2>2 DEF Models!ChoosePolicy, PlaysOneRunsModel, Models!PlaysOneRunsModel
  <2> QED BY <2>1, <2>2
<1> QED BY <1>1, <1>2, <1>3, <1>4 DEF Inv

LEMMA InvOfTool == Inv /\ RunTool => Inv'
<1> SUFFICES ASSUME Inv, NEW t \in Tools, ToolSteps(t) PROVE Inv'
  BY DEF RunTool, Models!ToolStep, ToolSteps
<1>1. UNCHANGED policy  BY StepsMove DEF Inv, Moves
<1>2. PlaysOneRunsModel'
  BY <1>1 DEF Inv, PlaysOneRunsModel, Models!PlaysOneRunsModel
<1> QED BY <1>2, FilesOfStep, ProgressOfStep DEF Inv

LEMMA InvOfRest == Inv /\ UNCHANGED modelVars => Inv'
<1> SUFFICES ASSUME Inv, UNCHANGED modelVars PROVE Inv'  OBVIOUS
<1> USE DEF Inv, modelVars
<1>1. TypeInv'  BY DEF TypeInv
<1>2. FilesInv'  BY DEF FilesInv, Runs
<1>3. ProgressInv'
  BY DEF ProgressInv, Made, Models!Undisturbed, Models!HasActivated, Models!Activating, Runs
<1>4. PlaysOneRunsModel'  BY DEF PlaysOneRunsModel, Models!PlaysOneRunsModel
<1> QED BY <1>1, <1>2, <1>3, <1>4

LEMMA InvTrusts == Inv => ModelIsTrusted
<1> SUFFICES ASSUME Inv, Models!Undisturbed
             PROVE  /\ active \in Models!Versions => Models!IsLoadable(active)
                    /\ Models!HasActivated /\ active \notin Models!Versions =>
                         \E t \in Tools : Models!Activating(t)
  BY DEF Inv, ModelIsTrusted, ActiveIsLoadable, Models!ActiveIsLoadable
<1>1. ASSUME active \in Models!Versions PROVE Models!IsLoadable(active)
  <2>1. PICK t \in Runs(active) : tool[t] = "done"  BY <1>1 DEF Inv, ProgressInv
  <2>2. t \in Tools /\ VersionOf[t] = active  BY DEF Runs
  <2>3. Made(t)  BY <2>2 DEF Inv, ProgressInv
  <2>4. versions[active].exists /\ versions[active].weights = t /\ versions[active].manifest = t
    BY <2>1, <2>2, <2>3 DEF Made
  <2> QED BY <2>2, <2>4 DEF Models!IsLoadable
<1> QED BY <1>1 DEF Inv, ProgressInv

\* The server never takes a mixture of two runs' files for a model; and where runs
\* are left alone, ACTIVE never names a version that cannot be loaded, and once one
\* has activated its version, names one whenever no run is rewriting it, however
\* many runs and versions there are and wherever the server restarts
\* (model_store.cpp).
THEOREM ModelStaysTrusted == DeploymentSpec => []ModelIsTrusted
<1>1. Inv /\ [DeploymentNext]_deploymentVars => Inv'
  BY InvOfRestart, InvOfTool, InvOfRest DEF DeploymentNext, Serve, deploymentVars
<1> QED BY <1>1, InvOfInit, InvTrusts, PTL DEF DeploymentSpec

-----------------------------------------------------------------------------
(* The matches.                                                            *)

\* The tools and the choice of a model share nothing with the matches.
LEMMA DeploymentIsAStore == DeploymentSpec => Spec
<1>1. DeploymentInit => Init
  BY DEF DeploymentInit
<1>2. [DeploymentNext]_deploymentVars => [Next]_vars
  BY DEF DeploymentNext, Serve, RunTool, Restart, Next, deploymentVars, serverVars
<1> QED BY <1>1, <1>2, PTL DEF DeploymentSpec, Spec

\* The deployed server serves what it acknowledged, until a fault in the middle of a
\* save takes it, whatever the tools do beside it and whenever it restarts.
THEOREM DeployedMatchesAreKept == DeploymentSpec => []MatchesAreKept
BY DeploymentIsAStore, MatchesStayKept, PTL
=============================================================================
