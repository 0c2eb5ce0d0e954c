-------------------------- MODULE AutotuneVote_proofs --------------------------
(***************************************************************************)
(* Theorems about AutotuneVote for any finite set of ranks, any cache      *)
(* files and any number of boots, for a fleet whose nodes are upgraded     *)
(* together.                                                               *)
(***************************************************************************)
EXTENDS AutotuneVote, FiniteSetTheorems, WellFoundedInduction, TLAPS

(* Every node has the same environment.                                    *)
Uniform == \A e \in FleetEnvs : \A r, q \in Ranks : e[r] = e[q]

Content(d) == IF d = none THEN none ELSE d.file

(* What the two gathers hold, and how far a rank can be.                   *)
GatherInv ==
    \A r \in Ranks :
        /\ digests[r] = unposted <=> pc[r] = "digest"
        /\ digests[r] \in Digests => digests[r].env = env[r]
        /\ contents[r] # unposted => contents[r] = Content(digests[r])
        /\ pc[r] \notin {"digest", "compare"} => Gathered(digests)
        /\ pc[r] \in {"digest", "compare"} => contents[r] = unposted
        /\ pc[r] \in {"compare", "vote"} => digests[r] = Digest(file[r], env[r])
        /\ pc[r] = "vote" => ~Agree /\ contents[r] # unposted
        /\ pc[r] = "write" => /\ ~Agree /\ Gathered(contents)
                              /\ digests[r] # Best /\ file[r] = torn

(* The file of a rank that has been through the vote is what was agreed.   *)
Held(r) == Digest(file[r], env[r]) = IF Agree THEN digests[r] ELSE Best

(* Until all ranks are in service or saving, nobody saves, and who is in   *)
(* service has loaded what was agreed.                                     *)
Entering == \E q \in Ranks : pc[q] \notin {"save", "serve"}
EnterInv ==
    /\ Entering => \A r \in Ranks :
          /\ pc[r] # "save"
          /\ pc[r] \in {"load", "profile", "serve"} => Held(r)
          /\ pc[r] = "serve" => Loadable(r) /\ tactics[r] = file[r].table
    /\ ~Entering => \A r, q \in Ranks : tactics[r] = tactics[q]
    /\ \A r \in Ranks :
          /\ pc[r] \in {"profile", "save"} => ~Loadable(r)
          /\ pc[r] \notin {"save", "serve"} => tactics[r] = none
          /\ pc[r] = "save" => tactics[r] \in Tables

(* If a file is torn, some other one can be read.                          *)
RepairInv == (\E r \in Ranks : file[r] = torn) => SomeReadable

VoteInv == TypeOK /\ GatherInv /\ EnterInv /\ RepairInv

-----------------------------------------------------------------------------
(* A finite, non-empty set of candidates has a winner.                     *)
LEMMA BestExists ==
    ASSUME Cast # {}
    PROVE  Best \in Cast
<1> DEFINE Behind(d) == Cardinality(Ranks) - Votes(d)
           Margins == {Behind(d) : d \in Cast}
           Less == OpToRel(<, Nat)
<1>1. \A d \in Cast : Votes(d) \in Nat /\ Cardinality(Ranks) \in Nat /\ Behind(d) \in Nat
  <2> SUFFICES ASSUME NEW d \in Cast
               PROVE  Votes(d) \in Nat /\ Cardinality(Ranks) \in Nat /\ Behind(d) \in Nat
    OBVIOUS
  <2> DEFINE Voters == {r \in Ranks : digests[r] = d}
  <2>1. IsFiniteSet(Voters) /\ Cardinality(Voters) <= Cardinality(Ranks)
    BY FS_Subset, VoteAssumption
  <2>2. Cardinality(Voters) \in Nat /\ Cardinality(Ranks) \in Nat
    BY <2>1, FS_CardinalityType, VoteAssumption
  <2> QED
    BY <2>1, <2>2 DEF Votes
<1>2. Margins \subseteq Nat /\ Margins # {}
  BY <1>1
<1>3. PICK m \in Margins : \A n \in Margins : ~(<<n, m>> \in Less)
  <2> HIDE DEF Margins, Less
  <2> QED
    BY <1>2, NatLessThanWellFounded, WFMin DEF Less
<1>4. PICK d \in Cast : m = Behind(d)
  OBVIOUS
<1>5. \A c \in Cast : Votes(c) <= Votes(d)
  <2> SUFFICES ASSUME NEW c \in Cast
               PROVE  Votes(c) <= Votes(d)
    OBVIOUS
  <2>1. ~(Behind(c) < Behind(d))
    <3>1. Behind(c) \in Margins /\ Behind(c) \in Nat /\ m \in Nat
      BY <1>1, <1>2
    <3>2. ~(<<Behind(c), m>> \in Less)
      BY <1>3, <3>1
    <3> QED
      BY <1>4, <3>1, <3>2 DEF OpToRel
  <2> QED
    BY <1>1, <2>1
<1> QED
  BY <1>5 DEF Best

(* When ranks disagree somebody has a cache, and the contents gathered for *)
(* the winning digest are what it is a digest of.                          *)
LEMMA WinnerIsBest ==
    ASSUME TypeOK, GatherInv, ~Agree, Gathered(digests)
    PROVE  /\ Best \in Digests /\ \E q \in Ranks : digests[q] = Best
           /\ Gathered(contents) => Winner = Best.file
<1>1. PICK r \in Ranks, q \in Ranks : digests[r] # digests[q]
  BY DEF Agree
<1>2. Cast # {}
  BY <1>1 DEF Cast
<1>3. Best \in Cast
  BY <1>2, BestExists
<1>4. Best \in Digests /\ \E p \in Ranks : digests[p] = Best
  BY <1>3 DEF Cast, TypeOK, Gathered
<1>5. ASSUME Gathered(contents)
      PROVE  Winner = Best.file
  <2> DEFINE p == CHOOSE p \in Ranks : digests[p] = Best
  <2>1. p \in Ranks /\ digests[p] = Best
    BY <1>4
  <2>2. Best # none
    BY <1>3 DEF Cast
  <2> QED
    BY <1>5, <2>1, <2>2 DEF Winner, GatherInv, Gathered, Content
<1> QED
  BY <1>4, <1>5

(* The digest names the file and the environment it was taken of.          *)
LEMMA DigestIsExact ==
    ASSUME NEW f \in Caches, NEW e \in Environments, NEW g, NEW h,
           Digest(f, e) = Digest(g, h)
    PROVE  f = g /\ e = h
<1>1. Digest(f, e) = [file |-> f, env |-> e] /\ Digest(f, e) # none
  BY ValuesDiffer DEF Digest
<1>2. Digest(g, h) = [file |-> g, env |-> h]
  BY <1>1 DEF Digest
<1>3. \A a, b : [file |-> a, env |-> b].file = a /\ [file |-> a, env |-> b].env = b
  OBVIOUS
<1>4. Digest(f, e).file = f /\ Digest(f, e).env = e
  BY <1>1, <1>3
<1>5. Digest(g, h).file = g /\ Digest(g, h).env = h
  BY <1>2, <1>3
<1> QED
  BY <1>4, <1>5

LEMMA DigestOfCache ==
    ASSUME NEW f, NEW e \in Environments
    PROVE  Digest(f, e) \in Digests <=> f \in Caches
<1>1. none \notin Digests
  BY ValuesDiffer DEF Digests
<1> QED
  BY <1>1 DEF Digest, Digests

(* While ranks are entering, those with the winning digest can read it.    *)
LEMMA HolderIsReadable ==
    ASSUME TypeOK, GatherInv, EnterInv, ~Agree, Gathered(digests), Entering,
           NEW q \in Ranks, digests[q] = Best
    PROVE  pc[q] # "write" /\ Digest(file[q], env[q]) = Best /\ file[q] \in Caches
<1>1. Best \in Digests
  BY WinnerIsBest
<1>2. pc[q] # "digest" /\ pc[q] # "write" /\ pc[q] # "save"
  BY DEF GatherInv, EnterInv, Gathered
<1>3. Digest(file[q], env[q]) = Best
  BY <1>2 DEF TypeOK, Labels, GatherInv, EnterInv, Held
<1>4. env[q] \in Environments
  BY VoteAssumption DEF TypeOK
<1> QED
  BY <1>1, <1>2, <1>3, <1>4, DigestOfCache

LEMMA EnvironmentsOfRanks ==
    ASSUME TypeOK
    PROVE  env \in [Ranks -> Environments]
BY VoteAssumption DEF TypeOK

(* Two ranks that hold what was agreed load the same.                      *)
LEMMA HoldersLoadTheSame ==
    ASSUME TypeOK, Gathered(digests), NEW r \in Ranks, NEW q \in Ranks, Held(r), Held(q)
    PROVE  /\ Loadable(r) <=> Loadable(q)
           /\ Loadable(r) => file[r] = file[q]
<1>1. Digest(file[r], env[r]) = Digest(file[q], env[q])
  BY DEF Held, Agree
<1>2. env[r] \in Environments /\ env[q] \in Environments
  BY EnvironmentsOfRanks
<1>3. file[r] \in Caches => file[r] = file[q] /\ env[r] = env[q]
  BY <1>1, <1>2, DigestIsExact
<1>4. file[q] \in Caches => file[q] = file[r] /\ env[q] = env[r]
  BY <1>1, <1>2, DigestIsExact
<1> QED
  BY <1>3, <1>4 DEF Loadable

-----------------------------------------------------------------------------
(* Every step keeps the invariant.                                         *)

LEMMA InitVoteInv == Init => VoteInv
<1> SUFFICES ASSUME Init
             PROVE  VoteInv
  OBVIOUS
<1>1. TypeOK
  BY DEF Init, TypeOK, Labels
<1>2. GatherInv
  BY ValuesDiffer DEF Init, GatherInv, Digests
<1>3. EnterInv
  BY DEF Init, EnterInv, Entering
<1>4. RepairInv
  BY ValuesDiffer DEF Init, RepairInv
<1> QED
  BY <1>1, <1>2, <1>3, <1>4 DEF VoteInv

(* What the gathers mean changes only with them.                           *)
LEMMA OnlyGathersCount ==
    ASSUME UNCHANGED digests
    PROVE  (Agree' <=> Agree) /\ Best' = Best /\ (Gathered(digests)' <=> Gathered(digests))
<1>1. \A d : Votes(d)' = Votes(d)
  BY DEF Votes
<1>2. Cast' = Cast
  BY DEF Cast
<1> QED
  BY <1>1, <1>2 DEF Agree, Best, Gathered

LEMMA PostDigestStep ==
    ASSUME VoteInv, NEW r \in Ranks, PostDigest(r)
    PROVE  VoteInv'
<1> USE DEF VoteInv
<1>1. Digest(file[r], env[r]) \in Digests \cup {none}
  BY EnvironmentsOfRanks DEF Digest, Digests
<1>2. Digest(file[r], env[r]) # unposted
  BY <1>1, ValuesDiffer DEF Digests
<1>3. \A p \in Ranks : pc[p] \in {"digest", "compare"} /\ pc'[p] \in {"digest", "compare"}
  BY DEF PostDigest, Go, GatherInv, Gathered, TypeOK
<1>4. TypeOK'
  BY <1>1 DEF TypeOK, PostDigest, Go, Labels, Digests, Caches
<1>5. GatherInv'
  <2> SUFFICES ASSUME NEW p \in Ranks
               PROVE  /\ digests'[p] = unposted <=> pc'[p] = "digest"
                      /\ digests'[p] \in Digests => digests'[p].env = env'[p]
                      /\ contents'[p] = unposted
                      /\ pc'[p] = "compare" => digests'[p] = Digest(file'[p], env'[p])
    BY <1>3 DEF GatherInv, Digests, Caches
  <2>1. CASE p = r
    <3>1. digests'[p] = Digest(file[p], env[p]) /\ pc'[p] = "compare"
      BY <2>1 DEF PostDigest, Go, TypeOK
    <3>2. digests'[p] \in Digests => digests'[p].env = env[p]
      BY <3>1, ValuesDiffer DEF Digest, Digests
    <3> QED
      BY <1>2, <1>3, <2>1, <3>1, <3>2 DEF PostDigest, GatherInv, Digest, Caches
  <2>2. CASE p # r
    BY <1>3, <2>2 DEF PostDigest, Go, TypeOK, GatherInv, Digest, Caches
  <2> QED
    BY <2>1, <2>2
<1>6. EnterInv'
  BY <1>3 DEF EnterInv, Entering, PostDigest
<1>7. RepairInv'
  BY DEF RepairInv, SomeReadable, PostDigest, Caches
<1> QED
  BY <1>4, <1>5, <1>6, <1>7

LEMMA CompareStep ==
    ASSUME VoteInv, NEW r \in Ranks, Compare(r)
    PROVE  VoteInv'
<1> USE DEF VoteInv
<1>1. (Agree' <=> Agree) /\ Best' = Best /\ (Gathered(digests)' <=> Gathered(digests))
  BY OnlyGathersCount DEF Compare
<1>2. Gathered(digests) /\ digests[r] = Digest(file[r], env[r]) /\ contents[r] = unposted
  BY DEF Compare, GatherInv
<1>3. Gathered(contents) => FALSE
  BY <1>2 DEF Gathered
<1>4. TypeOK'
  BY DEF TypeOK, Compare, Go, Labels
<1>5. ~Agree => contents'[r] = Content(digests[r]) /\ contents'[r] # unposted
  <2>1. file[r] \in Caches => digests[r] # none /\ digests[r].file = file[r]
    BY <1>2, EnvironmentsOfRanks, ValuesDiffer DEF Digest
  <2>2. file[r] \notin Caches => digests[r] = none
    BY <1>2 DEF Digest
  <2> QED
    BY <2>1, <2>2, ValuesDiffer DEF Compare, Content, TypeOK
<1>6. GatherInv'
  <2> SUFFICES ASSUME NEW p \in Ranks
               PROVE  /\ digests'[p] = unposted <=> pc'[p] = "digest"
                      /\ digests'[p] \in Digests => digests'[p].env = env'[p]
                      /\ contents'[p] # unposted => contents'[p] = Content(digests'[p])
                      /\ pc'[p] \notin {"digest", "compare"} => Gathered(digests)'
                      /\ pc'[p] \in {"digest", "compare"} => contents'[p] = unposted
                      /\ pc'[p] \in {"compare", "vote"} =>
                            digests'[p] = Digest(file'[p], env'[p])
                      /\ pc'[p] = "vote" => ~Agree' /\ contents'[p] # unposted
                      /\ pc'[p] # "write"
    BY DEF GatherInv, Digests, Caches, Content, Digest
  <2>1. UNCHANGED <<digests, file, env>>
    BY DEF Compare
  <2>2. CASE p = r
    <3>1. CASE Agree
      BY <1>1, <1>2, <2>1, <2>2, <3>1 DEF Compare, Go, TypeOK, GatherInv, Digests, Caches
    <3>2. CASE ~Agree
      BY <1>1, <1>2, <1>5, <2>1, <2>2, <3>2 DEF Compare, Go, TypeOK, GatherInv, Digests, Caches
    <3> QED
      BY <3>1, <3>2
  <2>3. CASE p # r
    <3>1. pc'[p] = pc[p] /\ contents'[p] = contents[p]
      BY <2>3 DEF Compare, Go, TypeOK
    <3>2. pc[p] # "write"
      BY <1>3 DEF GatherInv
    <3> QED
      BY <1>1, <2>1, <3>1, <3>2 DEF GatherInv
  <2> QED
    BY <2>2, <2>3
<1>7. EnterInv'
  <2>1. UNCHANGED <<digests, file, env, tactics>>
    BY DEF Compare
  <2>2. pc[r] = "compare" /\ pc'[r] \in {"load", "vote"} /\ \A p \in Ranks \ {r} : pc'[p] = pc[p]
    BY DEF Compare, Go, TypeOK
  <2>3. Entering /\ Entering'
    BY <2>2 DEF Entering
  <2>4. \A p \in Ranks : (Held(p)' <=> Held(p)) /\ (Loadable(p)' <=> Loadable(p))
    BY <1>1, <2>1 DEF Held, Loadable, Digest
  <2>5. pc'[r] = "load" => Held(r)
    BY <1>2 DEF Compare, Go, TypeOK, Held
  <2> QED
    BY <2>1, <2>2, <2>3, <2>4, <2>5 DEF EnterInv
<1>8. RepairInv'
  BY DEF RepairInv, SomeReadable, Compare, Caches
<1> QED
  BY <1>4, <1>6, <1>7, <1>8

(* A rank that does not hold the winner finds it on another one.           *)
LEMMA SomeoneElseHasIt ==
    ASSUME TypeOK, GatherInv, EnterInv, NEW r \in Ranks, pc[r] = "vote",
           Digest(file[r], env[r]) # Best
    PROVE  \E q \in Ranks \ {r} : Digest(file[q], env[q]) = Best /\ file[q] \in Caches
<1>1. ~Agree /\ Gathered(digests) /\ digests[r] # Best
  BY DEF GatherInv
<1>2. PICK q \in Ranks : digests[q] = Best
  BY <1>1, WinnerIsBest
<1>3. Entering
  BY DEF Entering
<1> QED
  BY <1>1, <1>2, <1>3, HolderIsReadable

(* The branch that discards the caches is dead: who votes disagrees.       *)
LEMMA VoteNeverDiscards ==
    ASSUME GatherInv, NEW r \in Ranks, Vote(r)
    PROVE  /\ Cast # {}
           /\ file' # file => /\ file' = [file EXCEPT ![r] = torn]
                              /\ Digest(file[r], env[r]) # Best
<1>1. ~Agree
  BY DEF Vote, GatherInv
<1>2. PICK p \in Ranks, q \in Ranks : digests[p] # digests[q]
  BY <1>1 DEF Agree
<1>3. Cast # {}
  BY <1>2 DEF Cast
<1> QED
  BY <1>3 DEF Vote

LEMMA VoteStep ==
    ASSUME VoteInv, NEW r \in Ranks, Vote(r)
    PROVE  VoteInv'
<1> USE DEF VoteInv
<1>1. (Agree' <=> Agree) /\ Best' = Best /\ (Gathered(digests)' <=> Gathered(digests))
  BY OnlyGathersCount DEF Vote, gathers
<1>2. /\ pc[r] = "vote" /\ ~Agree /\ Gathered(digests) /\ Gathered(contents)
      /\ digests[r] = Digest(file[r], env[r])
  BY DEF Vote, GatherInv
<1>3. Cast # {}
  BY VoteNeverDiscards
<1>4. UNCHANGED <<env, digests, contents, tactics>>
  BY DEF Vote, gathers
<1>5. /\ pc'[r] \in {"load", "write"} /\ \A p \in Ranks \ {r} : pc'[p] = pc[p]
      /\ \A p \in Ranks \ {r} : file'[p] = file[p]
  BY <1>3 DEF Vote, Go, TypeOK
<1>6. /\ pc'[r] = "load" => file'[r] = file[r] /\ digests[r] = Best
      /\ pc'[r] = "write" => file'[r] = torn /\ digests[r] # Best
  BY <1>2, <1>3 DEF Vote, Go, TypeOK
<1>7. TypeOK'
  BY <1>3 DEF TypeOK, Vote, Go, Labels, gathers
<1>8. GatherInv'
  <2> SUFFICES ASSUME NEW p \in Ranks
               PROVE  /\ digests[p] = unposted <=> pc'[p] = "digest"
                      /\ digests[p] \in Digests => digests[p].env = env[p]
                      /\ contents[p] # unposted => contents[p] = Content(digests[p])
                      /\ pc'[p] \notin {"digest", "compare"} => Gathered(digests)
                      /\ pc'[p] \in {"digest", "compare"} => contents[p] = unposted
                      /\ pc'[p] \in {"compare", "vote"} =>
                            digests[p] = Digest(file'[p], env[p])
                      /\ pc'[p] = "vote" => ~Agree /\ contents[p] # unposted
                      /\ pc'[p] = "write" => /\ ~Agree /\ Gathered(contents)
                                             /\ digests[p] # Best /\ file'[p] = torn
    BY <1>1, <1>4 DEF GatherInv, Digests, Caches, Content, Digest, Gathered
  <2>1. CASE p = r
    BY <1>2, <1>5, <1>6, <2>1 DEF GatherInv
  <2>2. CASE p # r
    BY <1>5, <2>2 DEF GatherInv
  <2> QED
    BY <2>1, <2>2
<1>9. EnterInv'
  <2>1. Entering /\ Entering'
    BY <1>2, <1>5 DEF Entering
  <2>2. \A p \in Ranks \ {r} : (Held(p)' <=> Held(p)) /\ (Loadable(p)' <=> Loadable(p))
    BY <1>1, <1>4, <1>5 DEF Held, Loadable, Digest, Caches
  <2>3. pc'[r] = "load" => Held(r)'
    BY <1>1, <1>2, <1>4, <1>6 DEF Held, Digest, Caches
  <2> QED
    BY <1>2, <1>4, <1>5, <2>1, <2>2, <2>3 DEF EnterInv
<1>10. RepairInv'
  <2>1. CASE Digest(file[r], env[r]) = Best
    BY <1>3, <2>1 DEF Vote, RepairInv, SomeReadable, Caches
  <2>2. CASE Digest(file[r], env[r]) # Best
    <3>1. PICK q \in Ranks \ {r} : file[q] \in Caches
      BY <1>2, <2>2, SomeoneElseHasIt
    <3> QED
      BY <1>5, <3>1 DEF RepairInv, SomeReadable, Caches
  <2> QED
    BY <2>1, <2>2
<1> QED
  BY <1>7, <1>8, <1>9, <1>10

LEMMA FinishWriteStep ==
    ASSUME Uniform, VoteInv, NEW r \in Ranks, FinishWrite(r)
    PROVE  VoteInv'
<1> USE DEF VoteInv
<1>1. (Agree' <=> Agree) /\ Best' = Best /\ (Gathered(digests)' <=> Gathered(digests))
  BY OnlyGathersCount DEF FinishWrite, gathers
<1>2. pc[r] = "write" /\ ~Agree /\ Gathered(digests) /\ Gathered(contents)
  BY DEF FinishWrite, GatherInv
<1>3. Best \in Digests /\ file' = [file EXCEPT ![r] = Best.file]
  BY <1>2, WinnerIsBest DEF FinishWrite
<1>4. UNCHANGED <<env, digests, contents, tactics>> /\ pc' = [pc EXCEPT ![r] = "load"]
  BY DEF FinishWrite, Go, gathers
<1>5. Best.env = env[r]
  <2>1. PICK q \in Ranks : digests[q] = Best
    BY <1>2, WinnerIsBest
  <2>2. Best.env = env[q]
    BY <1>3, <2>1 DEF GatherInv
  <2> QED
    BY <2>2 DEF Uniform, TypeOK
<1>6. Digest(file'[r], env[r]) = Best /\ file'[r] \in Caches
  BY <1>3, <1>5 DEF Digest, Digests, TypeOK
<1>7. TypeOK'
  BY <1>3, <1>6 DEF TypeOK, FinishWrite, Go, Labels, Digests, gathers
<1>8. GatherInv'
  BY <1>1, <1>2, <1>3, <1>4 DEF GatherInv, TypeOK, Gathered, Content, Digest
<1>9. EnterInv'
  <2>1. Entering /\ Entering'
    BY <1>2, <1>4 DEF Entering, TypeOK
  <2>2. \A p \in Ranks \ {r} : (Held(p)' <=> Held(p)) /\ (Loadable(p)' <=> Loadable(p))
    BY <1>1, <1>3, <1>4 DEF Held, Loadable, Digest, Caches
  <2>3. Held(r)'
    BY <1>1, <1>2, <1>4, <1>6 DEF Held, Digest, Caches
  <2>4. /\ pc'[r] = "load"
        /\ \A p \in Ranks \ {r} : pc'[p] = pc[p] /\ file'[p] = file[p]
    BY <1>3, <1>4 DEF TypeOK
  <2> QED
    BY <1>2, <1>4, <2>1, <2>2, <2>3, <2>4 DEF EnterInv
<1>10. RepairInv'
  BY <1>6 DEF RepairInv, SomeReadable, Caches
<1> QED
  BY <1>7, <1>8, <1>9, <1>10

LEMMA LoadStep ==
    ASSUME VoteInv, NEW r \in Ranks, Load(r)
    PROVE  VoteInv'
<1> USE DEF VoteInv
<1>1. (Agree' <=> Agree) /\ Best' = Best /\ (Gathered(digests)' <=> Gathered(digests))
  BY OnlyGathersCount DEF Load, gathers
<1>2. UNCHANGED <<env, file, digests, contents>>
  BY DEF Load, gathers
<1>3. /\ pc[r] = "load" /\ pc'[r] \in {"serve", "profile"}
      /\ \A p \in Ranks \ {r} : pc'[p] = pc[p] /\ tactics'[p] = tactics[p]
      /\ pc'[r] = "serve" => Loadable(r) /\ tactics'[r] = file[r].table
      /\ pc'[r] = "profile" => ~Loadable(r) /\ tactics'[r] = tactics[r]
  BY DEF Load, Go, TypeOK
<1>4. TypeOK'
  BY DEF TypeOK, Load, Go, Labels, Loadable, Caches, gathers
<1>5. GatherInv'
  <2> SUFFICES ASSUME NEW p \in Ranks
               PROVE  /\ digests[p] = unposted <=> pc'[p] = "digest"
                      /\ pc'[p] \notin {"digest", "compare"} => Gathered(digests)
                      /\ pc'[p] \in {"digest", "compare"} => contents[p] = unposted
                      /\ pc'[p] \in {"compare", "vote"} =>
                            digests[p] = Digest(file[p], env[p])
                      /\ pc'[p] = "vote" => ~Agree /\ contents[p] # unposted
                      /\ pc'[p] = "write" => /\ ~Agree /\ Gathered(contents)
                                             /\ digests[p] # Best /\ file[p] = torn
    BY <1>1, <1>2 DEF GatherInv, Digests, Caches, Content, Digest, Gathered
  <2>1. CASE p = r
    BY <1>3, <2>1 DEF GatherInv
  <2>2. CASE p # r
    BY <1>3, <2>2 DEF GatherInv
  <2> QED
    BY <2>1, <2>2
<1>6. EnterInv'
  <2>1. Entering /\ Gathered(digests) /\ Held(r) /\ (\A p \in Ranks : pc[p] # "save")
    BY <1>3 DEF Entering, EnterInv, GatherInv
  <2>2. \A p \in Ranks : (Held(p)' <=> Held(p)) /\ (Loadable(p)' <=> Loadable(p))
    BY <1>1, <1>2 DEF Held, Loadable, Digest, Caches
  <2>3. ~Entering' => \A p, q \in Ranks : tactics'[p] = tactics'[q]
    <3> SUFFICES ASSUME ~Entering', NEW p \in Ranks, NEW q \in Ranks
                 PROVE  tactics'[p] = tactics'[q]
      OBVIOUS
    <3>1. pc'[p] = "serve" /\ pc'[q] = "serve"
      BY <1>3, <2>1 DEF Entering
    <3>2. \A s \in {p, q} : Held(s) /\ Loadable(s) /\ tactics'[s] = file[s].table
      BY <1>3, <2>1, <3>1 DEF EnterInv
    <3> QED
      BY <2>1, <3>2, HoldersLoadTheSame
  <2> QED
    BY <1>2, <1>3, <2>1, <2>2, <2>3 DEF EnterInv
<1>7. RepairInv'
  BY <1>2 DEF RepairInv, SomeReadable, Caches
<1> QED
  BY <1>4, <1>5, <1>6, <1>7

LEMMA ProfileStep ==
    ASSUME VoteInv, Profile
    PROVE  VoteInv'
<1> USE DEF VoteInv
<1>1. (Agree' <=> Agree) /\ Best' = Best /\ (Gathered(digests)' <=> Gathered(digests))
  BY OnlyGathersCount DEF Profile, gathers
<1>2. UNCHANGED <<env, file, digests, contents>>
  BY DEF Profile, gathers
<1>3. \A p \in Ranks : pc[p] = "profile" /\ pc'[p] = "save" /\ tactics'[p] \in Tables
  BY DEF Profile
<1>4. TypeOK'
  BY DEF TypeOK, Profile, Labels, gathers
<1>5. GatherInv'
  BY <1>1, <1>2, <1>3 DEF GatherInv, Digests, Caches, Content
<1>6. EnterInv'
  <2>1. ~Entering'
    BY <1>3 DEF Entering
  <2>2. \A p, q \in Ranks : tactics'[p] = tactics'[q]
    BY DEF Profile
  <2>3. \A p \in Ranks : ~Loadable(p)'
    BY <1>2, <1>3 DEF EnterInv, Loadable, Caches
  <2> QED
    BY <1>3, <2>1, <2>2, <2>3 DEF EnterInv
<1>7. RepairInv'
  BY <1>2 DEF RepairInv, SomeReadable, Caches
<1> QED
  BY <1>4, <1>5, <1>6, <1>7

LEMMA SaveStep ==
    ASSUME VoteInv, NEW r \in Ranks, Save(r)
    PROVE  VoteInv'
<1> USE DEF VoteInv
<1>1. (Agree' <=> Agree) /\ Best' = Best /\ (Gathered(digests)' <=> Gathered(digests))
  BY OnlyGathersCount DEF Save, gathers
<1>2. UNCHANGED <<env, digests, contents, tactics>>
  BY DEF Save, gathers
<1>3. /\ pc[r] = "save" /\ pc'[r] = "serve"
      /\ \A p \in Ranks \ {r} : pc'[p] = pc[p] /\ file'[p] = file[p]
      /\ file'[r] = [stamp |-> env[r], table |-> tactics[r]]
  BY DEF Save, Go, TypeOK
<1>4. ~Entering /\ ~Entering' /\ tactics[r] \in Tables
  BY <1>3 DEF EnterInv, Entering
<1>5. file'[r] \in Caches
  BY <1>3, <1>4, EnvironmentsOfRanks DEF Caches
<1>6. TypeOK'
  BY <1>3, <1>5 DEF TypeOK, Save, Go, Labels, gathers
<1>7. GatherInv'
  <2> SUFFICES ASSUME NEW p \in Ranks
               PROVE  /\ digests[p] = unposted <=> pc'[p] = "digest"
                      /\ pc'[p] \notin {"digest", "compare"} => Gathered(digests)
                      /\ pc'[p] \in {"save", "serve"}
    BY <1>1, <1>2 DEF GatherInv, Digests, Caches, Content
  <2> QED
    BY <1>3, <1>4 DEF GatherInv, Entering
<1>8. EnterInv'
  <2>1. \A p \in Ranks \ {r} : Loadable(p)' <=> Loadable(p)
    BY <1>2, <1>3 DEF Loadable, Caches
  <2> QED
    BY <1>2, <1>3, <1>4, <2>1 DEF EnterInv
<1>9. RepairInv'
  BY <1>5 DEF RepairInv, SomeReadable, Caches
<1> QED
  BY <1>6, <1>7, <1>8, <1>9

LEMMA RestartStep ==
    ASSUME VoteInv, Restart
    PROVE  VoteInv'
<1> USE DEF VoteInv
<1>1. /\ pc' = [r \in Ranks |-> "digest"] /\ env' \in FleetEnvs /\ file' = file
      /\ digests' = [r \in Ranks |-> unposted] /\ contents' = [r \in Ranks |-> unposted]
      /\ tactics' = [r \in Ranks |-> none]
  BY DEF Restart
<1>2. TypeOK'
  BY DEF TypeOK, Restart, Labels, Digests, Caches
<1>3. GatherInv'
  BY <1>1, ValuesDiffer DEF GatherInv, Digests
<1>4. EnterInv'
  <2>1. \A r \in Ranks : pc'[r] = "digest" /\ tactics'[r] = none
    BY <1>1
  <2> QED
    BY <2>1 DEF EnterInv, Entering
<1>5. RepairInv'
  BY <1>1 DEF RepairInv, SomeReadable, Caches
<1> QED
  BY <1>2, <1>3, <1>4, <1>5

LEMMA StutterVote ==
    ASSUME VoteInv, UNCHANGED vars
    PROVE  VoteInv'
<1> USE DEF VoteInv
<1>1. UNCHANGED <<pc, env, file, digests, contents, tactics, log, boots>>
  BY DEF vars, gathers
<1>2. (Agree' <=> Agree) /\ Best' = Best /\ (Gathered(digests)' <=> Gathered(digests))
  BY <1>1, OnlyGathersCount
<1>3. TypeOK'
  BY <1>1 DEF TypeOK, Labels, Digests, Caches
<1>4. GatherInv'
  BY <1>1, <1>2 DEF GatherInv, Digests, Caches, Content, Digest, Gathered
<1>5. EnterInv'
  <2>1. \A p \in Ranks : (Held(p)' <=> Held(p)) /\ (Loadable(p)' <=> Loadable(p))
    BY <1>1, <1>2 DEF Held, Loadable, Digest, Caches
  <2>2. Entering' <=> Entering
    BY <1>1 DEF Entering
  <2> QED
    BY <1>1, <2>1, <2>2 DEF EnterInv
<1>6. RepairInv'
  BY <1>1 DEF RepairInv, SomeReadable, Caches
<1> QED
  BY <1>3, <1>4, <1>5, <1>6

THEOREM VoteInvariant ==
    ASSUME Uniform
    PROVE  Spec => []VoteInv
<1>1. VoteInv /\ [Next]_vars => VoteInv'
  <2> SUFFICES ASSUME VoteInv, [Next]_vars
               PROVE  VoteInv'
    OBVIOUS
  <2>1. ASSUME NEW r \in Ranks, RankStep(r)
        PROVE  VoteInv'
    BY <2>1, PostDigestStep, CompareStep, VoteStep, FinishWriteStep, LoadStep, SaveStep
       DEF RankStep
  <2>2. CASE Profile
    BY <2>2, ProfileStep
  <2>3. CASE Restart
    BY <2>3, RestartStep
  <2>4. CASE UNCHANGED vars
    BY <2>4, StutterVote
  <2> QED
    BY <2>1, <2>2, <2>3, <2>4 DEF Next
<1> QED
  BY <1>1, InitVoteInv, PTL DEF Spec

-----------------------------------------------------------------------------
(* Whatever earlier boots left in the files, the gathers hold digests and  *)
(* contents, and a rank runs with a table or with none.                    *)
THEOREM TypeCorrect ==
    ASSUME Uniform
    PROVE  Spec => []TypeOK
<1>1. VoteInv => TypeOK
  BY DEF VoteInv
<1> QED
  BY <1>1, VoteInvariant, PTL

(* Ranks that have loaded or tuned run with the same tactics.              *)
THEOREM RanksAgree ==
    ASSUME Uniform
    PROVE  Spec => []SameCacheOrNone
<1>1. VoteInv => SameCacheOrNone
  <2> SUFFICES ASSUME VoteInv, NEW r \in Entered, NEW q \in Entered
               PROVE  tactics[r] = tactics[q]
    BY DEF SameCacheOrNone
  <2> USE DEF VoteInv
  <2>1. CASE ~Entering
    BY <2>1 DEF EnterInv, Entered
  <2>2. CASE Entering
    <3>1. \A p \in {r, q} :
             /\ p \in Ranks /\ Held(p) /\ Gathered(digests)
             /\ pc[p] = "serve" => Loadable(p) /\ tactics[p] = file[p].table
             /\ pc[p] # "serve" => ~Loadable(p) /\ tactics[p] = none
      BY <2>2 DEF EnterInv, GatherInv, Entered
    <3> QED
      BY <3>1, HoldersLoadTheSame
  <2> QED
    BY <2>1, <2>2
<1> QED
  BY <1>1, VoteInvariant, PTL

(* A write cut short by a boot that died is never loaded.                  *)
THEOREM TornCachesAreRepaired ==
    ASSUME Uniform
    PROVE  Spec => []NoTornLoad
<1>1. VoteInv => NoTornLoad
  <2> SUFFICES ASSUME VoteInv, NEW r \in Ranks, pc[r] = "load", file[r] = torn
               PROVE  FALSE
    BY DEF NoTornLoad
  <2> USE DEF VoteInv
  <2>1. Entering /\ Gathered(digests) /\ Held(r)
    BY DEF Entering, EnterInv, GatherInv
  <2>2. Digest(file[r], env[r]) = none /\ none \notin Digests
    BY ValuesDiffer DEF Digest, Digests
  <2>3. CASE ~Agree
    BY <2>1, <2>2, <2>3, WinnerIsBest DEF Held
  <2>4. CASE Agree
    <3>1. \A p \in Ranks : digests[p] = none
      BY <2>1, <2>2, <2>4 DEF Held, Agree
    <3>2. PICK p \in Ranks : file[p] \in Caches
      BY DEF RepairInv, SomeReadable
    <3>3. Digest(file[p], env[p]) # none
      BY <2>2, <3>2, DigestOfCache, EnvironmentsOfRanks
    <3>4. pc[p] # "digest" /\ pc[p] # "write" /\ pc[p] # "save"
      BY <2>1, <2>4 DEF GatherInv, EnterInv, Gathered
    <3>5. Digest(file[p], env[p]) = digests[p]
      BY <2>1, <2>4, <3>4 DEF GatherInv, EnterInv, Held, TypeOK, Labels
    <3> QED
      BY <3>1, <3>3, <3>5
  <2> QED
    BY <2>3, <2>4
<1> QED
  BY <1>1, VoteInvariant, PTL

(* The cold-start branch of the vote is dead code.                         *)
THEOREM NobodyDiscards ==
    ASSUME Uniform
    PROVE  Spec => []DiscardIsDead
<1>1. Init => DiscardIsDead
  BY DEF Init, DiscardIsDead
<1>2. VoteInv /\ DiscardIsDead /\ [Next]_vars => DiscardIsDead'
  <2> SUFFICES ASSUME VoteInv, DiscardIsDead, [Next]_vars
               PROVE  DiscardIsDead'
    OBVIOUS
  <2>1. ASSUME NEW r \in Ranks, Vote(r)
        PROVE  DiscardIsDead'
    <3>1. Cast # {}
      BY <2>1, VoteNeverDiscards DEF VoteInv
    <3> QED
      BY <2>1, <3>1 DEF Vote, DiscardIsDead
  <2>2. CASE log' \in {log, {}}
    BY <2>2 DEF DiscardIsDead
  <2> QED
    BY <2>1, <2>2 DEF Next, RankStep, PostDigest, Compare, FinishWrite, Load, Profile,
       Save, Restart, vars
<1> QED
  BY <1>1, <1>2, VoteInvariant, PTL DEF Spec

(* No step, the death of a boot included, takes the last readable cache.   *)
THEOREM ACopyIsKept ==
    ASSUME Uniform
    PROVE  Spec => ACopySurvives
<1>1. VoteInv /\ [Next]_vars => [SomeReadable => SomeReadable']_vars
  <2> SUFFICES ASSUME VoteInv, Next, SomeReadable
               PROVE  SomeReadable'
    OBVIOUS
  <2> USE DEF VoteInv
  <2>1. CASE file' = file
    BY <2>1 DEF SomeReadable, Caches
  <2>2. ASSUME NEW r \in Ranks, Vote(r), file' # file
        PROVE  SomeReadable'
    <3>1. pc[r] = "vote" /\ Digest(file[r], env[r]) # Best
      BY <2>2, VoteNeverDiscards DEF Vote
    <3>2. PICK q \in Ranks \ {r} : file[q] \in Caches
      BY <3>1, SomeoneElseHasIt
    <3>3. file'[q] = file[q]
      BY <2>2, VoteNeverDiscards, <3>2 DEF Vote, TypeOK
    <3> QED
      BY <3>2, <3>3 DEF SomeReadable, Caches
  <2>3. ASSUME NEW r \in Ranks, FinishWrite(r)
        PROVE  SomeReadable'
    <3>1. Best \in Digests /\ file' = [file EXCEPT ![r] = Best.file]
      BY <2>3, WinnerIsBest DEF FinishWrite, GatherInv
    <3> QED
      BY <3>1 DEF SomeReadable, Digests, Caches, TypeOK
  <2>4. ASSUME NEW r \in Ranks, Save(r)
        PROVE  SomeReadable'
    <3>1. tactics[r] \in Tables /\ env[r] \in Environments
      BY <2>4, EnvironmentsOfRanks DEF EnterInv, Save
    <3> QED
      BY <2>4, <3>1 DEF SomeReadable, Save, Caches, TypeOK
  <2> QED
    BY <2>1, <2>2, <2>3, <2>4
       DEF Next, RankStep, PostDigest, Compare, Load, Profile, Restart
<1> QED
  BY <1>1, VoteInvariant, PTL DEF Spec, ACopySurvives

(* A table that every rank holds is kept over later boots, as long as the  *)
(* environment stays.                                                      *)
THEOREM AdoptedTableSticks ==
    ASSUME Uniform
    PROVE  Spec => TableSticks
<1>1. VoteInv /\ [Next]_vars =>
        [\A t \in Tables : Settled(t) /\ env' = env => Settled(t)']_vars
  <2> SUFFICES ASSUME VoteInv, Next, NEW t \in Tables, Settled(t), env' = env
               PROVE  Settled(t)'
    OBVIOUS
  <2> USE DEF VoteInv
  <2>1. CASE file' = file
    BY <2>1 DEF Settled
  <2>2. \A r, q \in Ranks : Digest(file[r], env[r]) = Digest(file[q], env[q])
    BY DEF Settled, Uniform, TypeOK
  <2>3. ASSUME NEW r \in Ranks, Vote(r), file' # file
        PROVE  FALSE
    <3>1. pc[r] = "vote" /\ Digest(file[r], env[r]) # Best
      BY <2>3, VoteNeverDiscards DEF Vote
    <3> QED
      BY <2>2, <3>1, SomeoneElseHasIt
  <2>4. \A r \in Ranks : Loadable(r) /\ file[r] # torn
    <3>1. \A r \in Ranks : env[r] \in Environments
      BY EnvironmentsOfRanks
    <3>2. \A r \in Ranks : file[r].stamp = env[r] /\ file[r] \in Caches
      <4> SUFFICES ASSUME NEW r \in Ranks
                   PROVE  file[r].stamp = env[r] /\ file[r] \in Caches
        OBVIOUS
      <4>1. file[r] = [stamp |-> env[r], table |-> t]
        BY DEF Settled
      <4> QED
        BY <3>1, <4>1 DEF Caches
    <3>3. torn \notin Caches
      BY ValuesDiffer
    <3> QED
      BY <3>2, <3>3 DEF Loadable
  <2>5. ASSUME NEW r \in Ranks, FinishWrite(r)
        PROVE  FALSE
    BY <2>4, <2>5 DEF FinishWrite, GatherInv
  <2>6. ASSUME NEW r \in Ranks, Save(r)
        PROVE  FALSE
    BY <2>4, <2>6 DEF Save, EnterInv
  <2> QED
    BY <2>1, <2>3, <2>5, <2>6
       DEF Next, RankStep, PostDigest, Compare, Load, Profile, Restart
<1> QED
  BY <1>1, VoteInvariant, PTL DEF Spec, TableSticks


(* Both together: no boot, wherever it ends, costs the fleet its table.    *)
THEOREM CachesOutliveBoots ==
    ASSUME Uniform
    PROVE  Spec => CachesLast
<1> QED
  BY ACopyIsKept, AdoptedTableSticks DEF CachesLast
=============================================================================
