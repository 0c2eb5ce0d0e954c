----------------------------- MODULE AutotuneVote -----------------------------
(***************************************************************************)
(* How the ranks of a fleet come to one table of tuned tactics at a boot:  *)
(* _drop_diverged_autotune_cache and flashinfer_autotune_context of        *)
(* sglang-overlay/flashinfer_autotune.py, with FlashInfer's autotuner (the *)
(* load, the collective profiling and the save) modelled from its use.     *)
(*                                                                         *)
(* Each rank has a cache file of its own, which outlives the boot; the     *)
(* ranks talk in two all_gather_object calls only.  A boot can end at any  *)
(* point, also in the middle of a write, and the next one may find another *)
(* environment (driver and library versions) on the nodes.                 *)
(***************************************************************************)
EXTENDS Naturals, FiniteSets

CONSTANTS
    Ranks,         (* the ranks of sync_group                              *)
    Environments,  (* values of _collect_metadata()                        *)
    FleetEnvs,     (* the environments that ranks can have together        *)
    Tables,        (* tuned tactics, all that a cache file is about        *)
    MaxBoots,      (* bound                                                *)
    none,          (* no file, no table, or the empty digest               *)
    torn,          (* a file that json.loads refuses                       *)
    unposted       (* a rank's place in a gather it has not reached        *)

ASSUME VoteAssumption ==
    /\ IsFiniteSet(Ranks)
    /\ FleetEnvs \subseteq [Ranks -> Environments]
    /\ MaxBoots \in Nat

VARIABLES
    pc, env,
    file,       (* cache_path of each rank                                 *)
    digests,    (* the first gather                                        *)
    contents,   (* the second gather                                       *)
    tactics,    (* the table a rank runs with, once it loaded or tuned one *)
    log,        (* which of the two verdicts rank 0 logged                 *)
    boots

gathers == <<digests, contents>>
vars == <<pc, env, file, gathers, tactics, log, boots>>

Caches == [stamp : Environments, table : Tables]

ASSUME ValuesDiffer ==
    /\ none # torn /\ none # unposted
    /\ {none, torn, unposted} \cap Caches = {}
    /\ {none, torn} \cap Tables = {}
    /\ {none, unposted} \cap [file : Caches, env : Environments] = {}

(* _autotune_cache_digest.                                                 *)
Digest(f, e) == IF f \in Caches THEN [file |-> f, env |-> e] ELSE none

Go(r, label) == pc' = [pc EXCEPT ![r] = label]

Init ==
    /\ pc = [r \in Ranks |-> "digest"]
    /\ env \in FleetEnvs
    /\ file \in [Ranks -> Caches \cup {none}]
    /\ digests = [r \in Ranks |-> unposted]
    /\ contents = [r \in Ranks |-> unposted]
    /\ tactics = [r \in Ranks |-> none]
    /\ log = {} /\ boots = 1

-----------------------------------------------------------------------------
(* _drop_diverged_autotune_cache.                                          *)

Gathered(gather) == \A r \in Ranks : gather[r] # unposted

PostDigest(r) ==
    /\ pc[r] = "digest"
    /\ digests' = [digests EXCEPT ![r] = Digest(file[r], env[r])]
    /\ Go(r, "compare")
    /\ UNCHANGED <<env, file, contents, tactics, log, boots>>

Agree == \A r, q \in Ranks : digests[r] = digests[q]

Compare(r) ==
    /\ pc[r] = "compare" /\ Gathered(digests)
    /\ IF Agree
       THEN Go(r, "load") /\ UNCHANGED contents
       ELSE /\ contents' = [contents EXCEPT ![r] = IF file[r] \in Caches
                                                   THEN file[r] ELSE none]
            /\ Go(r, "vote")
    /\ UNCHANGED <<env, file, digests, tactics, log, boots>>

(* The most common digest; the same one on every rank if several are.      *)
Cast == {digests[r] : r \in Ranks} \ {none}
Votes(d) == Cardinality({r \in Ranks : digests[r] = d})
Best == CHOOSE d \in Cast : \A c \in Cast : Votes(c) <= Votes(d)
Winner == contents[CHOOSE r \in Ranks : digests[r] = Best]

(* Mutants: a rank keeps its own cache if no other has more votes; every   *)
(* rank writes the winner, also those that hold it.                        *)
Vote_PrefersOwn(r) ==
    /\ pc[r] = "vote" /\ Gathered(contents)
    /\ IF digests[r] \in Cast /\ \A c \in Cast : Votes(c) <= Votes(digests[r])
       THEN Go(r, "load") /\ UNCHANGED file
       ELSE file' = [file EXCEPT ![r] = torn] /\ Go(r, "write")
    /\ log' = log \cup {"pinned"}
    /\ UNCHANGED <<env, gathers, tactics, boots>>
Vote_EveryoneWrites(r) ==
    /\ pc[r] = "vote" /\ Gathered(contents)
    /\ file' = [file EXCEPT ![r] = torn] /\ Go(r, "write")
    /\ log' = log \cup {"pinned"}
    /\ UNCHANGED <<env, gathers, tactics, boots>>

(* write_text truncates the file and then fills it.                        *)
Vote(r) ==
    /\ pc[r] = "vote" /\ Gathered(contents)
    /\ IF Cast # {}
       THEN /\ IF Digest(file[r], env[r]) = Best
               THEN Go(r, "load") /\ UNCHANGED file
               ELSE file' = [file EXCEPT ![r] = torn] /\ Go(r, "write")
            /\ log' = log \cup {"pinned"}
       ELSE /\ file' = [file EXCEPT ![r] = none] /\ Go(r, "load")
            /\ log' = log \cup {"scratch"}
    /\ UNCHANGED <<env, gathers, tactics, boots>>

(* Mutant: the winner's digest is written, and not what it is about.       *)
FinishWrite_Digest(r) ==
    /\ pc[r] = "write"
    /\ file' = [file EXCEPT ![r] = Best]
    /\ Go(r, "load")
    /\ UNCHANGED <<env, gathers, tactics, log, boots>>

FinishWrite(r) ==
    /\ pc[r] = "write"
    /\ file' = [file EXCEPT ![r] = Winner]
    /\ Go(r, "load")
    /\ UNCHANGED <<env, gathers, tactics, log, boots>>

-----------------------------------------------------------------------------
(* FlashInfer's autotune(), entered with the cache.                        *)

Loadable(r) == file[r] \in Caches /\ file[r].stamp = env[r]

(* load_configs ignores a file whose stamp is of another environment.  A   *)
(* cache hit skips the profile.                                            *)
Load(r) ==
    /\ pc[r] = "load"
    /\ IF Loadable(r)
       THEN tactics' = [tactics EXCEPT ![r] = file[r].table] /\ Go(r, "serve")
       ELSE Go(r, "profile") /\ UNCHANGED tactics
    /\ UNCHANGED <<env, file, gathers, log, boots>>

(* The timings are all-reduced over sync_group: nobody gets a tactic until *)
(* every rank profiles it, and then all get the same.                      *)
Profile ==
    /\ \A r \in Ranks : pc[r] = "profile"
    /\ \E t \in Tables : tactics' = [r \in Ranks |-> t]
    /\ pc' = [r \in Ranks |-> "save"]
    /\ UNCHANGED <<env, file, gathers, log, boots>>

Save(r) ==
    /\ pc[r] = "save"
    /\ file' = [file EXCEPT ![r] = [stamp |-> env[r], table |-> tactics[r]]]
    /\ Go(r, "serve")
    /\ UNCHANGED <<env, gathers, tactics, log, boots>>

(* The fleet goes down, in service or at any point of the boot, and is     *)
(* booted again.                                                           *)
Restart ==
    /\ boots < MaxBoots
    /\ boots' = boots + 1
    /\ pc' = [r \in Ranks |-> "digest"]
    /\ env' \in FleetEnvs
    /\ digests' = [r \in Ranks |-> unposted]
    /\ contents' = [r \in Ranks |-> unposted]
    /\ tactics' = [r \in Ranks |-> none]
    /\ log' = {}
    /\ UNCHANGED file

-----------------------------------------------------------------------------
RankStep(r) ==
    \/ PostDigest(r) \/ Compare(r) \/ Vote(r) \/ FinishWrite(r)
    \/ Load(r) \/ Save(r)

Next == (\E r \in Ranks : RankStep(r)) \/ Profile \/ Restart

Spec == Init /\ [][Next]_vars

(* Ranks that run keep running.                                            *)
FairSpec == Spec /\ (\A r \in Ranks : WF_vars(RankStep(r))) /\ WF_vars(Profile)

-----------------------------------------------------------------------------
Labels == {"digest", "compare", "vote", "write", "load", "profile", "save", "serve"}
Digests == [file : Caches, env : Environments]

TypeOK ==
    /\ pc \in [Ranks -> Labels]
    /\ env \in FleetEnvs
    /\ file \in [Ranks -> Caches \cup {none, torn}]
    /\ digests \in [Ranks -> Digests \cup {none, unposted}]
    /\ contents \in [Ranks -> Caches \cup {none, unposted}]
    /\ tactics \in [Ranks -> Tables \cup {none}]
    /\ log \subseteq {"pinned", "scratch"}
    /\ boots \in Nat

(* "Enter tuning with the same cache on every rank, or with none at all"   *)
(* (line 231), and leave it with the same tactics: ranks that have loaded, *)
(* or that have tuned, never differ.                                       *)
Entered == {r \in Ranks : pc[r] \in {"profile", "save", "serve"}}
SameCacheOrNone == \A r, q \in Entered : tactics[r] = tactics[q]

(* No rank ever loads a half-written cache, whenever the boots before died.*)
NoTornLoad == \A r \in Ranks : pc[r] = "load" => file[r] # torn

(* Adoption never costs the fleet its last readable cache.                 *)
SomeReadable == \E r \in Ranks : file[r] \in Caches
ACopySurvives == [][SomeReadable => SomeReadable']_vars

(* Once every rank holds one table of the present environment it stays,    *)
(* over all later boots, until the environment changes.                    *)
Settled(t) == \A r \in Ranks : file[r] = [stamp |-> env[r], table |-> t]
TableSticks ==
    [][\A t \in Tables : Settled(t) /\ env' = env => Settled(t)']_vars

(* Neither a boot nor its death costs the fleet what it has tuned.         *)
CachesLast == ACopySurvives /\ TableSticks

(* A boot that is left alone ends with every rank in service: no rank      *)
(* waits in the all-reduce for one that has skipped it.                    *)
BootEnds == <>[](\A r \in Ranks : pc[r] = "serve")

(* The discard of lines 279-283 never happens: ranks that disagree have a  *)
(* cache among them, and a fleet without any agrees.  A cold start does    *)
(* not log that it tunes from scratch, as lines 248-249 have it.           *)
DiscardIsDead == "scratch" \notin log

(* What the log line says (lines 272-276; scripts/boot-signature.sh:152):  *)
(* where the vote adopted a table there is no re-tune lottery.             *)
NoRetuneLottery == "pinned" \in log => \A r \in Ranks : pc[r] # "profile"
=============================================================================
