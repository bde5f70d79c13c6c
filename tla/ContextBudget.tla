---------------------------- MODULE ContextBudget ----------------------------
(***************************************************************************)
(* What one attempt gets to see: ContextManager.build and compress         *)
(* (airvis/context/manager.py) as the orchestrator calls them, that is,    *)
(* without a history and without results of tools.  A text is its length,  *)
(* in hundreds of characters; an artifact or a memory counts as one.       *)
(* System prompt, task, review notes and headings, which are never         *)
(* shortened, are one length.                                              *)
(***************************************************************************)
EXTENDS Naturals, Sequences, SequencesExt

CONSTANTS
  MaxChars,        \* context.max_chars
  MaxResults,      \* context.max_previous_results
  Bundles          \* what there is to see: [fixed, workspace, memories,
                   \*   results (lengths, oldest first), artifacts, request]

ASSUME ContextAssumption ==
  /\ MaxChars \in Nat /\ MaxResults \in Nat
  /\ Bundles \subseteq [fixed : Nat, workspace : Nat, memories : Nat,
                        results : Seq(Nat), artifacts : Nat, request : Nat]

VARIABLES
  given,    \* what build() was called with
  bundle,   \* what it assembles: results are pairs <<place, length>>
  stage     \* 0, then the number of the next reduction, then Built

Built == 6

contextVars == <<given, bundle, stage>>

Empty == [fixed |-> 0, workspace |-> 0, memories |-> 0, results |-> <<>>,
          artifacts |-> 0, request |-> 0]

ContextInit == given = Empty /\ bundle = Empty /\ stage = 0

Mark   == 1                       \* the mark of a truncation, rounded up
Budget == Max({10, MaxChars})

Shorten(length, limit) == IF length <= limit THEN length ELSE limit + Mark

(* How many elements xs[-n:] has: none are cut off for n = 0.               *)
LastFew(n, length) == IF n = 0 THEN length ELSE Min({n, length})

Newest(seq, n) == SubSeq(seq, Len(seq) - LastFew(n, Len(seq)) + 1, Len(seq))

(* to_messages renders no more than 800 characters of a result.             *)
Size(b) ==
  b.fixed + b.workspace + b.memories + b.artifacts + b.request
    + FoldSeq(LAMBDA r, sum : sum + Shorten(r[2], 8), 0, b.results)

Build ==
  /\ stage = 0
  /\ \E have \in Bundles :
       /\ given' = have
       /\ bundle' = [have EXCEPT
            !.results   = Newest([k \in DOMAIN have.results |-> <<k, have.results[k]>>],
                                 MaxResults),
            !.artifacts = Min({have.artifacts, 20}),
            !.memories  = Min({have.memories, 5})]
  /\ stage' = 1

Shortened(results) ==
  LET limit == Max({2, Budget \div Max({1, Len(results) * 3})})
  IN [k \in DOMAIN results |-> <<results[k][1], Shorten(results[k][2], limit)>>]

(* Mutant of the next: the oldest results are kept.                         *)
ReducedOldest(k, b) ==
  CASE k = 1 -> [b EXCEPT !.artifacts = Min({@, 8})]
    [] k = 2 -> [b EXCEPT !.results = Shortened(@)]
    [] k = 3 -> [b EXCEPT !.results = SubSeq(@, 1, Min({2, Len(@)}))]
    [] k = 4 -> [b EXCEPT !.memories = 0, !.workspace = Shorten(@, 4)]
    [] k = 5 -> [b EXCEPT !.request = Shorten(@, 10)]

(* The reductions, the cheapest first.                                      *)
Reduced(k, b) ==
  CASE k = 1 -> [b EXCEPT !.artifacts = Min({@, 8})]
    [] k = 2 -> [b EXCEPT !.results = Shortened(@)]
    [] k = 3 -> [b EXCEPT !.results = Newest(@, 2)]
    [] k = 4 -> [b EXCEPT !.memories = 0, !.workspace = Shorten(@, 4)]
    [] k = 5 -> [b EXCEPT !.request = Shorten(@, 10)]

Compress ==
  /\ stage \in 1 .. Built - 1
  /\ bundle' = IF Size(bundle) > Budget THEN Reduced(stage, bundle) ELSE bundle
  /\ stage' = stage + 1
  /\ UNCHANGED given

ContextNext == Build \/ Compress

-----------------------------------------------------------------------------
(***************************************************************************)
(* What the reductions cost is as small as they can make it: the newest    *)
(* results are always among those that are shown, nothing is given up      *)
(* unless all that is cheaper has been, and a bundle that is still too     *)
(* large has nothing left that the code would give up.                     *)
(***************************************************************************)
Places(b) == {b.results[k][1] : k \in DOMAIN b.results}

FewArtifacts == bundle.artifacts <= 8
FewResults   == Len(bundle.results) <= 2
FewFacts     == bundle.memories = 0 /\ bundle.workspace <= 4 + Mark

ContextReduced ==
  stage = Built =>
    LET n     == Len(given.results)
        shown == LastFew(MaxResults, n)
    IN /\ Places(bundle) = n - Len(bundle.results) + 1 .. n
       /\ Len(bundle.results) >= Min({2, shown})
       /\ Len(bundle.results) < shown => FewArtifacts
       /\ bundle.memories < Min({5, given.memories}) => FewArtifacts /\ FewResults
       /\ bundle.request < given.request => FewArtifacts /\ FewResults /\ FewFacts
       /\ Size(bundle) > Budget =>
            FewArtifacts /\ FewResults /\ FewFacts /\ bundle.request <= 10 + Mark
=============================================================================
