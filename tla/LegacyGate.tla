----------------------------- MODULE LegacyGate -----------------------------
(***************************************************************************)
(* `review validate` of a receipt of schema v1: BuildNativeGateRequest and *)
(* EvaluateNativeGate (native_request.go, gate.go).                        *)
(*                                                                         *)
(* A request says what is to be published, from which advertised branch    *)
(* and to which repository.  It is built from the live repository, or read *)
(* from the file an earlier validation saved.  The validator derives all   *)
(* of it anew before its verdict, and once more before it allows.  It      *)
(* takes no lock: the chain of a finished v1 review does not grow.         *)
(*                                                                         *)
(* Meanwhile files are edited, commits come and go, branches advance and   *)
(* the configuration of the remotes changes.  One reading of the           *)
(* repository is atomic, and a commit is told by the trees up to it.       *)
(***************************************************************************)
EXTENDS Naturals, FiniteSets, Sequences, SequencesExt

CONSTANTS
    Reviews,    \* finished reviews: [lineage, terminal, kind, base, final, paths, release]
    TreePaths, Edits,   \* the paths, and trees the working tree is edited to
    Remotes, Places, Url,   \* remotes, the repositories they may name and do at first
    Branches,  \* what the branch may hold when a behaviour begins
    MaxCommits, MaxMoves    \* bounds of the model

ASSUME ReviewsAssumption == \A review \in Reviews : review.terminal \in {"approved", "escalated"}

VARIABLES
    repo,       \* the repository, its configuration and what its remotes advertise
    moves,      \* how often that has changed
    policy,     \* does the policy file hold what the receipt is bound to?
    saved,      \* the request that --request-out wrote
    validator

gateState == <<repo, moves, policy, saved, validator>>

None == "none"
Gates == {"post-apply", "pre-commit", "pre-push", "pre-pr", "release"}
OfWorktree == {"post-apply", "pre-commit"}
Changed(a, b) == {p \in TreePaths : a[p] # b[p]}

-----------------------------------------------------------------------------
(* What git says.                                                          *)

HeadTree == Last(repo.commits)
UpTo(i) == SubSeq(repo.commits, 1, i)
OrNone(x) == {x} \ {None}

(* publicationRemote, at most one.                                         *)
PublicationRemote ==
    CASE repo.pushDefault # None -> {repo.pushDefault}
      [] repo.pushDefault = None /\ repo.onBranch /\ repo.upstream # None -> {repo.upstream}
      [] OTHER -> {r \in Remotes : r = "origin" /\ repo.url[r] # None}

PushIdentity(r) == IF repo.pushUrl[r] # None THEN {repo.pushUrl[r]} ELSE OrNone(repo.url[r])
Destination == UNION {{<<r, place>> : place \in PushIdentity(r)} : r \in PublicationRemote}

Boundary(r) == [remote |-> r, place |-> repo.url[r], tip |-> repo.hosted[repo.url[r]]]

(* The branch as the remote advertises it: its commit has been fetched,    *)
(* and has one merge base with HEAD.                                       *)
Advertised(remotes) ==
    {b \in {Boundary(r) : r \in {x \in remotes : repo.url[x] # None}} :
        b.tip.fetched /\ b.tip.fork > 0}

(* --base-ref names a branch of one remote, or of whichever has it.        *)
Selectors == Remotes \cup {"default", "any"}
Explicit(selector) ==
    LET matches == {r \in Remotes : repo.url[r] # None /\ selector \in {r, "any"}}
    IN  IF Cardinality(matches) = 1 THEN matches ELSE {}

Selected(g, selector) ==
    CASE selector # "default" -> Advertised(Explicit(selector))
      [] selector = "default" /\ g = "pre-pr" -> Advertised(PublicationRemote)
      [] selector = "default" /\ g = "pre-push" ->
             Advertised(IF repo.onBranch THEN OrNone(repo.upstream) ELSE {})

(* reviewedDeliveryBase: the one commit to be published, or their base,    *)
(* that has the reviewed base tree, with one commit on top.  A corrected   *)
(* review has another snapshot, and its delivery starts at the merge base. *)
DeliveryBases(review, fork) ==
    IF review.kind # "current-changes" THEN {fork}
    ELSE LET bases == {i \in fork .. Len(repo.commits) : repo.commits[i] = review.base}
         IN  {i \in bases : bases = {i} /\ Len(repo.commits) - i = 1}

(* What a request binds: buildPushTarget, buildPrePRTarget, or HEAD.       *)
Publication(g, review, selector) ==
    CASE g \in OfWorktree -> {<<>>}
      [] g = "pre-push" ->
             UNION {{[boundary |-> b, destination |-> d, mergeBase |-> UpTo(b.tip.fork),
                      base |-> UpTo(i)] : d \in Destination,
                                          i \in DeliveryBases(review, b.tip.fork)} :
                    b \in Selected(g, selector)}
      [] g = "pre-pr" -> {[boundary |-> b, destination |-> d] :
                             b \in Selected(g, selector), d \in Destination}
      [] g = "release" -> {repo.commits}

(* Faulty: where a pull request goes is not looked up again.               *)
StandsAnywhere(request, review) ==
    \E now \in Publication(request.gate, review, request.selector) :
        \/ now = request.publication
        \/ request.gate = "pre-pr" /\ now.boundary = request.publication.boundary

(* What the request binds is what the repository says now.                 *)
Stands(request, review) ==
    request.publication \in Publication(request.gate, review, request.selector)

(* buildLifecycleSnapshot, at most one.                                    *)
Derived(request, review) ==
    LET g == request.gate
        Target(base, tree) ==
            [base |-> base, tree |-> tree, paths |-> Changed(base, tree), head |-> <<>>]
        AtHead(base) == [Target(base, HeadTree) EXCEPT !.head = repo.commits]
        n == Len(repo.commits)
    IN  CASE ~ Stands(request, review) -> {}
          [] Stands(request, review) /\ g \in OfWorktree -> {Target(HeadTree, repo.worktree)}
          [] Stands(request, review) /\ g = "pre-push" ->
                 {t \in {AtHead(Last(request.publication.base))} :
                     /\ n > Len(request.publication.base)
                     /\ review.kind = "current-changes" => t.base # t.tree}
          [] Stands(request, review) /\ g = "pre-pr" ->
                 {AtHead(request.publication.boundary.tip.tree)}
          [] Stands(request, review) /\ g = "release" ->
                 {Target(repo.commits[i], HeadTree) : i \in {n - 1} \ {0}}

-----------------------------------------------------------------------------
(* The verdict.                                                            *)

Merged(target, base) ==
    [p \in TreePaths |-> IF target.tree[p] # base[p] THEN target.tree[p] ELSE target.base[p]]

(* deriveBaseAdvanceCompatibility: the policy the receipt is bound to      *)
(* names the issuer that attested the merged tree.                         *)
CompatibleAdvance(request, review, target) ==
    /\ request.gate = "pre-pr" /\ target.base # review.base
    /\ Last(UpTo(request.publication.boundary.tip.fork)) = review.base
    /\ Changed(review.base, review.final) = review.paths /\ target.tree = review.final
    /\ review.paths \cap Changed(review.base, target.base) = {}
    /\ request.policy /\ request.attested = {Merged(target, review.base)}

(* What the files that a request names hold now, and what the evidence of  *)
(* a release is about.                                                     *)
Preimages == policy
ReleaseEvidence(target) == {target.tree}

(* validateDerivedGate, for a receipt that is the authority's own.         *)
Verdict(request, review, target, read) ==
    LET compatible == CompatibleAdvance(request, review, target)
        inScope == target.tree = review.final /\ target.paths = review.paths
        bound == /\ target.base = review.base \/ compatible
                 /\ request.policy => read
                 /\ request.gate = "release" => review.release = ReleaseEvidence(target)
    IN  CASE review.terminal = "escalated" -> "escalated"
          [] review.terminal # "escalated" /\ ~ inScope /\ ~ compatible -> "scope-changed"
          [] OTHER -> IF bound THEN "allow" ELSE "invalidated"

-----------------------------------------------------------------------------
(* The validator.                                                          *)

Idle == [pc |-> "idle"]
Goes(local) == validator' = local /\ UNCHANGED <<repo, moves, policy>>
ReviewOf(lineage) == CHOOSE review \in Reviews : review.lineage = lineage

Deny == Goes(Idle)

(* A native request; the files it names are read now.  A receipt of a      *)
(* lineage whose chain is not the requested one is denied at once.  A      *)
(* behaviour follows one saved request, which is a bound of the model.     *)
Build ==
    /\ validator = Idle /\ saved = {}
    /\ \E review \in Reviews, g \in Gates, selector \in Selectors,
          named \in BOOLEAN, attested \in {{}} \cup {{t} : t \in Edits}, out \in BOOLEAN :
          /\ g \notin {"pre-push", "pre-pr"} => selector = "default"
          /\ g # "pre-pr" \/ ~ named => attested = {}
          /\ \E publication \in Publication(g, review, selector) :
                LET request == [gate |-> g, lineage |-> review.lineage, selector |-> selector,
                                policy |-> named, attested |-> attested,
                                publication |-> publication]
                IN  /\ Goes([pc |-> "requested", request |-> request, read |-> Preimages])
                    /\ saved' = IF out THEN {request} ELSE {}

(* --request: the files are read later.                                    *)
Load ==
    /\ validator = Idle
    /\ \E request \in saved :
          Goes([pc |-> "requested", request |-> request, read |-> Preimages])
    /\ UNCHANGED saved

Decide ==
    /\ validator.pc = "requested"
    /\ LET request == validator.request
           review == ReviewOf(request.lineage)
           allowed == {t \in Derived(request, review) :
                          Verdict(request, review, t, validator.read) = "allow"}
       IN  \/ \E target \in allowed :
                  Goes([pc |-> "decided", request |-> request, target |-> target])
           \/ allowed = {} /\ Deny
    /\ UNCHANGED saved

Authorize ==
    /\ validator.pc = "decided"
    /\ IF validator.target \in Derived(validator.request, ReviewOf(validator.request.lineage))
       THEN Goes([validator EXCEPT !.pc = "allowed"])
       ELSE Deny
    /\ UNCHANGED saved

Return == validator.pc = "allowed" /\ Goes(Idle) /\ UNCHANGED saved

-----------------------------------------------------------------------------
(* The repository.                                                         *)

Moves(now) ==
    /\ moves < MaxMoves /\ moves' = moves + 1
    /\ repo' = now /\ repo' # repo
    /\ UNCHANGED <<policy, saved, validator>>

Edit == \E tree \in Edits : Moves([repo EXCEPT !.worktree = tree])

Commit ==
    /\ Len(repo.commits) < MaxCommits
    /\ Moves([repo EXCEPT !.commits = Append(@, repo.worktree)])

(* git reset --soft HEAD~1; a branch that held the commit now forks below. *)
Uncommit ==
    /\ Len(repo.commits) > 1
    /\ Moves([repo EXCEPT
          !.commits = Front(@),
          !.hosted = [place \in Places |->
              IF @[place].fork < Len(repo.commits) THEN @[place]
              ELSE [@[place] EXCEPT !.fork = Len(repo.commits) - 1]]])

(* Others push, to be fetched or not; a fetch of what is known.            *)
Advance ==
    \E place \in Places, tree \in Edits, fetched \in BOOLEAN :
        Moves([repo EXCEPT !.hosted[place] = [@ EXCEPT !.tree = tree, !.fetched = fetched]])

(* git remote set-url, set-url --push, git config, git switch.             *)
Configure ==
    \/ \E r \in Remotes, place \in Places \cup {None} :
          \/ Moves([repo EXCEPT !.url[r] = place])
          \/ Moves([repo EXCEPT !.pushUrl[r] = place])
    \/ \E r \in Remotes \cup {None} :
          \/ Moves([repo EXCEPT !.pushDefault = r])
          \/ Moves([repo EXCEPT !.upstream = r])
    \/ Moves([repo EXCEPT !.onBranch = ~ @])

RewritePolicy ==
    /\ moves < MaxMoves /\ moves' = moves + 1
    /\ policy' = ~ policy
    /\ UNCHANGED <<repo, saved, validator>>

-----------------------------------------------------------------------------
(* A clean checkout, on top of the branch at every place.                  *)
GateInit ==
    /\ moves = 0 /\ policy = TRUE /\ saved = {} /\ validator = Idle
    /\ \E history \in Branches, upstream \in Remotes \cup {None} :
          repo = [commits |-> history, worktree |-> Last(history),
                  hosted |-> [x \in Places |->
                                 [fork |-> 1, tree |-> history[1], fetched |-> TRUE]],
                  url |-> Url, pushUrl |-> [r \in Remotes |-> None],
                  pushDefault |-> None, upstream |-> upstream, onBranch |-> TRUE]

Validate == Build \/ Load \/ Decide \/ Authorize \/ Return

GateNext ==
    \/ Validate
    \/ Edit \/ Commit \/ Uncommit \/ Advance \/ Configure \/ RewritePolicy

GateSpec == GateInit /\ [][GateNext]_gateState

-----------------------------------------------------------------------------
(* Properties.                                                             *)

(* From which tree to which an allowed event takes what it publishes to.   *)
Event(request) ==
    LET g == request.gate
        n == Len(repo.commits)
        boundary == request.publication.boundary
    IN  CASE g \in OfWorktree -> <<HeadTree, repo.worktree>>
          [] g = "release" -> <<repo.commits[n - 1], HeadTree>>
          [] g = "pre-push" -> <<Last(request.publication.base), HeadTree>>
          [] g = "pre-pr" ->
                 <<boundary.tip.tree,
                   Merged([tree |-> HeadTree, base |-> boundary.tip.tree],
                          Last(UpTo(boundary.tip.fork)))>>

(* At the instant it is allowed, whatever changed while it was validated   *)
(* and since its request was saved, an event carries the reviewed paths,   *)
(* and only those, from their reviewed to their final contents; and what   *)
(* is pushed or proposed still goes where the request said, from the       *)
(* branch that is advertised there.  As in CompactGate, a pull request     *)
(* that does not fork from the reviewed base is left out.                  *)
AllowIsReviewed ==
    [][validator.pc = "decided" /\ validator'.pc = "allowed" =>
          LET request == validator.request
              review == ReviewOf(request.lineage)
              event == Event(request)
          IN  /\ review.terminal = "approved"
              /\ request.gate \in {"pre-push", "pre-pr"} =>
                    /\ request.publication.destination \in Destination
                    /\ request.publication.boundary \in Selected(request.gate, request.selector)
              /\ (request.gate = "pre-pr"
                  => Last(UpTo(request.publication.boundary.tip.fork)) = review.base)
                 => /\ Changed(event[1], event[2]) = review.paths
                    /\ \A p \in review.paths :
                          event[1][p] = review.base[p] /\ event[2][p] = review.final[p]]_gateState
=============================================================================
