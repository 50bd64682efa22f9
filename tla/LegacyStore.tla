----------------------------- MODULE LegacyStore -----------------------------
(***************************************************************************)
(* The event chain that holds a v1 transaction (reviewtransaction/store.go *)
(* and bundle.go): an event is named by its content, the predecessor's     *)
(* name included, so that a revision is modelled by the whole history it   *)
(* ends; HEAD names the last event.  Sessions of an earlier version append *)
(* the steps of a review; the current one invalidates, and carries a chain *)
(* from one clone to another in a bundle.  Any of them may be killed.      *)
(***************************************************************************)
EXTENDS LegacyTransaction

CONSTANTS Clones, Sessions, MaxEvents   \* MaxEvents bounds a chain

VARIABLES
    events,    \* per clone, the revisions whose event is on disk
    head,      \* per clone, the revision in HEAD, <<>> before there is one
    bundle,    \* the chain in the bundle last exported
    session    \* per session, what it does

chainVars == <<events, head, bundle, session>>

NoSession == [pc |-> "idle"]

ChainInit ==
    /\ events = [c \in Clones |-> {}] /\ head = [c \in Clones |-> <<>>]
    /\ bundle = <<>> /\ session = [s \in Sessions |-> NoSession]

At(s, pc) == session[s].pc = pc
Go(s, next) == session' = [session EXCEPT ![s] = next]

(* LOCK is the operating system's, and is free once its holder is gone.    *)
Locking(c) == {s \in Sessions : session[s].pc \in {"linked", "installing"} /\ session[s].clone = c}
LockFree(c) == Locking(c) = {}

Histories(chain) == Prefixes(chain) \ {<<>>}

(* loadChain: every event back to the genesis is there, and each succeeds  *)
(* the one before.                                                         *)
Loads(c, chain) ==
    /\ Histories(chain) \subseteq events[c]
    /\ chain[1] = <<"start", Started(chain[1][2].start)>>
    /\ \A i \in 2 .. Len(chain) :
          SucceedsAsPersisted(chain[i - 1][2], chain[i][2], chain[i][1])

Current(chain) == Last(chain)[2]

-----------------------------------------------------------------------------
(* A session reads the chain without the lock, and works out the event     *)
(* that it will append; the current program only invalidates.              *)
Prepare(s, c) ==
    /\ At(s, "idle") /\ Len(head[c]) < MaxEvents
    /\ \E next \in IF head[c] = <<>> THEN {<<"start", Started(start)>> : start \in Starts}
                   ELSE {step \in Steps(Current(head[c])) : Validates(step[2])} :
          Go(s, [pc |-> "ready", clone |-> c, expected |-> head[c],
                 goal |-> Append(head[c], next)])
    /\ UNCHANGED <<events, head, bundle>>

(* Faulty: the compare is left to the load before the lock.                *)
MayLinkLoaded(s) ==
    LET c == session[s].clone
    IN  At(s, "ready") /\ LockFree(c) /\ head[c] # session[s].goal

(* append, under the lock: HEAD is compared with what was expected.  An    *)
(* event that was linked before a crash is found again.                    *)
MayLink(s) ==
    LET c == session[s].clone
    IN  At(s, "ready") /\ LockFree(c) /\ head[c] = session[s].expected

LinkEvent(s) ==
    /\ MayLink(s)
    /\ LET c == session[s].clone
           goal == session[s].goal
       IN  /\ Len(goal) > 1 => SucceedsAsPersisted(Current(head[c]), Current(goal), Last(goal)[1])
           /\ events' = [events EXCEPT ![c] = @ \cup {goal}]
    /\ Go(s, [session[s] EXCEPT !.pc = "linked"])
    /\ UNCHANGED <<head, bundle>>

(* installBundle installs the events in order; an empty clone only.        *)
StartImport(s, c) ==
    /\ At(s, "idle") /\ LockFree(c) /\ head[c] = <<>>
    /\ bundle # <<>>
    /\ Go(s, [pc |-> "installing", clone |-> c, expected |-> <<>>, goal |-> bundle])
    /\ UNCHANGED <<events, head, bundle>>

InstallEvent(s) ==
    /\ At(s, "installing")
    /\ LET c == session[s].clone
       IN  \E chain \in Histories(session[s].goal) \ events[c] :
              /\ Histories(chain) \ {chain} \subseteq events[c]
              /\ events' = [events EXCEPT ![c] = @ \cup {chain}]
    /\ UNCHANGED <<head, bundle, session>>

MaySetHead(s) ==
    \/ At(s, "linked")
    \/ At(s, "installing") /\ Histories(session[s].goal) \subseteq events[session[s].clone]

SetHead(s) ==
    /\ MaySetHead(s)
    /\ head' = [head EXCEPT ![session[s].clone] = session[s].goal]
    /\ Go(s, NoSession)
    /\ UNCHANGED <<events, bundle>>

(* A session that is refused, finds that its chain is there already, fails *)
(* or is killed.                                                           *)
GiveUp(s) ==
    /\ ~At(s, "idle") /\ Go(s, NoSession)
    /\ UNCHANGED <<events, head, bundle>>

ExportBundle(c) ==
    /\ head[c] # <<>> /\ Loads(c, head[c])
    /\ bundle' = head[c]
    /\ UNCHANGED <<events, head, session>>

ChainNext ==
    \/ \E s \in Sessions :
          \/ \E c \in Clones : Prepare(s, c) \/ StartImport(s, c)
          \/ LinkEvent(s) \/ InstallEvent(s) \/ SetHead(s) \/ GiveUp(s)
    \/ \E c \in Clones : ExportBundle(c)

ChainSpec == ChainInit /\ [][ChainNext]_chainVars

-----------------------------------------------------------------------------
(* Whoever appends, imports or is killed, a chain that was there is kept   *)
(* and grows, and what HEAD names loads.                                   *)
ChainStep ==
    \A c \in Clones :
        /\ IsPrefix(head[c], head'[c])
        /\ head'[c] # <<>> => Loads(c, head[c])'

ChainsOnlyGrow == [][ChainStep]_chainVars
=============================================================================
