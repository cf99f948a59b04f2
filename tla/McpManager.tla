----------------------------- MODULE McpManager -----------------------------
(* openbkn-mcp-manager.ts: the one Context Loader client of a business owner, which
   calls to ensure() and refresh() share.  A call waits for the promise of the start
   or of the reload under way; what runs between two awaits is one step, and what is
   ready runs before anything that takes the network (JavaScript's microtasks).  The
   credential is its number and the platform generation it was granted in, which is
   what private-platform-access.ts answers a client with. *)
EXTENDS Integers, Sequences, FiniteSets

CONSTANTS Calls,                       \* the calls made, each once: they bound the clients
          NULL,                        \* nothing under way
          MaxTokens, MaxGenerations    \* bounds: credentials and platform identities granted

ASSUME McpAssumption == MaxTokens \in Nat \ {0} /\ MaxGenerations \in Nat \ {0}

VARIABLES
  parent,     \* whether the business owner is active
  deployed,   \* whether the deployment publishes the tools with a client of its own
  grant,      \* the platform's generation, whether it is authorized, and the credential
  client,     \* the clients mounted so far
  fiber,      \* the client the manager holds, or 0
  starting,   \* the start under way, or NULL
  reloading,  \* the reload under way, or NULL
  call        \* per call: where it waits, and how it ended

held    == <<client, fiber>>
outside == <<parent, deployed, grant>>
mcpVars == <<outside, held, starting, reloading, call>>

Generations == 1..MaxGenerations
Tokens      == [number : 1..MaxTokens, generation : Generations]
Clients     == [state : {"mounting", "live", "dying", "gone"}, over : Generations,
                token : Tokens, published : BOOLEAN]
Starts      == [at : {"trust"}] \cup [at : {"token"}, over : Generations]
               \cup [at : {"mounting", "late", "unpublished"}]
Reloads     == [at : {"disposing", "disposed", "mounting"}, since : 1..MaxTokens]
CallStates  == [at : {"new", "joined", "resumed", "mounting",           \* of an ensure
                      "waiting", "refreshing", "reloading", "done"},    \* of a refresh
                since : 0..MaxTokens, ok : BOOLEAN]
ASSUME NullIsNoPromise == NULL \notin Starts \cup Reloads

Active == parent = "active"

\* The tools are registered until the client that published them has been disposed.
Published == \/ deployed
             \/ \E k \in DOMAIN client : client[k].published /\ client[k].state \in {"live", "dying"}
\* Mutant: a client asks for whatever connection is selected now (the fetch getter).
Reaches_Selected(k) == TRUE
\* fetchForGeneration: a request is sent over the connection the client was mounted with,
\* or not at all.
Reaches(k) == client[k].over = grant.generation
Reloading(at) == reloading # NULL /\ reloading.at = at
Starting(at)  == starting # NULL /\ starting.at = at
New == Len(client)      \* the client being mounted, or the last one that was

\* A continuation is ready; only calls come between it and its run.
Ready == Reloading("disposed") \/ \E c \in Calls : call[c].at \in {"resumed", "refreshing"}

Waits(c, at, since) == [call EXCEPT ![c] = [at |-> at, since |-> since, ok |-> FALSE]]
Done(r, ok) == [r EXCEPT !.at = "done", !.ok = ok]
Ends(c, ok) == [call EXCEPT ![c] = Done(@, ok)]

------------------------------------------------------------------------------
McpInit ==
  /\ parent = "active" /\ deployed \in BOOLEAN
  /\ grant = [generation |-> 1, authorized |-> TRUE, token |-> 1]
  /\ client = <<>> /\ fiber = 0
  /\ starting = NULL /\ reloading = NULL
  /\ call = [c \in Calls |-> [at |-> "new", since |-> 0, ok |-> FALSE]]

\* Mutant: the ensures that joined the reload are not told.
AfterReload_Refreshes(ok) ==
  [c \in Calls |-> IF call[c].at = "reloading" THEN Done(call[c], ok) ELSE call[c]]
\* Those who wait for the reload: it ends for the refreshes, and lets the ensures go on.
AfterReload(ok) ==
  [c \in Calls |-> CASE call[c].at = "reloading" -> Done(call[c], ok)
                     [] call[c].at = "joined"    -> [call[c] EXCEPT !.at = "resumed"]
                     [] OTHER                    -> call[c]]
ReloadEnds(ok) == reloading' = NULL /\ call' = AfterReload(ok)

\* The start settles: for the ensures that wait, for the reload that remounts, and for the
\* refreshes that wait.  A failed start fails them; past a good one they reconnect, unless
\* a reload remounts with it: reloading is cleared some microtasks after they have gone
\* on, so they join that reload and end with it.
StartEnds(ok) ==
  LET remounts == Reloading("mounting")
      others == IF remounts THEN AfterReload(ok) ELSE call
  IN  /\ starting' = NULL
      /\ reloading' = IF remounts THEN NULL ELSE reloading
      /\ call' = [c \in Calls |->
           CASE call[c].at = "mounting" -> Done(call[c], ok)
             [] call[c].at = "waiting"  -> IF ok /\ ~remounts THEN [call[c] EXCEPT !.at = "refreshing"]
                                                             ELSE Done(call[c], ok)
             [] OTHER                   -> others[c]]

\* A start joins the one under way, or begins with the platform's trust.
JoinStart == starting' = IF starting = NULL THEN [at |-> "trust"] ELSE starting

\* Mutant: the tools of the deployment's own client are taken for the manager's.
EnsureMounted_Uncertified(c) ==
  IF Active /\ ~Published
  THEN JoinStart /\ call' = Waits(c, "mounting", 0)
  ELSE call' = Ends(c, Active) /\ UNCHANGED starting
\* ensureMounted, for a call: a client the manager does not hold is refused.
EnsureMounted(c) ==
  IF Active /\ ~Published
  THEN JoinStart /\ call' = Waits(c, "mounting", 0)
  ELSE call' = Ends(c, Active /\ fiber # 0) /\ UNCHANGED starting

CallEnsure(c) ==
  /\ call[c].at = "new" /\ Active
  /\ IF reloading # NULL THEN call' = Waits(c, "joined", 0) /\ UNCHANGED starting
                         ELSE EnsureMounted(c)
  /\ UNCHANGED <<outside, held, reloading>>

EnsureResumes(c) ==
  /\ call[c].at = "resumed"
  /\ EnsureMounted(c)
  /\ UNCHANGED <<outside, held, reloading>>

CallRefresh(c) ==
  /\ call[c].at = "new" /\ Active
  /\ call' = Waits(c, IF starting = NULL THEN "refreshing" ELSE "waiting", grant.token)
  /\ UNCHANGED <<outside, held, starting, reloading>>

\* Mutant: the client that is held is kept.
RefreshResumes_Kept(c) ==
  /\ call[c].at = "refreshing"
  /\ IF ~Active THEN call' = Ends(c, FALSE) /\ UNCHANGED reloading
     ELSE /\ call' = [call EXCEPT ![c].at = "reloading"]
          /\ reloading' = IF reloading # NULL THEN reloading
                          ELSE [at |-> "disposed", since |-> grant.token]
  /\ UNCHANGED <<outside, held, starting>>
\* Past the start: join the reload under way, or dispose of the client that is held.
RefreshResumes(c) ==
  /\ call[c].at = "refreshing"
  /\ IF ~Active THEN call' = Ends(c, FALSE) /\ UNCHANGED <<held, reloading>>
     ELSE /\ call' = [call EXCEPT ![c].at = "reloading"]
          /\ IF reloading # NULL THEN UNCHANGED <<held, reloading>>
             ELSE /\ fiber' = 0
                  /\ reloading' = [at |-> IF fiber = 0 THEN "disposed" ELSE "disposing",
                                   since |-> grant.token]
                  /\ client' = IF fiber = 0 THEN client ELSE [client EXCEPT ![fiber].state = "dying"]
  /\ UNCHANGED <<outside, starting>>

\* Mutant: the remount goes through ensure, which waits for the reload it is part of.
Remount_Ensures ==
  /\ Reloading("disposed")
  /\ IF Active THEN UNCHANGED <<starting, reloading, call>>
     ELSE ReloadEnds(FALSE) /\ UNCHANGED starting
  /\ UNCHANGED <<outside, held>>
Remount ==
  /\ Reloading("disposed")
  /\ IF Active /\ ~Published
     THEN JoinStart /\ reloading' = [reloading EXCEPT !.at = "mounting"] /\ UNCHANGED call
     ELSE ReloadEnds(Active /\ fiber # 0) /\ UNCHANGED starting
  /\ UNCHANGED <<outside, held>>

------------------------------------------------------------------------------
(* start(), from await to await. *)

\* forAuthorization: which platform identity the client will speak to.
TrustResolves ==
  /\ ~Ready /\ Starting("trust")
  /\ \/ StartEnds(FALSE)
     \/ /\ Active /\ grant.authorized
        /\ starting' = [at |-> "token", over |-> grant.generation] /\ UNCHANGED <<reloading, call>>
  /\ UNCHANGED <<outside, held>>

\* resolveOpenBknToken, and the mount with its result.
TokenResolves ==
  /\ ~Ready /\ Starting("token")
  /\ \/ StartEnds(FALSE) /\ UNCHANGED client
     \/ /\ Active /\ grant.authorized
        /\ starting' = [at |-> "mounting"]
        /\ client' = Append(client, [state |-> "mounting", over |-> starting.over, published |-> FALSE,
             token |-> [number |-> grant.token, generation |-> grant.generation]])
        /\ UNCHANGED <<reloading, call>>
  /\ UNCHANGED <<outside, fiber>>

MountFails ==
  /\ ~Ready /\ Starting("mounting")
  /\ client' = [client EXCEPT ![New].state = "gone"]
  /\ StartEnds(FALSE)
  /\ UNCHANGED <<outside, fiber>>

\* Mutant: a client that returns late is held like any other.
MountReturns_Unasked(p) ==
  /\ ~Ready /\ Starting("mounting")
  /\ client' = [client EXCEPT ![New].published = p, ![New].state = IF p THEN "live" ELSE "dying"]
  /\ fiber' = IF p THEN New ELSE 0
  /\ IF p THEN StartEnds(TRUE) ELSE starting' = [at |-> "unpublished"] /\ UNCHANGED <<reloading, call>>
  /\ UNCHANGED outside
\* Mutant: a client that publishes nothing is given up without being disposed.
MountReturns_Kept(p) ==
  /\ ~Ready /\ Starting("mounting") /\ (Active \/ ~p)
  /\ client' = [client EXCEPT ![New].published = p, ![New].state = "live"]
  /\ fiber' = IF p THEN New ELSE 0
  /\ StartEnds(p) /\ UNCHANGED outside
\* The client comes up, with or without the tools: it is held, unless its owner is gone
\* or the tools are missing, and then disposed of before the start fails.
MountReturns(p) ==
  /\ ~Ready /\ Starting("mounting")
  /\ client' = [client EXCEPT ![New].published = p,
                              ![New].state = IF Active /\ (p \/ Published) THEN "live" ELSE "dying"]
  /\ IF ~Active THEN starting' = [at |-> "late"] /\ UNCHANGED <<fiber, reloading, call>>
     ELSE IF p \/ Published THEN fiber' = New /\ StartEnds(TRUE)
     ELSE starting' = [at |-> "unpublished"] /\ fiber' = 0 /\ UNCHANGED <<reloading, call>>
  /\ UNCHANGED outside

\* A disposal ends, for whoever waits for it; it may reject, and the client is gone anyway.
Disposed(k, ok) ==
  /\ ~Ready /\ client[k].state = "dying"
  /\ client' = [client EXCEPT ![k].state = "gone"]
  /\ IF k = New /\ (Starting("late") \/ Starting("unpublished")) THEN StartEnds(FALSE)
     ELSE IF ~Reloading("disposing") THEN UNCHANGED <<starting, reloading, call>>
     ELSE IF ok THEN reloading' = [reloading EXCEPT !.at = "disposed"] /\ UNCHANGED <<starting, call>>
     ELSE ReloadEnds(FALSE) /\ UNCHANGED starting
  /\ UNCHANGED <<outside, fiber>>

------------------------------------------------------------------------------
(* The owner, the user and the platform. *)

\* Cordis takes the owner's child down with it.
OwnerUnloads ==
  /\ ~Ready /\ Active
  /\ parent' = "gone"
  /\ client' = [k \in DOMAIN client |-> IF client[k].state = "live"
                                        THEN [client[k] EXCEPT !.state = "dying"] ELSE client[k]]
  /\ UNCHANGED <<deployed, grant, fiber, starting, reloading, call>>

\* The CLI renews the token, or the user logs in under the present identity.
CredentialRotates ==
  /\ ~Ready /\ grant.token < MaxTokens
  /\ grant' = [grant EXCEPT !.token = @ + 1, !.authorized = TRUE]
  /\ UNCHANGED <<parent, deployed, held, starting, reloading, call>>

\* An inspection finds another certificate: a new generation, which nobody authorized.
IdentityChanges ==
  /\ ~Ready /\ grant.generation < MaxGenerations
  /\ grant' = [grant EXCEPT !.generation = @ + 1, !.authorized = FALSE]
  /\ UNCHANGED <<parent, deployed, held, starting, reloading, call>>

McpStep ==
  \/ TrustResolves \/ TokenResolves \/ MountFails \/ \E p \in BOOLEAN : MountReturns(p)
  \/ \E k \in DOMAIN client, ok \in BOOLEAN : Disposed(k, ok)
  \/ Remount
  \/ \E c \in Calls : EnsureResumes(c) \/ RefreshResumes(c)
McpNext ==
  \/ McpStep
  \/ \E c \in Calls : CallEnsure(c) \/ CallRefresh(c)
  \/ OwnerUnloads \/ CredentialRotates \/ IdentityChanges

McpSpec == McpInit /\ [][McpNext]_mcpVars
\* What is awaited settles, and what is ready runs; nobody has to call, and no credential
\* or identity has to change.
McpFairSpec == McpSpec /\ WF_mcpVars(McpStep)

------------------------------------------------------------------------------
(* Properties. *)

\* Every variable has its type; what waits for a promise waits for one that is there.
McpTypeOK ==
  /\ parent \in {"active", "gone"} /\ deployed \in BOOLEAN
  /\ grant \in [generation : Generations, authorized : BOOLEAN, token : 1..MaxTokens]
  /\ client \in Seq(Clients) /\ fiber \in 0..Len(client)
  /\ starting \in {NULL} \cup Starts /\ reloading \in {NULL} \cup Reloads
  /\ call \in [Calls -> CallStates]
  /\ \A c \in Calls : /\ call[c].at \in {"joined", "reloading"} => reloading # NULL
                      /\ call[c].at \in {"mounting", "waiting"} => starting # NULL

\* There is never a second client: whatever calls overlap, the next one is not mounted
\* before the last one is gone, and the one that is up is the one the manager holds
\* (openbkn-mcp-manager.ts:64, 77 and 111).
OneClient ==
  /\ \A j, k \in DOMAIN client : client[j].state # "gone" /\ client[k].state # "gone" => j = k
  /\ \A k \in DOMAIN client : client[k].state = "live" => k = fiber

\* No client is up for an owner that is gone (openbkn-mcp-manager.ts:106).
NoneForADeadOwner == ~Active => \A k \in DOMAIN client : client[k].state # "live"

\* A credential never reaches a connection of another platform identity than the one it
\* was granted under, however identities and credentials change while a client is being
\* mounted and after (private-platform-access.ts:65).
GrantOnItsConnection ==
  \A k \in DOMAIN client :
    client[k].state # "gone" /\ Reaches(k) => client[k].token.generation = grant.generation

\* A call that succeeds leaves its caller with a client that is up and has published the
\* tools, not with one on its way down (openbkn-mcp-manager.ts:49).
AnsweredByALiveClient ==
  [][\A c \in Calls : call'[c].at = "done" /\ call[c].at # "done" /\ call'[c].ok
        => fiber' # 0 /\ client'[fiber'].state = "live" /\ client'[fiber'].published]_mcpVars

\* A reload that succeeds has replaced the client by one with a credential no older than
\* the reload (openbkn-mcp-manager.ts:76).
ReloadReconnects ==
  [][reloading # NULL /\ reloading' = NULL /\ (\E c \in Calls : call[c].at = "reloading" /\ call'[c].ok)
        => client'[fiber'].token.number >= reloading.since]_mcpVars

\* Every call comes to an end: no call waits for a promise that waits for it
\* (openbkn-mcp-manager.ts:80).
CallsEnd == \A c \in Calls : call[c].at # "new" ~> call[c].at = "done"

\* What openbkn-mcp-manager.ts:70 says of refresh: the client is reconnected after the
\* credential was rotated, so it carries no older one than when refresh was called.
RefreshUsesTheCurrentToken ==
  [][\A c \in Calls : call'[c].at = "done" /\ call[c].at \in {"waiting", "reloading"} /\ call'[c].ok
        => client'[fiber'].token.number >= call[c].since]_mcpVars
==============================================================================
