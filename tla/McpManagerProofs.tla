--------------------------- MODULE McpManagerProofs ---------------------------
(* Theorems about McpManager, for any calls, credentials and platform identities. *)
EXTENDS McpManager, SequenceTheorems, TLAPS

------------------------------------------------------------------------------
(* The inductive invariant. *)

AllGone    == \A k \in DOMAIN client : client[k].state = "gone"
OthersGone == \A k \in DOMAIN client : k # New => client[k].state = "gone"

\* A start finds every client gone until it has mounted its own, and ends when that one
\* is held or gone; none begins where the deployment publishes the tools.
StartsAlone ==
  /\ Starting("trust") \/ Starting("token") => AllGone
  /\ Starting("mounting") => New # 0 /\ OthersGone /\ client[New].state = "mounting"
  /\ Starting("late") \/ Starting("unpublished") =>
       New # 0 /\ OthersGone /\ client[New].state = "dying"
  /\ starting = NULL =>
       \A k \in DOMAIN client : client[k].state # "gone" =>
         client[k].state # "mounting" /\ client[k].published
  /\ deployed => starting = NULL

\* What is up is what an active owner holds.
HeldIsLive ==
  /\ \A k \in DOMAIN client : client[k].state = "live" => client[k].published
  /\ Active /\ fiber # 0 => client[fiber].state = "live"

\* A client is mounted over an identity that was seen before its credential was granted.
GrantsGrow ==
  /\ Starting("token") => starting.over <= grant.generation
  /\ \A k \in DOMAIN client : /\ client[k].over <= client[k].token.generation
                              /\ client[k].token.generation <= grant.generation

\* A reload has the start to itself, up to the one it remounts with.
ReloadsWait ==
  /\ Reloading("disposing") => /\ starting = NULL /\ fiber = 0
                               /\ \E k \in DOMAIN client : client[k].state = "dying"
  /\ Reloading("disposed") => fiber = 0
  /\ Ready => starting = NULL \/ Starting("trust")
  /\ Reloading("mounting") => starting # NULL
  /\ reloading # NULL => reloading.since <= grant.token
  /\ Reloading("mounting") /\ Starting("mounting") => client[New].token.number >= reloading.since

McpInv ==
  /\ McpTypeOK /\ OneClient /\ NoneForADeadOwner
  /\ StartsAlone /\ HeldIsLive /\ GrantsGrow /\ ReloadsWait

------------------------------------------------------------------------------
(* What the invariant says of the parts of the state. *)

\* The clients are a sequence, and each has its type.
LEMMA ClientFacts ==
  ASSUME McpTypeOK
  PROVE  /\ client \in Seq(Clients) /\ New \in Nat /\ DOMAIN client = 1 .. New
         /\ fiber \in 0 .. New
         /\ \A k \in DOMAIN client :
              /\ client[k] \in Clients /\ client[k].published \in BOOLEAN
              /\ client[k].state \in {"mounting", "live", "dying", "gone"}
              /\ client[k].over \in Nat /\ client[k].token.generation \in Nat
              /\ client[k].token.number \in Nat
<1>1. client \in Seq(Clients) /\ fiber \in 0 .. Len(client)
  BY DEF McpTypeOK
<1>2. New \in Nat /\ DOMAIN client = 1 .. New
  BY <1>1, LenProperties DEF New
<1>3. ASSUME NEW k \in DOMAIN client
      PROVE  /\ client[k] \in Clients /\ client[k].published \in BOOLEAN
             /\ client[k].state \in {"mounting", "live", "dying", "gone"}
             /\ client[k].over \in Nat /\ client[k].token.generation \in Nat
             /\ client[k].token.number \in Nat
  <2>1. client[k] \in Clients
    BY <1>1, <1>2, ElementOfSeq DEF New
  <2>2. Generations \subseteq Nat /\ 1 .. MaxTokens \subseteq Nat
    BY McpAssumption DEF Generations
  <2> QED
    BY <2>1, <2>2 DEF Clients, Tokens
<1> QED
  BY <1>1, <1>2, <1>3 DEF New

\* One client changes, and no other.
LEMMA OneClientChanges ==
  ASSUME McpTypeOK, NEW k \in DOMAIN client, NEW r \in Clients, client' = [client EXCEPT ![k] = r]
  PROVE  /\ client' \in Seq(Clients) /\ New' = New /\ DOMAIN client' = DOMAIN client
         /\ client'[k] = r
         /\ \A j \in DOMAIN client : j # k => client'[j] = client[j]
<1>1. client \in Seq(Clients) /\ DOMAIN client = 1 .. Len(client)
  BY ClientFacts DEF New
<1> HIDE DEF New
<1>2. /\ client' \in Seq(Clients) /\ Len(client') = Len(client)
      /\ \A j \in 1 .. Len(client) : client'[j] = IF j = k THEN r ELSE client[j]
  BY <1>1, ExceptSeq
<1>3. DOMAIN client' = 1 .. Len(client')
  BY <1>2, LenProperties
<1> QED
  BY <1>1, <1>2, <1>3 DEF New

\* Where a start may begin: every client is gone.
LEMMA NothingPublished ==
  ASSUME McpInv, starting = NULL, ~Published
  PROVE  AllGone /\ ~deployed
<1>1. ASSUME NEW k \in DOMAIN client PROVE client[k].state = "gone"
  <2>1. client[k].state # "gone" => client[k].state \in {"live", "dying"} /\ client[k].published
    BY ClientFacts DEF McpInv, StartsAlone
  <2> QED
    BY <2>1 DEF Published
<1> QED
  BY <1>1 DEF McpInv, StartsAlone, AllGone, Published

\* What a call that ends well is told of.
LEMMA HeldIsUp ==
  ASSUME McpInv, Active, fiber # 0
  PROVE  client[fiber].state = "live" /\ client[fiber].published /\ fiber \in DOMAIN client
BY ClientFacts DEF McpInv, HeldIsLive

\* With a start under way the deployment publishes nothing, and what is published is dying.
LEMMA StartIsAlone ==
  ASSUME McpInv, Starting("mounting")
  PROVE  ~Published /\ (Active => fiber = 0)
BY ClientFacts DEF McpInv, StartsAlone, HeldIsLive, OthersGone, Published, Starting, McpTypeOK

------------------------------------------------------------------------------
(* The calls. *)

\* A call that goes on to wait, or that ends.
LEMMA CallGoes ==
  ASSUME McpTypeOK, NEW c \in Calls
  PROVE  /\ \A at \in {"joined", "mounting", "waiting", "refreshing"}, since \in 0 .. MaxTokens :
              /\ Waits(c, at, since) \in [Calls -> CallStates]
              /\ Waits(c, at, since)[c].at = at /\ ~Waits(c, at, since)[c].ok
              /\ \A d \in Calls : d # c => Waits(c, at, since)[d] = call[d]
         /\ \A ok \in BOOLEAN :
              /\ Ends(c, ok) \in [Calls -> CallStates]
              /\ Ends(c, ok)[c].at = "done" /\ Ends(c, ok)[c].ok = ok
              /\ \A d \in Calls : d # c => Ends(c, ok)[d] = call[d]
<1>1. call \in [Calls -> CallStates] /\ call[c] \in CallStates
  BY DEF McpTypeOK
<1>2. ASSUME NEW at \in {"joined", "mounting", "waiting", "refreshing"},
             NEW since \in 0 .. MaxTokens
      PROVE  /\ Waits(c, at, since) \in [Calls -> CallStates]
             /\ Waits(c, at, since)[c].at = at /\ ~Waits(c, at, since)[c].ok
             /\ \A d \in Calls : d # c => Waits(c, at, since)[d] = call[d]
  <2> DEFINE r == [at |-> at, since |-> since, ok |-> FALSE]
  <2>1. r \in CallStates /\ r.at = at /\ ~r.ok
    BY DEF CallStates
  <2> HIDE DEF r
  <2>2. Waits(c, at, since) = [call EXCEPT ![c] = r]
    BY DEF Waits, r
  <2> QED
    BY <1>1, <2>1, <2>2
<1>3. ASSUME NEW ok \in BOOLEAN
      PROVE  /\ Ends(c, ok) \in [Calls -> CallStates]
             /\ Ends(c, ok)[c].at = "done" /\ Ends(c, ok)[c].ok = ok
             /\ \A d \in Calls : d # c => Ends(c, ok)[d] = call[d]
  <2> DEFINE r == Done(call[c], ok)
  <2>1. r \in CallStates /\ r.at = "done" /\ r.ok = ok
    BY <1>1 DEF CallStates, Done
  <2> HIDE DEF r
  <2>2. Ends(c, ok) = [call EXCEPT ![c] = r]
    BY DEF Ends, r
  <2> QED
    BY <1>1, <2>1, <2>2
<1> QED
  BY <1>2, <1>3

\* A call ends, and no other is touched.
LEMMA CallEnded ==
  ASSUME McpTypeOK, NEW c \in Calls, NEW ok \in BOOLEAN, call' = Ends(c, ok)
  PROVE  /\ call' \in [Calls -> CallStates]
         /\ call'[c].at = "done" /\ call'[c].ok = ok
         /\ \A d \in Calls : d # c => call'[d] = call[d]
BY CallGoes

\* Those who wait for a reload that ends.
LEMMA ReloadSettles ==
  ASSUME McpTypeOK, NEW ok \in BOOLEAN
  PROVE  /\ AfterReload(ok) \in [Calls -> CallStates]
         /\ \A c \in Calls :
              /\ AfterReload(ok)[c].at \notin {"joined", "reloading"}
              /\ AfterReload(ok)[c].at \in {"mounting", "waiting"} => AfterReload(ok)[c] = call[c]
              /\ call[c].at # "done" /\ AfterReload(ok)[c].at = "done" => AfterReload(ok)[c].ok = ok
              /\ call[c].at = "reloading" => AfterReload(ok)[c].ok = ok
<1>1. \A c \in Calls : call[c] \in CallStates
  BY DEF McpTypeOK
<1>2. \A c \in Calls : /\ Done(call[c], ok) \in CallStates
                       /\ Done(call[c], ok).at = "done" /\ Done(call[c], ok).ok = ok
                       /\ [call[c] EXCEPT !.at = "resumed"] \in CallStates
                       /\ [call[c] EXCEPT !.at = "resumed"].at = "resumed"
  BY <1>1 DEF CallStates, Done
<1>3. \A c \in Calls : AfterReload(ok)[c] =
        CASE call[c].at = "reloading" -> Done(call[c], ok)
          [] call[c].at = "joined"    -> [call[c] EXCEPT !.at = "resumed"]
          [] OTHER                    -> call[c]
  BY DEF AfterReload
<1>4. ASSUME NEW c \in Calls PROVE AfterReload(ok)[c] \in CallStates
  BY <1>1, <1>2, <1>3
<1>5. AfterReload(ok) \in [Calls -> CallStates]
  BY <1>4 DEF AfterReload
<1> QED
  BY <1>2, <1>3, <1>5

\* Those who wait for a start that ends.
LEMMA StartSettles ==
  ASSUME McpTypeOK, NEW ok \in BOOLEAN, StartEnds(ok)
  PROVE  /\ starting' = NULL
         /\ reloading' = IF Reloading("mounting") THEN NULL ELSE reloading
         /\ call' \in [Calls -> CallStates]
         /\ \A c \in Calls :
              /\ call'[c].at \notin {"mounting", "waiting"}
              /\ call'[c].at \in {"joined", "reloading"} => reloading' # NULL
              /\ call[c].at # "done" /\ call'[c].at = "done" => call'[c].ok = ok
              /\ call[c].at = "reloading" /\ Reloading("mounting") => call'[c].ok = ok
<1> DEFINE others == IF Reloading("mounting") THEN AfterReload(ok) ELSE call
<1>1. call \in [Calls -> CallStates] /\ \A c \in Calls : call[c] \in CallStates
  BY DEF McpTypeOK
<1>2. \A c \in Calls : /\ Done(call[c], ok) \in CallStates
                       /\ Done(call[c], ok).at = "done" /\ Done(call[c], ok).ok = ok
                       /\ [call[c] EXCEPT !.at = "refreshing"] \in CallStates
                       /\ [call[c] EXCEPT !.at = "refreshing"].at = "refreshing"
  BY <1>1 DEF CallStates, Done
<1>3. /\ \A c \in Calls : others[c] \in CallStates
      /\ \A c \in Calls : others[c].at \in {"mounting", "waiting"} => others[c] = call[c]
      /\ \A c \in Calls : others[c].at \in {"joined", "reloading"} =>
                            ~Reloading("mounting") /\ reloading # NULL
      /\ \A c \in Calls : call[c].at # "done" /\ others[c].at = "done" => others[c].ok = ok
      /\ \A c \in Calls : call[c].at = "reloading" /\ Reloading("mounting") => others[c].ok = ok
  BY <1>1, ReloadSettles DEF McpTypeOK
<1>4. /\ starting' = NULL
      /\ reloading' = IF Reloading("mounting") THEN NULL ELSE reloading
      /\ call' = [c \in Calls |->
           CASE call[c].at = "mounting" -> Done(call[c], ok)
             [] call[c].at = "waiting"  -> IF ok /\ ~Reloading("mounting")
                                           THEN [call[c] EXCEPT !.at = "refreshing"]
                                           ELSE Done(call[c], ok)
             [] OTHER                   -> others[c]]
  BY DEF StartEnds
<1> HIDE DEF others
<1>5. ASSUME NEW c \in Calls
      PROVE  /\ call'[c] \in CallStates
             /\ call'[c].at \notin {"mounting", "waiting"}
             /\ call'[c].at \in {"joined", "reloading"} => reloading' # NULL
             /\ call[c].at # "done" /\ call'[c].at = "done" => call'[c].ok = ok
             /\ call[c].at = "reloading" /\ Reloading("mounting") => call'[c].ok = ok
  BY <1>2, <1>3, <1>4
<1>6. call' \in [Calls -> CallStates]
  BY <1>4, <1>5
<1> QED
  BY <1>4, <1>5, <1>6

------------------------------------------------------------------------------
(* The steps. *)

\* The calls change, and nothing they wait for.
LEMMA OnlyCalls ==
  ASSUME McpInv, UNCHANGED <<outside, held, starting, reloading>>,
         call' \in [Calls -> CallStates],
         \A c \in Calls : /\ call'[c].at \in {"joined", "reloading"} => reloading # NULL
                          /\ call'[c].at \in {"mounting", "waiting"} => starting # NULL,
         Ready' => Ready \/ starting = NULL
  PROVE  McpInv'
<1>1. McpTypeOK'
  BY DEF McpInv, McpTypeOK, outside, held
<1>2. OneClient' /\ NoneForADeadOwner'
  BY DEF McpInv, OneClient, NoneForADeadOwner, Active, outside, held
<1>3. StartsAlone' /\ HeldIsLive' /\ GrantsGrow'
  BY DEF McpInv, StartsAlone, HeldIsLive, GrantsGrow, AllGone, OthersGone, New, Starting, Active,
     outside, held
<1>4. ReloadsWait'
  BY DEF McpInv, ReloadsWait, Reloading, Starting, New, outside, held
<1> QED
  BY <1>1, <1>2, <1>3, <1>4 DEF McpInv

\* A call, or a reload, has joined the start under way or begun one.
LEMMA StartJoined ==
  ASSUME McpInv, ~Published, UNCHANGED <<outside, held>>, JoinStart,
         call' \in [Calls -> CallStates], reloading' \in {NULL} \cup Reloads,
         \A c \in Calls : call'[c].at \in {"joined", "reloading"} => reloading' # NULL,
         starting # NULL /\ Ready' => Ready,
         \/ reloading' = reloading
         \/ /\ Reloading("disposed")
            /\ reloading' = [reloading EXCEPT !.at = "mounting"]
            /\ reloading' # NULL /\ reloading'.at = "mounting" /\ reloading'.since = reloading.since
  PROVE  McpInv'
<1>1. [at |-> "trust"] \in Starts /\ NULL # [at |-> "trust"]
  BY NullIsNoPromise DEF Starts
<1>2. CASE starting = NULL
  <2>1. starting' = [at |-> "trust"] /\ starting'.at = "trust" /\ starting' # NULL
    BY <1>1, <1>2 DEF JoinStart
  <2>2. AllGone /\ ~deployed
    BY <1>2, NothingPublished
  <2>3. McpTypeOK'
    BY <1>1, <2>1 DEF McpInv, McpTypeOK, outside, held
  <2>4. OneClient' /\ NoneForADeadOwner'
    BY DEF McpInv, OneClient, NoneForADeadOwner, Active, outside, held
  <2>5. AllGone' /\ ~deployed'
    BY <2>2 DEF AllGone, outside, held
  <2>6. StartsAlone' /\ HeldIsLive' /\ GrantsGrow'
    BY <2>1, <2>5 DEF McpInv, StartsAlone, HeldIsLive, GrantsGrow, Starting, Active, outside, held
  <2>7. ~Reloading("disposing")
    BY <2>2 DEF McpInv, ReloadsWait, AllGone
  <2>8. ReloadsWait'
    BY <2>1, <2>7 DEF McpInv, ReloadsWait, Reloading, Starting, outside, held
  <2> QED
    BY <2>3, <2>4, <2>6, <2>8 DEF McpInv
<1>3. CASE starting # NULL
  <2>1. starting' = starting
    BY <1>3 DEF JoinStart
  <2>2. McpTypeOK'
    BY <1>3, <2>1 DEF McpInv, McpTypeOK, outside, held
  <2>3. OneClient' /\ NoneForADeadOwner'
    BY DEF McpInv, OneClient, NoneForADeadOwner, Active, outside, held
  <2>4. StartsAlone' /\ HeldIsLive' /\ GrantsGrow'
    BY <2>1 DEF McpInv, StartsAlone, HeldIsLive, GrantsGrow, AllGone, OthersGone, New, Starting,
       Active, outside, held
  <2>5. CASE reloading' = reloading
    <3>1. ReloadsWait'
      BY <1>3, <2>1, <2>5 DEF McpInv, ReloadsWait, Reloading, Starting, New, outside, held
    <3> QED
      BY <2>2, <2>3, <2>4, <3>1 DEF McpInv
  <2>6. CASE /\ Reloading("disposed") /\ reloading' # NULL
             /\ reloading'.at = "mounting" /\ reloading'.since = reloading.since
    <3>1. Starting("trust") /\ ~Starting("mounting")
      BY <1>3, <2>6 DEF McpInv, ReloadsWait, Ready, Starting
    <3>2. ReloadsWait'
      BY <1>3, <2>1, <2>6, <3>1 DEF McpInv, ReloadsWait, Reloading, Starting, outside, held
    <3> QED
      BY <2>2, <2>3, <2>4, <3>2 DEF McpInv
  <2> QED
    BY <2>5, <2>6
<1> QED
  BY <1>2, <1>3

\* ensureMounted, for a call that is new or goes on.
LEMMA EnsureSteps ==
  ASSUME McpInv, NEW c \in Calls, EnsureMounted(c), UNCHANGED <<outside, held, reloading>>
  PROVE  McpInv'
<1>1. McpTypeOK
  BY DEF McpInv
<1>2. CASE Active /\ ~Published
  <2>1. JoinStart /\ call' = Waits(c, "mounting", 0) /\ 0 \in 0 .. MaxTokens
    BY <1>2, McpAssumption DEF EnsureMounted
  <2>2. /\ call' \in [Calls -> CallStates] /\ call'[c].at = "mounting"
        /\ \A d \in Calls : d # c => call'[d] = call[d]
    BY <1>1, <2>1, CallGoes
  <2>3. \A d \in Calls : call'[d].at \in {"joined", "reloading"} => reloading' # NULL
    BY <1>1, <2>2 DEF McpTypeOK
  <2>4. starting # NULL /\ Ready' => Ready
    BY <2>2 DEF Ready, Reloading
  <2>5. reloading' \in {NULL} \cup Reloads
    BY <1>1 DEF McpTypeOK
  <2> QED
    BY <1>2, <2>1, <2>2, <2>3, <2>4, <2>5, StartJoined
<1>3. CASE ~(Active /\ ~Published)
  <2>1. call' = Ends(c, Active /\ fiber # 0) /\ UNCHANGED starting
    BY <1>3 DEF EnsureMounted
  <2>2. (Active /\ fiber # 0) \in BOOLEAN
    OBVIOUS
  <2>3. /\ call' \in [Calls -> CallStates] /\ call'[c].at = "done"
        /\ \A d \in Calls : d # c => call'[d] = call[d]
    BY <1>1, <2>1, <2>2, CallEnded
  <2>4. \A d \in Calls : /\ call'[d].at \in {"joined", "reloading"} => reloading # NULL
                         /\ call'[d].at \in {"mounting", "waiting"} => starting # NULL
    BY <1>1, <2>3 DEF McpTypeOK
  <2>5. Ready' => Ready
    BY <2>3 DEF Ready, Reloading
  <2> QED
    BY <2>1, <2>3, <2>4, <2>5, OnlyCalls
<1> QED
  BY <1>2, <1>3

LEMMA CallSteps ==
  ASSUME McpInv, NEW c \in Calls, CallEnsure(c) \/ EnsureResumes(c) \/ CallRefresh(c)
  PROVE  McpInv'
<1>1. McpTypeOK /\ grant.token \in 0 .. MaxTokens /\ 0 \in 0 .. MaxTokens
  <2>1. grant.token \in 1 .. MaxTokens
    BY DEF McpInv, McpTypeOK
  <2> QED
    BY <2>1, McpAssumption DEF McpInv
<1>2. CASE reloading # NULL /\ call' = Waits(c, "joined", 0)
           /\ UNCHANGED <<outside, held, starting, reloading>>
  <2>1. /\ call' \in [Calls -> CallStates] /\ call'[c].at = "joined"
        /\ \A d \in Calls : d # c => call'[d] = call[d]
    BY <1>1, <1>2, CallGoes
  <2>2. \A d \in Calls : /\ call'[d].at \in {"joined", "reloading"} => reloading # NULL
                         /\ call'[d].at \in {"mounting", "waiting"} => starting # NULL
    BY <1>1, <1>2, <2>1 DEF McpTypeOK
  <2>3. Ready' => Ready
    BY <1>2, <2>1 DEF Ready, Reloading
  <2> QED
    BY <1>2, <2>1, <2>2, <2>3, OnlyCalls
<1>3. CASE CallRefresh(c)
  <2> DEFINE at == IF starting = NULL THEN "refreshing" ELSE "waiting"
  <2>1. at \in {"joined", "mounting", "waiting", "refreshing"}
    OBVIOUS
  <2>2. call' = Waits(c, at, grant.token) /\ UNCHANGED <<outside, held, starting, reloading>>
    BY <1>3 DEF CallRefresh
  <2>3. /\ call' \in [Calls -> CallStates] /\ call'[c].at = at
        /\ \A d \in Calls : d # c => call'[d] = call[d]
    BY <1>1, <2>1, <2>2, CallGoes
  <2>4. \A d \in Calls : /\ call'[d].at \in {"joined", "reloading"} => reloading # NULL
                         /\ call'[d].at \in {"mounting", "waiting"} => starting # NULL
    BY <1>1, <2>3 DEF McpTypeOK
  <2>5. Ready' => Ready \/ starting = NULL
    BY <2>2, <2>3 DEF Ready, Reloading
  <2> QED
    BY <2>2, <2>3, <2>4, <2>5, OnlyCalls
<1> QED
  BY <1>2, <1>3, EnsureSteps DEF CallEnsure, EnsureResumes

\* The start ends, with the clients as they are then.
LEMMA StartDone ==
  ASSUME McpInv, NEW ok \in BOOLEAN, StartEnds(ok), ~Ready, starting # NULL, UNCHANGED outside,
         client' \in Seq(Clients), fiber' \in 0 .. New',
         OneClient', NoneForADeadOwner', HeldIsLive',
         \A k \in DOMAIN client' :
           /\ client'[k].state # "gone" => client'[k].state # "mounting" /\ client'[k].published
           /\ client'[k].over <= client'[k].token.generation
           /\ client'[k].token.generation <= grant.generation
  PROVE  McpInv'
<1>1. /\ starting' = NULL
      /\ reloading' = IF Reloading("mounting") THEN NULL ELSE reloading
      /\ call' \in [Calls -> CallStates]
      /\ \A c \in Calls : /\ call'[c].at \notin {"mounting", "waiting"}
                          /\ call'[c].at \in {"joined", "reloading"} => reloading' # NULL
  BY StartSettles DEF McpInv
<1>2. ~Reloading("disposing") /\ ~Reloading("disposed")
  BY DEF McpInv, ReloadsWait, Ready
<1>3. reloading # NULL => reloading.at \in {"disposing", "disposed", "mounting"}
  BY DEF McpInv, McpTypeOK, Reloads
<1>4. reloading' = NULL
  BY <1>1, <1>2, <1>3 DEF Reloading
<1>5. McpTypeOK'
  BY <1>1, <1>4 DEF McpInv, McpTypeOK, outside, New
<1>6. StartsAlone' /\ GrantsGrow' /\ ReloadsWait'
  BY <1>1, <1>4 DEF StartsAlone, GrantsGrow, ReloadsWait, Starting, Reloading, outside
<1> QED
  BY <1>5, <1>6 DEF McpInv

\* A start that fails before it has mounted anything.
LEMMA StartFails ==
  ASSUME McpInv, StartEnds(FALSE), ~Ready, Starting("trust") \/ Starting("token"),
         UNCHANGED <<outside, held>>
  PROVE  McpInv'
<1>1. AllGone /\ starting # NULL
  BY DEF McpInv, StartsAlone, Starting
<1>2. client' \in Seq(Clients) /\ fiber' \in 0 .. New'
  BY ClientFacts DEF McpInv, held, New
<1>3. OneClient' /\ NoneForADeadOwner' /\ HeldIsLive'
  BY DEF McpInv, OneClient, NoneForADeadOwner, HeldIsLive, Active, outside, held
<1>4. \A k \in DOMAIN client' :
        /\ client'[k].state # "gone" => client'[k].state # "mounting" /\ client'[k].published
        /\ client'[k].over <= client'[k].token.generation
        /\ client'[k].token.generation <= grant.generation
  BY <1>1 DEF McpInv, GrantsGrow, AllGone, held
<1> QED
  BY <1>1, <1>2, <1>3, <1>4, StartDone

LEMMA TrustSteps == ASSUME McpInv, TrustResolves PROVE McpInv'
<1>1. CASE StartEnds(FALSE)
  BY <1>1, StartFails DEF TrustResolves
<1>2. CASE starting' = [at |-> "token", over |-> grant.generation] /\ UNCHANGED <<reloading, call>>
  <2>1. grant.generation \in Generations /\ grant.generation \in Nat
    BY McpAssumption DEF McpInv, McpTypeOK, Generations
  <2>2. starting' \in Starts /\ starting' # NULL /\ starting'.at = "token"
        /\ starting'.over = grant.generation
    BY <1>2, <2>1, NullIsNoPromise DEF Starts
  <2>3. UNCHANGED <<outside, held>> /\ Starting("trust") /\ ~Ready
    BY DEF TrustResolves
  <2>4. McpTypeOK'
    BY <1>2, <2>2, <2>3 DEF McpInv, McpTypeOK, outside, held
  <2>5. OneClient' /\ NoneForADeadOwner'
    BY <2>3 DEF McpInv, OneClient, NoneForADeadOwner, Active, outside, held
  <2>6. StartsAlone' /\ HeldIsLive'
    BY <2>2, <2>3 DEF McpInv, StartsAlone, HeldIsLive, AllGone, Starting, Active, outside, held
  <2>7. GrantsGrow'
    BY <2>1, <2>2, <2>3 DEF McpInv, GrantsGrow, Starting, outside, held
  <2>8. ReloadsWait'
    BY <1>2, <2>2, <2>3 DEF McpInv, ReloadsWait, Ready, Reloading, Starting, outside, held
  <2> QED
    BY <2>4, <2>5, <2>6, <2>7, <2>8 DEF McpInv
<1> QED
  BY <1>1, <1>2 DEF TrustResolves

LEMMA TokenSteps == ASSUME McpInv, TokenResolves PROVE McpInv'
<1>1. CASE StartEnds(FALSE) /\ UNCHANGED client
  BY <1>1, StartFails DEF TokenResolves, held
<1>2. CASE /\ Active /\ grant.authorized
           /\ starting' = [at |-> "mounting"]
           /\ client' = Append(client, [state |-> "mounting", over |-> starting.over,
                published |-> FALSE,
                token |-> [number |-> grant.token, generation |-> grant.generation]])
           /\ UNCHANGED <<reloading, call>>
  <2> DEFINE t == [number |-> grant.token, generation |-> grant.generation]
             r == [state |-> "mounting", over |-> starting.over, published |-> FALSE, token |-> t]
  <2>1. grant.generation \in Generations /\ grant.token \in 1 .. MaxTokens
    BY DEF McpInv, McpTypeOK
  <2>2. UNCHANGED <<outside, fiber>> /\ Starting("token") /\ ~Ready
    BY DEF TokenResolves
  <2>3. starting.over \in Generations /\ starting.over <= grant.generation
    BY <2>2 DEF Starting, McpInv, McpTypeOK, Starts, GrantsGrow
  <2>4. t \in Tokens /\ t.number = grant.token /\ t.generation = grant.generation
    BY <2>1 DEF Tokens
  <2> HIDE DEF t
  <2>5. r \in Clients /\ r.state = "mounting" /\ r.token = t /\ r.over = starting.over
    BY <2>3, <2>4 DEF Clients
  <2> HIDE DEF r
  <2>6. client' = Append(client, r)
    BY <1>2 DEF r, t
  <2>7. client \in Seq(Clients) /\ New \in Nat /\ fiber \in 0 .. New /\ DOMAIN client = 1 .. New
    BY ClientFacts DEF McpInv
  <2>8. /\ client' \in Seq(Clients) /\ New' = New + 1
        /\ \A k \in 1 .. New : client'[k] = client[k]
        /\ client'[New + 1] = r
    BY <2>5, <2>6, <2>7, AppendProperties DEF New
  <2>9. DOMAIN client' = 1 .. New + 1
    BY <2>8, LenProperties DEF New
  <2>10. starting' \in Starts /\ starting' # NULL /\ starting'.at = "mounting"
    BY <1>2, NullIsNoPromise DEF Starts
  <2>11. \A k \in 1 .. New : client[k].state = "gone"
    BY <2>2, <2>7 DEF McpInv, StartsAlone, AllGone
  <2>12. McpTypeOK'
    <3>1. fiber' \in 0 .. New'
      BY <2>2, <2>7, <2>8
    <3> QED
      BY <1>2, <2>2, <2>8, <2>10, <3>1 DEF McpInv, McpTypeOK, outside, New
  <2>13. \A k \in DOMAIN client' : k # New + 1 => client'[k].state = "gone"
    BY <2>7, <2>8, <2>9, <2>11
  <2>14. OneClient' /\ NoneForADeadOwner'
    BY <2>5, <2>8, <2>9, <2>13 DEF OneClient, NoneForADeadOwner
  <2>15. StartsAlone'
    <3>1. ~deployed'
      BY <2>2 DEF McpInv, StartsAlone, Starting, outside
    <3>2. OthersGone' /\ New' # 0 /\ client'[New'].state = "mounting"
      BY <2>5, <2>7, <2>8, <2>13 DEF OthersGone
    <3> QED
      BY <2>10, <3>1, <3>2 DEF StartsAlone, Starting
  <2>16. HeldIsLive'
    <3>1. fiber = 0
      BY <1>2, <2>7, <2>11 DEF McpInv, HeldIsLive
    <3> QED
      BY <2>2, <2>5, <2>8, <2>9, <2>13, <3>1 DEF HeldIsLive
  <2>17. GrantsGrow'
    <3>1. \A k \in DOMAIN client' : /\ client'[k].over <= client'[k].token.generation
                                    /\ client'[k].token.generation <= grant.generation
      <4>1. \A k \in 1 .. New : /\ client[k].over <= client[k].token.generation
                                /\ client[k].token.generation <= grant.generation
        BY <2>7 DEF McpInv, GrantsGrow
      <4>2. grant.generation <= grant.generation
        BY <2>1, McpAssumption DEF Generations
      <4> QED
        BY <2>3, <2>4, <2>5, <2>7, <2>8, <2>9, <4>1, <4>2
    <3> QED
      BY <2>2, <2>10, <3>1 DEF GrantsGrow, Starting, outside
  <2>18. ReloadsWait'
    <3>1. r.token.number = grant.token
      BY <2>4, <2>5
    <3>2. ~Reloading("disposing") /\ ~Reloading("disposed")
      BY <2>2 DEF McpInv, ReloadsWait, Ready, Starting
    <3> QED
      BY <1>2, <2>2, <2>8, <2>10, <3>1, <3>2
      DEF McpInv, ReloadsWait, Ready, Reloading, Starting, outside
  <2> QED
    BY <2>12, <2>14, <2>15, <2>16, <2>17, <2>18 DEF McpInv
<1> QED
  BY <1>1, <1>2 DEF TokenResolves

\* The client being mounted, once it is up, on its way down, or gone.
LEMMA MountedClient ==
  ASSUME McpInv, Starting("mounting"), NEW state \in {"live", "dying", "gone"}, NEW p \in BOOLEAN,
         client' = [client EXCEPT ![New] = [client[New] EXCEPT !.published = p, !.state = state]]
  PROVE  /\ New \in DOMAIN client /\ New' = New /\ DOMAIN client' = DOMAIN client
         /\ client' \in Seq(Clients)
         /\ client'[New].state = state /\ client'[New].published = p
         /\ client'[New].token = client[New].token
         /\ \A k \in DOMAIN client : k # New => client'[k].state = "gone"
         /\ \A k \in DOMAIN client' : /\ client'[k].over <= client'[k].token.generation
                                      /\ client'[k].token.generation <= grant.generation
<1> DEFINE r == [client[New] EXCEPT !.published = p, !.state = state]
<1>1. New \in DOMAIN client /\ client[New] \in Clients
  BY ClientFacts DEF McpInv, StartsAlone
<1>2. /\ r \in Clients /\ r.state = state /\ r.published = p /\ r.token = client[New].token
      /\ r.over = client[New].over
  BY <1>1 DEF Clients
<1> HIDE DEF r
<1>3. /\ client' \in Seq(Clients) /\ New' = New /\ DOMAIN client' = DOMAIN client
      /\ client'[New] = r
      /\ \A j \in DOMAIN client : j # New => client'[j] = client[j]
  BY <1>1, <1>2, OneClientChanges DEF McpInv, r
<1>4. \A k \in DOMAIN client : k # New => client'[k].state = "gone"
  BY <1>3 DEF McpInv, StartsAlone, OthersGone
<1>5. \A k \in DOMAIN client' : /\ client'[k].over <= client'[k].token.generation
                                /\ client'[k].token.generation <= grant.generation
  BY <1>1, <1>2, <1>3 DEF McpInv, GrantsGrow
<1> QED
  BY <1>1, <1>2, <1>3, <1>4, <1>5

\* A client that does not come up, and one that is disposed of again.
LEMMA MountFailsSteps == ASSUME McpInv, MountFails PROVE McpInv'
<1>1. /\ ~Ready /\ Starting("mounting") /\ starting # NULL /\ StartEnds(FALSE)
      /\ UNCHANGED <<outside, fiber>>
      /\ client' = [client EXCEPT ![New].state = "gone"]
  BY DEF MountFails, Starting
<1>2. New \in DOMAIN client /\ client[New] \in Clients /\ client[New].published \in BOOLEAN
      /\ fiber \in 0 .. New
  BY <1>1, ClientFacts DEF McpInv, StartsAlone
<1>3. [client[New] EXCEPT !.state = "gone"]
        = [client[New] EXCEPT !.published = client[New].published, !.state = "gone"]
  BY <1>2 DEF Clients
<1>4. client' = [client EXCEPT ![New] =
                   [client[New] EXCEPT !.published = client[New].published, !.state = "gone"]]
  BY <1>1, <1>3
<1>5. /\ New' = New /\ DOMAIN client' = DOMAIN client /\ client' \in Seq(Clients)
      /\ \A k \in DOMAIN client' : client'[k].state = "gone"
      /\ \A k \in DOMAIN client' : /\ client'[k].over <= client'[k].token.generation
                                   /\ client'[k].token.generation <= grant.generation
  BY <1>1, <1>2, <1>4, MountedClient
<1>6. OneClient' /\ NoneForADeadOwner'
  BY <1>5 DEF OneClient, NoneForADeadOwner
<1>7. HeldIsLive'
  BY <1>1, <1>5, StartIsAlone DEF HeldIsLive, Active, outside
<1>8. fiber' \in 0 .. New'
  BY <1>1, <1>2, <1>5
<1> QED
  BY <1>1, <1>5, <1>6, <1>7, <1>8, StartDone

LEMMA MountSteps == ASSUME McpInv, NEW p \in BOOLEAN, MountReturns(p) PROVE McpInv'
<1> DEFINE state == IF Active /\ (p \/ Published) THEN "live" ELSE "dying"
<1>1. /\ ~Ready /\ Starting("mounting") /\ starting # NULL /\ UNCHANGED outside
      /\ client' = [client EXCEPT ![New].published = p, ![New].state = state]
  BY DEF MountReturns, Starting
<1>2. ~Published /\ New \in DOMAIN client /\ fiber \in 0 .. New /\ (Active => fiber = 0) /\ New # 0
  BY <1>1, ClientFacts, StartIsAlone DEF McpInv, StartsAlone
<1>3. client' = [client EXCEPT ![New] = [client[New] EXCEPT !.published = p, !.state = state]]
  BY <1>1, <1>2
<1>4. state \in {"live", "dying", "gone"} /\ (state = "live" <=> Active /\ p)
  BY <1>2
<1> HIDE DEF state
<1>5. /\ New' = New /\ DOMAIN client' = DOMAIN client /\ client' \in Seq(Clients)
      /\ client'[New].state = state /\ client'[New].published = p
      /\ \A k \in DOMAIN client : k # New => client'[k].state = "gone"
      /\ \A k \in DOMAIN client' : /\ client'[k].over <= client'[k].token.generation
                                   /\ client'[k].token.generation <= grant.generation
  BY <1>1, <1>3, <1>4, MountedClient
<1>6. CASE Active /\ p
  <2>1. fiber' = New /\ StartEnds(TRUE)
    BY <1>6 DEF MountReturns
  <2>2. OneClient' /\ NoneForADeadOwner' /\ HeldIsLive'
    BY <1>1, <1>2, <1>4, <1>5, <1>6, <2>1
    DEF OneClient, NoneForADeadOwner, HeldIsLive, Active, outside
  <2>3. \A k \in DOMAIN client' :
          client'[k].state # "gone" => client'[k].state # "mounting" /\ client'[k].published
    <3>1. client'[New].state = "live" /\ client'[New].published
      BY <1>4, <1>5, <1>6
    <3> QED
      BY <1>5, <3>1
  <2>4. fiber' \in 0 .. New'
    BY <1>2, <1>5, <2>1
  <2> QED
    BY <1>1, <1>5, <2>1, <2>2, <2>3, <2>4, StartDone
\* Late, or without the tools: the client is on its way down before the start fails.
<1>7. CASE ~(Active /\ p)
  <2>1. /\ starting' \in {[at |-> "late"], [at |-> "unpublished"]}
        /\ UNCHANGED <<reloading, call>> /\ fiber' \in {fiber, 0}
        /\ (Active => fiber' = 0)
    BY <1>2, <1>7 DEF MountReturns
  <2>2. starting' \in Starts /\ starting' # NULL /\ starting'.at \in {"late", "unpublished"}
    BY <2>1, NullIsNoPromise DEF Starts
  <2>3. client'[New].state = "dying"
    <3>1. state = "dying"
      BY <1>2, <1>7 DEF state
    <3> QED
      BY <1>5, <3>1
  <2>4. McpTypeOK'
    <3>1. fiber' \in 0 .. New'
      BY <1>2, <1>5, <2>1
    <3> QED
      BY <1>1, <1>5, <2>1, <2>2, <3>1 DEF McpInv, McpTypeOK, outside, New
  <2>5. OneClient' /\ NoneForADeadOwner'
    BY <1>5, <2>3 DEF OneClient, NoneForADeadOwner
  <2>6. HeldIsLive'
    BY <1>1, <1>5, <2>1, <2>3 DEF HeldIsLive, Active, outside
  <2>7. StartsAlone'
    <3>1. ~deployed'
      BY <1>1 DEF McpInv, StartsAlone, outside
    <3>2. OthersGone' /\ New' # 0 /\ client'[New'].state = "dying"
      BY <1>2, <1>5, <2>3 DEF OthersGone
    <3> QED
      BY <2>2, <3>1, <3>2 DEF StartsAlone, Starting
  <2>8. GrantsGrow'
    BY <1>1, <1>5, <2>2 DEF GrantsGrow, Starting, outside
  <2>9. ReloadsWait'
    BY <1>1, <2>1, <2>2 DEF McpInv, ReloadsWait, Ready, Reloading, Starting, outside
  <2> QED
    BY <2>4, <2>5, <2>6, <2>7, <2>8, <2>9 DEF McpInv
<1> QED
  BY <1>6, <1>7

\* The reload that waits for a disposal, or for its turn, ends or goes on.
LEMMA ReloadDone ==
  ASSUME McpInv, NEW ok \in BOOLEAN, ReloadEnds(ok), UNCHANGED <<outside, starting, fiber>>,
         starting = NULL \/ Starting("trust"),
         client' \in Seq(Clients), New' = New,
         OneClient', NoneForADeadOwner', StartsAlone', HeldIsLive', GrantsGrow'
  PROVE  McpInv'
<1>1. reloading' = NULL /\ call' = AfterReload(ok)
  BY DEF ReloadEnds
<1>2. /\ call' \in [Calls -> CallStates]
      /\ \A c \in Calls : /\ call'[c].at \notin {"joined", "reloading"}
                          /\ call'[c].at \in {"mounting", "waiting"} => call'[c] = call[c]
  BY <1>1, ReloadSettles DEF McpInv
<1>3. fiber' \in 0 .. New'
  BY ClientFacts DEF McpInv
<1>4. McpTypeOK'
  BY <1>1, <1>2, <1>3 DEF McpInv, McpTypeOK, outside, New
<1>5. ReloadsWait'
  BY <1>1 DEF ReloadsWait, Reloading, Starting
<1> QED
  BY <1>4, <1>5 DEF McpInv

LEMMA DisposedSteps ==
  ASSUME McpInv, NEW k \in DOMAIN client, NEW ok \in BOOLEAN, Disposed(k, ok)
  PROVE  McpInv'
<1> DEFINE r == [client[k] EXCEPT !.state = "gone"]
<1>1. /\ ~Ready /\ client[k].state = "dying" /\ UNCHANGED <<outside, fiber>>
      /\ client' = [client EXCEPT ![k] = r]
  BY DEF Disposed
<1>2. client[k] \in Clients /\ fiber \in 0 .. New
  BY ClientFacts DEF McpInv
<1>3. r \in Clients /\ r.state = "gone" /\ r.over = client[k].over /\ r.token = client[k].token
  BY <1>2 DEF Clients
<1> HIDE DEF r
<1>4. /\ client' \in Seq(Clients) /\ New' = New /\ DOMAIN client' = DOMAIN client
      /\ client'[k] = r
      /\ \A j \in DOMAIN client : j # k => client'[j] = client[j]
  BY <1>1, <1>3, OneClientChanges DEF McpInv
\* It was the only one.
<1>5. AllGone'
  <2>1. \A j \in DOMAIN client : j # k => client[j].state = "gone"
    BY <1>1 DEF McpInv, OneClient
  <2> QED
    BY <1>3, <1>4, <2>1 DEF AllGone
<1>6. OneClient' /\ NoneForADeadOwner'
  BY <1>5 DEF AllGone, OneClient, NoneForADeadOwner
<1>7. HeldIsLive'
  <2>1. ~(Active /\ fiber # 0)
    BY <1>1, ClientFacts DEF McpInv, HeldIsLive, OneClient
  <2> QED
    BY <1>1, <1>5, <2>1 DEF AllGone, HeldIsLive, Active, outside
<1>8. \A j \in DOMAIN client' : /\ client'[j].over <= client'[j].token.generation
                                /\ client'[j].token.generation <= grant.generation
  BY <1>3, <1>4 DEF McpInv, GrantsGrow
<1>9. CASE k = New /\ (Starting("late") \/ Starting("unpublished"))
  <2>1. StartEnds(FALSE) /\ starting # NULL
    BY <1>9 DEF Disposed, Starting
  <2>2. fiber' \in 0 .. New'
    BY <1>1, <1>2, <1>4
  <2> QED
    BY <1>1, <1>4, <1>5, <1>6, <1>7, <1>8, <2>1, <2>2, StartDone DEF AllGone
<1>10. CASE ~(k = New /\ (Starting("late") \/ Starting("unpublished")))
  <2>1. starting = NULL
    <3>1. ~AllGone
      BY <1>1 DEF AllGone
    <3>2. starting # NULL =>
            starting.at \in {"trust", "token", "mounting", "late", "unpublished"}
      BY DEF McpInv, McpTypeOK, Starts
    <3>3. k # New => ~OthersGone
      BY <1>1 DEF OthersGone
    <3> QED
      BY <1>1, <1>10, <3>1, <3>2, <3>3 DEF McpInv, StartsAlone, Starting
  <2>2. starting' = NULL
    BY <1>10, <2>1 DEF Disposed, ReloadEnds
  <2>3. StartsAlone' /\ GrantsGrow'
    BY <1>1, <1>5, <1>8, <2>2 DEF StartsAlone, GrantsGrow, AllGone, Starting, outside
  <2>4. CASE ~Reloading("disposing")
    <3>1. UNCHANGED <<starting, reloading, call>>
      BY <1>10, <2>4 DEF Disposed
    <3>2. McpTypeOK'
      BY <1>1, <1>2, <1>4, <3>1 DEF McpInv, McpTypeOK, outside, New
    <3>3. ReloadsWait'
      BY <1>1, <2>1, <2>4, <3>1 DEF McpInv, ReloadsWait, Ready, Reloading, Starting, outside
    <3> QED
      BY <1>6, <1>7, <2>3, <3>2, <3>3 DEF McpInv
  <2>5. CASE Reloading("disposing") /\ ok
    <3>1. reloading' = [reloading EXCEPT !.at = "disposed"] /\ UNCHANGED <<starting, call>>
      BY <1>10, <2>5 DEF Disposed
    <3>2. reloading \in Reloads
      BY <2>5 DEF Reloading, McpInv, McpTypeOK
    <3>3. /\ reloading' \in Reloads /\ reloading' # NULL /\ reloading'.at = "disposed"
          /\ reloading'.since = reloading.since
      BY <3>1, <3>2, NullIsNoPromise DEF Reloads
    <3>4. McpTypeOK'
      BY <1>1, <1>2, <1>4, <3>1, <3>3 DEF McpInv, McpTypeOK, outside, New
    <3>5. ReloadsWait'
      BY <1>1, <2>1, <2>2, <2>5, <3>3 DEF McpInv, ReloadsWait, Reloading, outside
    <3> QED
      BY <1>6, <1>7, <2>3, <3>4, <3>5 DEF McpInv
  <2>6. CASE Reloading("disposing") /\ ~ok
    <3>1. ReloadEnds(FALSE) /\ UNCHANGED starting
      BY <1>10, <2>6 DEF Disposed
    <3> QED
      BY <1>1, <1>4, <1>6, <1>7, <2>1, <2>3, <3>1, ReloadDone
  <2> QED
    BY <2>4, <2>5, <2>6
<1> QED
  BY <1>9, <1>10

LEMMA RefreshSteps == ASSUME McpInv, NEW c \in Calls, RefreshResumes(c) PROVE McpInv'
<1>1. call[c].at = "refreshing" /\ UNCHANGED <<outside, starting>> /\ McpTypeOK
  BY DEF RefreshResumes, McpInv
<1>2. Ready /\ (starting = NULL \/ Starting("trust"))
  BY <1>1 DEF Ready, McpInv, ReloadsWait
<1>3. CASE ~Active
  <2>1. call' = Ends(c, FALSE) /\ UNCHANGED <<outside, held, starting, reloading>>
    BY <1>1, <1>3 DEF RefreshResumes
  <2>2. /\ call' \in [Calls -> CallStates] /\ call'[c].at = "done"
        /\ \A d \in Calls : d # c => call'[d] = call[d]
    BY <1>1, <2>1, CallEnded
  <2>3. \A d \in Calls : /\ call'[d].at \in {"joined", "reloading"} => reloading # NULL
                         /\ call'[d].at \in {"mounting", "waiting"} => starting # NULL
    BY <1>1, <2>2 DEF McpTypeOK
  <2> QED
    BY <1>2, <2>1, <2>2, <2>3, OnlyCalls
<1>4. CASE Active
  <2> DEFINE r == [call[c] EXCEPT !.at = "reloading"]
  <2>1. call[c] \in CallStates /\ call' = [call EXCEPT ![c] = r]
    BY <1>1, <1>4 DEF RefreshResumes, McpTypeOK
  <2>2. r \in CallStates /\ r.at = "reloading"
    BY <2>1 DEF CallStates
  <2> HIDE DEF r
  <2>3. /\ call' \in [Calls -> CallStates] /\ call'[c].at = "reloading"
        /\ \A d \in Calls : d # c => call'[d] = call[d]
    BY <1>1, <2>1, <2>2 DEF McpTypeOK
  <2>4. CASE reloading # NULL
    <3>1. UNCHANGED <<outside, held, starting, reloading>>
      BY <1>1, <1>4, <2>4 DEF RefreshResumes
    <3>2. \A d \in Calls : /\ call'[d].at \in {"joined", "reloading"} => reloading # NULL
                           /\ call'[d].at \in {"mounting", "waiting"} => starting # NULL
      BY <1>1, <2>3, <2>4 DEF McpTypeOK
    <3> QED
      BY <1>2, <2>3, <3>1, <3>2, OnlyCalls
  <2>5. CASE reloading = NULL
    <3> DEFINE at == IF fiber = 0 THEN "disposed" ELSE "disposing"
               n == [at |-> at, since |-> grant.token]
    <3>1. reloading' = n /\ fiber' = 0
      BY <1>4, <2>5 DEF RefreshResumes
    <3>2. grant.token \in 1 .. MaxTokens /\ grant.token <= grant.token
      BY <1>1 DEF McpTypeOK
    <3>3. n \in Reloads /\ n # NULL /\ n.at = at /\ n.since = grant.token
      BY <3>2, NullIsNoPromise DEF Reloads
    <3> HIDE DEF n
    <3>4. \A d \in Calls : /\ call'[d].at \in {"joined", "reloading"} => reloading' # NULL
                           /\ call'[d].at \in {"mounting", "waiting"} => starting # NULL
      BY <1>1, <2>3, <3>1, <3>3 DEF McpTypeOK
    <3>5. CASE fiber = 0
      <4>1. UNCHANGED client
        BY <1>4, <2>5, <3>5 DEF RefreshResumes
      <4>2. McpTypeOK'
        BY <1>1, <2>3, <3>1, <3>3, <3>4, <3>5, <4>1 DEF McpTypeOK, outside
      <4>3. OneClient' /\ NoneForADeadOwner'
        BY <1>1, <3>1, <3>5, <4>1 DEF McpInv, OneClient, NoneForADeadOwner, Active, outside
      <4>4. StartsAlone' /\ HeldIsLive' /\ GrantsGrow'
        BY <1>1, <3>1, <3>5, <4>1 DEF McpInv, StartsAlone, HeldIsLive, GrantsGrow, AllGone,
           OthersGone, New, Starting, Active, outside
      <4>5. ReloadsWait'
        BY <1>1, <1>2, <3>1, <3>2, <3>3, <3>5 DEF ReloadsWait, Reloading, Starting, outside
      <4> QED
        BY <4>2, <4>3, <4>4, <4>5 DEF McpInv
\* The client that is held goes down; it was the only one, so no start is under way.
    <3>6. CASE fiber # 0
      <4> DEFINE d == [client[fiber] EXCEPT !.state = "dying"]
      <4>1. client' = [client EXCEPT ![fiber] = d]
        BY <1>4, <2>5, <3>6 DEF RefreshResumes
      <4>2. /\ fiber \in DOMAIN client /\ client[fiber].state = "live" /\ client[fiber].published
            /\ client[fiber] \in Clients
        BY <1>1, <1>4, <3>6, HeldIsUp, ClientFacts
      <4>3. /\ d \in Clients /\ d.state = "dying" /\ d.published /\ d.over = client[fiber].over
            /\ d.token = client[fiber].token
        BY <4>2 DEF Clients
      <4> HIDE DEF d
      <4>4. /\ client' \in Seq(Clients) /\ New' = New /\ DOMAIN client' = DOMAIN client
            /\ client'[fiber] = d
            /\ \A j \in DOMAIN client : j # fiber => client'[j] = client[j]
        BY <1>1, <4>1, <4>2, <4>3, OneClientChanges
      <4>5. starting = NULL
        BY <1>2, <4>2 DEF McpInv, StartsAlone, AllGone
      <4>6. \A j \in DOMAIN client : j # fiber => client'[j].state = "gone"
        BY <4>2, <4>4 DEF McpInv, OneClient
      <4>7. McpTypeOK'
        <5>1. fiber' \in 0 .. New'
          BY <1>1, <3>1, <4>4, ClientFacts
        <5> QED
          BY <1>1, <2>3, <3>1, <3>3, <3>4, <4>4, <5>1 DEF McpTypeOK, outside, New
      <4>8. OneClient' /\ NoneForADeadOwner' /\ HeldIsLive'
        BY <3>1, <4>3, <4>4, <4>6 DEF OneClient, NoneForADeadOwner, HeldIsLive
      <4>9. StartsAlone'
        BY <1>1, <4>3, <4>4, <4>5, <4>6 DEF StartsAlone, Starting
      <4>10. GrantsGrow'
        BY <1>1, <4>3, <4>4, <4>5 DEF McpInv, GrantsGrow, Starting, outside
      <4>11. ReloadsWait'
        BY <1>1, <3>1, <3>2, <3>3, <3>6, <4>2, <4>3, <4>4, <4>5
        DEF ReloadsWait, Reloading, Starting, outside
      <4> QED
        BY <4>7, <4>8, <4>9, <4>10, <4>11 DEF McpInv
    <3> QED
      BY <3>5, <3>6
  <2> QED
    BY <2>4, <2>5
<1> QED
  BY <1>3, <1>4

LEMMA RemountSteps == ASSUME McpInv, Remount PROVE McpInv'
<1>1. Reloading("disposed") /\ UNCHANGED <<outside, held>> /\ McpTypeOK
      /\ (starting = NULL \/ Starting("trust"))
  BY DEF Remount, McpInv, ReloadsWait, Ready
<1>2. CASE Active /\ ~Published
  <2>1. JoinStart /\ reloading' = [reloading EXCEPT !.at = "mounting"] /\ UNCHANGED call
    BY <1>2 DEF Remount
  <2>2. reloading \in Reloads
    BY <1>1 DEF Reloading, McpTypeOK
  <2>3. /\ reloading' \in Reloads /\ reloading' # NULL /\ reloading'.at = "mounting"
        /\ reloading'.since = reloading.since
    BY <2>1, <2>2, NullIsNoPromise DEF Reloads
  <2>4. /\ call' \in [Calls -> CallStates]
        /\ \A c \in Calls : call'[c].at \in {"joined", "reloading"} => reloading' # NULL
    BY <1>1, <2>1, <2>3 DEF McpTypeOK
  <2>5. Ready
    BY <1>1 DEF Ready
  <2> QED
    BY <1>1, <1>2, <2>1, <2>3, <2>4, <2>5, StartJoined
<1>3. CASE ~(Active /\ ~Published)
  <2>1. ReloadEnds(Active /\ fiber # 0) /\ UNCHANGED <<starting, client, fiber>>
    BY <1>1, <1>3 DEF Remount, held
  <2>2. (Active /\ fiber # 0) \in BOOLEAN /\ client \in Seq(Clients)
    BY <1>1 DEF McpTypeOK
  <2>3. /\ OneClient' /\ NoneForADeadOwner' /\ StartsAlone' /\ HeldIsLive' /\ GrantsGrow'
        /\ New' = New
    BY <1>1, <2>1 DEF McpInv, OneClient, NoneForADeadOwner, StartsAlone, HeldIsLive, GrantsGrow,
       AllGone, OthersGone, New, Starting, Active, outside
  <2> QED
    BY <1>1, <2>1, <2>2, <2>3, ReloadDone
<1> QED
  BY <1>2, <1>3

LEMMA UnloadSteps == ASSUME McpInv, OwnerUnloads PROVE McpInv'
<1> DEFINE down(k) == [client[k] EXCEPT !.state = "dying"]
<1>1. /\ parent' = "gone" /\ UNCHANGED <<deployed, grant, fiber, starting, reloading, call>>
      /\ ~Ready /\ Active
      /\ client' = [k \in DOMAIN client |-> IF client[k].state = "live" THEN down(k) ELSE client[k]]
  BY DEF OwnerUnloads
<1>2. /\ New \in Nat /\ DOMAIN client = 1 .. New /\ fiber \in 0 .. New /\ McpTypeOK
      /\ \A k \in DOMAIN client : client[k] \in Clients
  BY ClientFacts DEF McpInv
<1>3. \A k \in DOMAIN client :
        /\ down(k) \in Clients /\ down(k).state = "dying"
        /\ down(k).published = client[k].published /\ down(k).over = client[k].over
        /\ down(k).token = client[k].token
  BY <1>2 DEF Clients
<1> HIDE DEF down
<1>4. /\ DOMAIN client' = DOMAIN client
      /\ \A k \in DOMAIN client :
           client'[k] = IF client[k].state = "live" THEN down(k) ELSE client[k]
  BY <1>1
<1>5. client' \in Seq(Clients) /\ New' = New
  <2>1. client' \in [1 .. New -> Clients]
    BY <1>1, <1>2, <1>3
  <2>2. client' \in Seq(Clients)
    BY <1>2, <2>1, SeqDef
  <2>3. Len(client') \in Nat /\ 1 .. Len(client') = 1 .. New
    BY <1>2, <1>4, <2>2, LenProperties
  <2> QED
    BY <1>2, <2>2, <2>3 DEF New
<1>6. \A k \in DOMAIN client :
        /\ client[k].state # "live" => client'[k] = client[k]
        /\ client[k].state = "live" => client'[k].state = "dying"
        /\ client'[k].published = client[k].published /\ client'[k].over = client[k].over
        /\ client'[k].token = client[k].token /\ client'[k].state # "live"
  BY <1>3, <1>4
<1>7. McpTypeOK'
  BY <1>1, <1>2, <1>5 DEF McpTypeOK, New
<1>8. OneClient' /\ NoneForADeadOwner' /\ HeldIsLive'
  BY <1>1, <1>4, <1>6 DEF McpInv, OneClient, NoneForADeadOwner, HeldIsLive, Active
<1>9. StartsAlone'
  BY <1>1, <1>2, <1>4, <1>5, <1>6 DEF McpInv, StartsAlone, AllGone, OthersGone, Starting
<1>10. GrantsGrow'
  BY <1>1, <1>4, <1>6 DEF McpInv, GrantsGrow, Starting
<1>11. ReloadsWait'
  <2>1. Starting("mounting") => New \in DOMAIN client
    BY <1>2 DEF McpInv, StartsAlone
  <2> QED
    BY <1>1, <1>4, <1>5, <1>6, <2>1 DEF McpInv, ReloadsWait, Ready, Reloading, Starting
<1> QED
  BY <1>7, <1>8, <1>9, <1>10, <1>11 DEF McpInv

LEMMA GrantSteps == ASSUME McpInv, CredentialRotates \/ IdentityChanges PROVE McpInv'
<1>1. UNCHANGED <<parent, deployed, client, fiber, starting, reloading, call>>
  BY DEF CredentialRotates, IdentityChanges, held
<1>2. /\ grant \in [generation : Generations, authorized : BOOLEAN, token : 1 .. MaxTokens]
      /\ grant.generation \in Nat /\ grant.token \in Nat
      /\ MaxTokens \in Nat /\ MaxGenerations \in Nat
  BY McpAssumption DEF McpInv, McpTypeOK, Generations
<1>3. /\ grant' \in [generation : Generations, authorized : BOOLEAN, token : 1 .. MaxTokens]
      /\ grant'.generation >= grant.generation /\ grant'.token >= grant.token
      /\ grant'.generation \in Nat /\ grant'.token \in Nat
  <2>1. CASE CredentialRotates
    <3> DEFINE n == grant.token + 1
    <3>1. n \in 1 .. MaxTokens /\ n >= grant.token /\ n \in Nat
      BY <1>2, <2>1 DEF CredentialRotates
    <3> HIDE DEF n
    <3>2. grant' = [grant EXCEPT !.token = n, !.authorized = TRUE]
      BY <2>1 DEF CredentialRotates, n
    <3>3. grant' \in [generation : Generations, authorized : BOOLEAN, token : 1 .. MaxTokens]
          /\ grant'.generation = grant.generation /\ grant'.token = n
      BY <1>2, <3>1, <3>2
    <3> QED
      BY <1>2, <3>1, <3>3
  <2>2. CASE IdentityChanges
    <3> DEFINE n == grant.generation + 1
    <3>1. n \in Generations /\ n >= grant.generation /\ n \in Nat
      BY <1>2, <2>2 DEF IdentityChanges, Generations
    <3> HIDE DEF n
    <3>2. grant' = [grant EXCEPT !.generation = n, !.authorized = FALSE]
      BY <2>2 DEF IdentityChanges, n
    <3>3. grant' \in [generation : Generations, authorized : BOOLEAN, token : 1 .. MaxTokens]
          /\ grant'.generation = n /\ grant'.token = grant.token
      BY <1>2, <3>1, <3>2
    <3> QED
      BY <1>2, <3>1, <3>3
  <2> QED
    BY <2>1, <2>2
<1>4. McpTypeOK'
  BY <1>1, <1>3 DEF McpInv, McpTypeOK
<1>5. OneClient' /\ NoneForADeadOwner'
  BY <1>1 DEF McpInv, OneClient, NoneForADeadOwner, Active
<1>6. StartsAlone' /\ HeldIsLive'
  BY <1>1 DEF McpInv, StartsAlone, HeldIsLive, AllGone, OthersGone, New, Starting, Active
<1>7. GrantsGrow'
  <2>1. \A k \in DOMAIN client : client[k].token.generation \in Nat
    BY ClientFacts DEF McpInv
  <2>2. Starting("token") => starting.over \in Nat
    BY McpAssumption DEF Starting, McpInv, McpTypeOK, Starts, Generations
  <2> QED
    BY <1>1, <1>2, <1>3, <2>1, <2>2 DEF McpInv, GrantsGrow, Starting
<1>8. ReloadsWait'
  <2>1. reloading # NULL => reloading.since \in Nat
    BY <1>2 DEF McpInv, McpTypeOK, Reloads
  <2>2. ~Reloading("disposed") \/ ~Ready
    BY DEF CredentialRotates, IdentityChanges
  <2> QED
    BY <1>1, <1>2, <1>3, <2>1 DEF McpInv, ReloadsWait, Ready, Reloading, Starting, New
<1> QED
  BY <1>4, <1>5, <1>6, <1>7, <1>8 DEF McpInv

LEMMA McpSteps == McpInv /\ [McpNext]_mcpVars => McpInv'
<1> SUFFICES ASSUME McpInv, [McpNext]_mcpVars PROVE McpInv'
  OBVIOUS
<1>1. CASE McpStep
  BY <1>1, TrustSteps, TokenSteps, MountFailsSteps, MountSteps, DisposedSteps, RemountSteps,
     CallSteps, RefreshSteps DEF McpStep
<1>2. CASE \E c \in Calls : CallEnsure(c) \/ CallRefresh(c)
  BY <1>2, CallSteps
<1>3. CASE OwnerUnloads \/ CredentialRotates \/ IdentityChanges
  BY <1>3, UnloadSteps, GrantSteps
<1>4. CASE UNCHANGED mcpVars
  <2>1. /\ UNCHANGED <<outside, held, starting, reloading>> /\ call' = call
        /\ call \in [Calls -> CallStates]
        /\ \A c \in Calls : /\ call[c].at \in {"joined", "reloading"} => reloading # NULL
                            /\ call[c].at \in {"mounting", "waiting"} => starting # NULL
    BY <1>4 DEF mcpVars, McpInv, McpTypeOK
  <2>2. Ready' => Ready
    BY <2>1 DEF Ready, Reloading
  <2> QED
    BY <2>1, <2>2, OnlyCalls
<1> QED
  BY <1>1, <1>2, <1>3, <1>4 DEF McpNext

LEMMA McpInitially == McpInit => McpInv
<1> SUFFICES ASSUME McpInit PROVE McpInv
  OBVIOUS
<1>1. client = <<>> /\ client \in Seq(Clients) /\ Len(client) = 0 /\ DOMAIN client = {}
  <2>1. client = <<>> /\ client \in Seq(Clients) /\ Len(client) = 0
    BY EmptySeq DEF McpInit
  <2> QED
    BY <2>1, LenProperties
<1>2. grant \in [generation : Generations, authorized : BOOLEAN, token : 1 .. MaxTokens]
  BY McpAssumption DEF McpInit, Generations
<1>3. [at |-> "new", since |-> 0, ok |-> FALSE] \in CallStates
  BY McpAssumption DEF CallStates
<1>4. McpTypeOK
  BY <1>1, <1>2, <1>3 DEF McpInit, McpTypeOK
<1> QED
  BY <1>1, <1>4 DEF McpInit, McpInv, OneClient, NoneForADeadOwner, StartsAlone, HeldIsLive,
     GrantsGrow, ReloadsWait, AllGone, OthersGone, New, Starting, Reloading, Ready, Active

LEMMA McpInvariant == McpSpec => []McpInv
BY McpInitially, McpSteps, PTL DEF McpSpec

------------------------------------------------------------------------------
(* The theorems. *)

\* What waits for a promise waits for one that is there, whatever calls overlap.
THEOREM ManagerTypes == McpSpec => []McpTypeOK
<1>1. McpInv => McpTypeOK
  BY DEF McpInv
<1> QED
  BY <1>1, McpInvariant, PTL

\* ensure and refresh never leave two clients, for any number of overlapping calls.
THEOREM OneAtATime == McpSpec => []OneClient
<1>1. McpInv => OneClient
  BY DEF McpInv
<1> QED
  BY <1>1, McpInvariant, PTL

\* A client that comes up late is not kept for an owner that is gone.
THEOREM NoLateClient == McpSpec => []NoneForADeadOwner
<1>1. McpInv => NoneForADeadOwner
  BY DEF McpInv
<1> QED
  BY <1>1, McpInvariant, PTL

\* The credential of a client that still reaches the platform was granted for the identity
\* it reaches, for any number of rotations and changes of identity.
THEOREM NoForeignGrant == McpSpec => []GrantOnItsConnection
<1>1. McpInv => GrantOnItsConnection
  <2> SUFFICES ASSUME McpInv, NEW k \in DOMAIN client, client[k].over = grant.generation
               PROVE  client[k].token.generation = grant.generation
    BY DEF GrantOnItsConnection, Reaches
  <2>1. grant.generation \in Nat /\ client[k].token.generation \in Nat
    BY ClientFacts, McpAssumption DEF McpInv, McpTypeOK, Generations
  <2> QED
    BY <2>1 DEF McpInv, GrantsGrow
<1> QED
  BY <1>1, McpInvariant, PTL

\* A call is not told of a client that is on its way down, or that published nothing.
THEOREM GoodAnswers == McpSpec => AnsweredByALiveClient
<1> DEFINE Answered(c) == call'[c].at = "done" /\ call[c].at # "done" /\ call'[c].ok
           Up == fiber' # 0 /\ client'[fiber'].state = "live" /\ client'[fiber'].published
<1>1. ASSUME McpInv, [McpNext]_mcpVars, NEW c \in Calls, Answered(c) PROVE Up
  <2>1. McpTypeOK /\ ~UNCHANGED call
    BY <1>1 DEF McpInv
\* An ensure that finds a client, and one that ends without.
  <2>2. ASSUME NEW d \in Calls, EnsureMounted(d), UNCHANGED <<outside, held>> PROVE Up
    <3>1. ~(Active /\ ~Published)
      <4>1. CASE Active /\ ~Published
        <5>1. call' = Waits(d, "mounting", 0) /\ 0 \in 0 .. MaxTokens
          BY <2>2, <4>1, McpAssumption DEF EnsureMounted
        <5> QED
          BY <1>1, <2>1, <5>1, CallGoes
      <4> QED
        BY <4>1
    <3>2. call' = Ends(d, Active /\ fiber # 0) /\ (Active /\ fiber # 0) \in BOOLEAN
      BY <2>2, <3>1 DEF EnsureMounted
    <3>3. Active /\ fiber # 0
      BY <1>1, <2>1, <3>2, CallEnded
    <3> QED
      BY <1>1, <2>2, <3>3, HeldIsUp DEF held
  <2>3. ~StartEnds(FALSE)
    BY <1>1, <2>1, StartSettles
  <2>4. ASSUME NEW p \in BOOLEAN, MountReturns(p) PROVE Up
    <3>1. Active /\ (p \/ Published) /\ fiber' = New
      BY <2>1, <2>4 DEF MountReturns
    <3>2. Starting("mounting")
      BY <2>4 DEF MountReturns
    <3>3. p
      BY <1>1, <3>1, <3>2, StartIsAlone
    <3>4. client' = [client EXCEPT ![New].published = p, ![New].state = "live"]
      BY <2>4, <3>1 DEF MountReturns
    <3>5. New \in DOMAIN client /\ New # 0 /\ client[New] \in Clients
      BY <1>1, <3>2, ClientFacts DEF McpInv, StartsAlone
    <3>6. client' = [client EXCEPT ![New] = [client[New] EXCEPT !.published = p, !.state = "live"]]
      BY <3>4, <3>5
    <3>7. client'[New].state = "live" /\ client'[New].published = p
      BY <1>1, <3>2, <3>6, MountedClient
    <3> QED
      BY <3>1, <3>3, <3>5, <3>7
  <2>5. ~ReloadEnds(FALSE)
    <3>1. ~(\A d \in Calls : call[d].at # "done" /\ AfterReload(FALSE)[d].at = "done"
                               => AfterReload(FALSE)[d].ok = FALSE) \/ call' # AfterReload(FALSE)
      BY <1>1
    <3> QED
      BY <2>1, <3>1, ReloadSettles DEF ReloadEnds
  <2>6. CASE Remount
    <3>1. ReloadEnds(Active /\ fiber # 0) /\ UNCHANGED held
      BY <2>1, <2>6 DEF Remount
    <3>2. Active /\ fiber # 0
      BY <2>5, <3>1
    <3> QED
      BY <1>1, <3>1, <3>2, HeldIsUp DEF held
  <2>7. ASSUME NEW d \in Calls, RefreshResumes(d) PROVE FALSE
    <3>1. CASE ~Active
      <4>1. call' = Ends(d, FALSE)
        BY <2>7, <3>1 DEF RefreshResumes
      <4>2. call'[d].ok = FALSE /\ \A e \in Calls : e # d => call'[e] = call[e]
        <5>1. FALSE \in BOOLEAN
          OBVIOUS
        <5> QED
          BY <2>1, <4>1, <5>1, CallEnded
      <4> QED
        BY <1>1, <4>2
    <3>2. CASE Active
      <4>1. call' = [call EXCEPT ![d].at = "reloading"] /\ \A e \in Calls : call[e] \in CallStates
        BY <2>1, <2>7, <3>2 DEF RefreshResumes, McpTypeOK
      <4> QED
        BY <1>1, <2>1, <4>1 DEF CallStates, McpTypeOK
    <3> QED
      BY <3>1, <3>2
  <2>8. ASSUME NEW d \in Calls, CallEnsure(d) \/ CallRefresh(d) PROVE Up
    <3>1. grant.token \in 0 .. MaxTokens /\ 0 \in 0 .. MaxTokens
      BY <2>1, McpAssumption DEF McpTypeOK
    <3>2. ASSUME NEW at \in {"joined", "mounting", "waiting", "refreshing"},
                 NEW since \in 0 .. MaxTokens, call' = Waits(d, at, since)
          PROVE  FALSE
      <4>1. call'[d].at = at /\ \A e \in Calls : e # d => call'[e] = call[e]
        BY <2>1, <3>2, CallGoes
      <4> QED
        BY <1>1, <4>1
    <3>3. CallEnsure(d) /\ EnsureMounted(d)
      <4>1. call' # Waits(d, "joined", 0)
        BY <3>1, <3>2
      <4>2. \A at \in {"refreshing", "waiting"} : call' # Waits(d, at, grant.token)
        BY <3>1, <3>2
      <4> QED
        BY <2>8, <4>1, <4>2 DEF CallEnsure, CallRefresh
    <3> QED
      BY <2>2, <3>3 DEF CallEnsure
  <2>9. ASSUME NEW k \in DOMAIN client, NEW ok \in BOOLEAN, Disposed(k, ok) PROVE FALSE
    BY <2>1, <2>3, <2>5, <2>9 DEF Disposed
  <2>10. ~TrustResolves /\ ~TokenResolves /\ ~MountFails
    BY <2>1, <2>3 DEF TrustResolves, TokenResolves, MountFails
  <2>11. ~OwnerUnloads /\ ~CredentialRotates /\ ~IdentityChanges /\ ~UNCHANGED mcpVars
    BY <2>1 DEF OwnerUnloads, CredentialRotates, IdentityChanges, mcpVars
  <2>12. ASSUME NEW d \in Calls, EnsureResumes(d) PROVE Up
    BY <2>2, <2>12 DEF EnsureResumes
  <2> QED
    BY <1>1, <2>4, <2>6, <2>7, <2>8, <2>9, <2>10, <2>11, <2>12 DEF McpNext, McpStep
<1>2. McpInv /\ [McpNext]_mcpVars =>
        [\A c \in Calls : call'[c].at = "done" /\ call[c].at # "done" /\ call'[c].ok
           => fiber' # 0 /\ client'[fiber'].state = "live" /\ client'[fiber'].published]_mcpVars
  BY <1>1
<1> QED
  BY <1>2, McpInvariant, PTL DEF McpSpec, AnsweredByALiveClient

\* A reload that succeeds has mounted a client with a credential no older than itself: the
\* one that it remounts with, since none is held while it has the start to itself.
THEOREM GoodReloads == McpSpec => ReloadReconnects
<1>1. ASSUME McpInv, [McpNext]_mcpVars, reloading # NULL, reloading' = NULL,
             NEW c \in Calls, call[c].at = "reloading", call'[c].ok
      PROVE  client'[fiber'].token.number >= reloading.since
  <2>1. McpTypeOK /\ FALSE \in BOOLEAN /\ TRUE \in BOOLEAN
    BY <1>1 DEF McpInv
  <2>2. ~ReloadEnds(FALSE)
    BY <1>1, <2>1, ReloadSettles DEF ReloadEnds
  <2>3. ASSUME NEW ok \in BOOLEAN, StartEnds(ok) PROVE Reloading("mounting") /\ ok
    <3>1. Reloading("mounting")
      BY <1>1, <2>1, <2>3, StartSettles
    <3> QED
      BY <1>1, <2>1, <2>3, <3>1, StartSettles
  <2>4. ~StartEnds(FALSE)
    BY <2>1, <2>3
  <2>5. ~Remount
    <3>1. ASSUME Remount PROVE FALSE
      <4>1. fiber = 0
        BY <1>1, <3>1 DEF Remount, McpInv, ReloadsWait
      <4>2. reloading \in Reloads
        BY <1>1, <2>1 DEF McpTypeOK
      <4>3. [reloading EXCEPT !.at = "mounting"] \in Reloads
        BY <4>2 DEF Reloads
      <4>4. reloading' # [reloading EXCEPT !.at = "mounting"]
        BY <1>1, <4>3, NullIsNoPromise
      <4>5. ReloadEnds(Active /\ fiber # 0)
        BY <3>1, <4>4 DEF Remount
      <4>6. (Active /\ fiber # 0) = FALSE
        BY <4>1
      <4> QED
        BY <2>2, <4>5, <4>6
    <3> QED
      BY <3>1
  <2>6. ASSUME NEW p \in BOOLEAN, MountReturns(p)
        PROVE  client'[fiber'].token.number >= reloading.since
    <3>1. Starting("mounting") /\ StartEnds(TRUE) /\ Active /\ (p \/ Published) /\ fiber' = New
      BY <1>1, <2>6 DEF MountReturns
    <3>2. client[New].token.number >= reloading.since
      BY <1>1, <2>1, <2>3, <3>1 DEF McpInv, ReloadsWait
    <3>3. client' = [client EXCEPT ![New].published = p, ![New].state = "live"]
      BY <2>6, <3>1 DEF MountReturns
    <3>4. New \in DOMAIN client /\ client[New] \in Clients
      BY <1>1, <3>1, ClientFacts DEF McpInv, StartsAlone
    <3>5. client' = [client EXCEPT ![New] = [client[New] EXCEPT !.published = p, !.state = "live"]]
      BY <3>3, <3>4
    <3>6. client'[New].token = client[New].token
      BY <1>1, <3>1, <3>5, MountedClient
    <3> QED
      BY <3>1, <3>2, <3>6
  <2>7. ASSUME NEW k \in DOMAIN client, NEW ok \in BOOLEAN, Disposed(k, ok) PROVE FALSE
    <3>1. CASE reloading' = [reloading EXCEPT !.at = "disposed"]
      <4>1. reloading \in Reloads
        BY <1>1, <2>1 DEF McpTypeOK
      <4>2. [reloading EXCEPT !.at = "disposed"] \in Reloads
        BY <4>1 DEF Reloads
      <4> QED
        BY <1>1, <3>1, <4>2, NullIsNoPromise
    <3> QED
      BY <1>1, <2>2, <2>4, <2>7, <3>1 DEF Disposed
  <2>8. ~TrustResolves /\ ~TokenResolves /\ ~MountFails
    BY <1>1, <2>4 DEF TrustResolves, TokenResolves, MountFails
  <2>9. ASSUME NEW d \in Calls,
               CallEnsure(d) \/ CallRefresh(d) \/ EnsureResumes(d) \/ RefreshResumes(d)
        PROVE  FALSE
    <3>1. ~UNCHANGED reloading
      BY <1>1
    <3>2. RefreshResumes(d)
      BY <2>9, <3>1 DEF CallEnsure, CallRefresh, EnsureResumes
    <3> QED
      BY <1>1, <3>1, <3>2 DEF RefreshResumes
  <2>10. ~OwnerUnloads /\ ~CredentialRotates /\ ~IdentityChanges /\ ~UNCHANGED mcpVars
    BY <1>1 DEF OwnerUnloads, CredentialRotates, IdentityChanges, mcpVars
  <2> QED
    BY <1>1, <2>5, <2>6, <2>7, <2>8, <2>9, <2>10 DEF McpNext, McpStep
<1>2. McpInv /\ [McpNext]_mcpVars =>
        [reloading # NULL /\ reloading' = NULL
           /\ (\E c \in Calls : call[c].at = "reloading" /\ call'[c].ok)
         => client'[fiber'].token.number >= reloading.since]_mcpVars
  BY <1>1
<1> QED
  BY <1>2, McpInvariant, PTL DEF McpSpec, ReloadReconnects
==============================================================================
