----------------------------- MODULE SlimSetup -----------------------------
(***************************************************************************)
(* slim_helper: initialize_slim_service, connect_and_subscribe and         *)
(* setup_slim_client, called by coroutines of one process.  The process    *)
(* runs event loops one after the other (asyncio.run); the service and its *)
(* connections live in the runtime of slim_bindings and outlive the loops. *)
(* A setup yields to the others at its two awaits, connect_async and       *)
(* subscribe_async, and nowhere else.                                      *)
(*                                                                         *)
(* The global service holds one connection per node endpoint: a setup that *)
(* dials a connected endpoint is given that connection, or an error.       *)
(***************************************************************************)
EXTENDS Naturals

CONSTANTS
  Setups,     \* the calls of setup_slim_client and connect_and_subscribe
  Tried,      \* Tried[a]: the options the call may be made with
  MaxLoops    \* bound: event loops the process runs

\* The arguments that matter.  "empty" is the empty string, "wrong" an object
\* that is no SlimIdentity.
Options ==
  [ slim_url      : { "none", "empty", "node" },
    client_config : { "none", "tls" },
    secret        : { "none", "empty", "key" },
    identity      : { "none", "wrong", "slim" } ]

ASSUME SlimSetupAssumption ==
  Tried \in [Setups -> SUBSET Options] /\ MaxLoops \in Nat

VARIABLES
  loops,      \* event loops started so far; the last is the one that may run
  running,    \* that loop runs
  callbacks,  \* the loop slim_bindings calls back on, 0 for none
  service,    \* the global service is initialised
  conns,      \* the endpoints it is connected to
  pc,         \* pc[a]: where the call stands
  entry,      \* entry[a]: the function called
  home,       \* home[a]: the loop it was called on
  opts,       \* opts[a]: its options
  app,        \* app[a]: the credential its app was created with
  names       \* the calls whose name is subscribed

globalVars == <<loops, running, callbacks, service, conns>>
setupVars == <<globalVars, pc, entry, home, opts, app, names>>

Blank ==
  [ slim_url |-> "none", client_config |-> "none",
    secret |-> "none", identity |-> "none" ]

\* connecting, subscribing  at an await     connected, subscribed  its future
\* is done and the coroutine not yet resumed
UnderWay == { "connecting", "connected", "subscribing", "subscribed" }
Over     == { "returned", "rejected", "failed", "cancelled" }
SetupStates   == { "idle" } \cup UnderWay \cup Over

SetupInit ==
  /\ loops = 0 /\ running = FALSE
  /\ callbacks = 0 /\ service = FALSE /\ conns = {}
  /\ pc    = [a \in Setups |-> "idle"]
  /\ entry = [a \in Setups |-> "none"]
  /\ home  = [a \in Setups |-> 0]
  /\ opts  = [a \in Setups |-> Blank]
  /\ app   = [a \in Setups |-> "none"]
  /\ names = {}

-----------------------------------------------------------------------------
(***************************************************************************)
(* _resolve_connect_options.                                               *)
(***************************************************************************)
\* A faulty variant: truth of the strings instead of `is not None'.
AcceptedIfTruthy(o) ==
  /\ ~(o.slim_url = "node" /\ o.client_config # "none")
  /\ ~(o.secret = "key" /\ o.identity # "none")
  /\ IF o.identity # "none" THEN o.identity = "slim" ELSE o.secret = "key"

\* None of its four raises is taken.
Accepted(o) ==
  /\ ~(o.slim_url # "none" /\ o.client_config # "none")
  /\ ~(o.secret # "none" /\ o.identity # "none")
  /\ IF o.identity # "none" THEN o.identity = "slim" ELSE o.secret = "key"

\* The endpoint of the client config it returns.
Endpoint(o) ==
  CASE o.client_config # "none" -> o.client_config
    [] o.client_config = "none" /\ o.slim_url # "none" -> o.slim_url
    [] OTHER -> "default"

\* The credential the app factory it returns has closed over.
Credential(o) == IF o.identity # "none" THEN o.identity ELSE o.secret

-----------------------------------------------------------------------------
Goto(a, state) == pc' = [pc EXCEPT ![a] = state]

Called(a, function, o) ==
  /\ pc[a] = "idle" /\ running
  /\ entry' = [entry EXCEPT ![a] = function]
  /\ home'  = [home EXCEPT ![a] = loops]
  /\ opts'  = [opts EXCEPT ![a] = o]
  /\ UNCHANGED <<loops, running, app, names>>

\* A faulty variant: the loop is set for the first service only.
InitializesOnce(ok) ==
  /\ callbacks' = IF service THEN callbacks ELSE loops
  /\ service'   = (service \/ ok)

\* The whole of initialize_slim_service runs without an await; it may raise
\* after the loop was set.
Initializes(ok) ==
  /\ callbacks' = loops
  /\ service'   = (service \/ ok)

InitializeSlimService ==
  /\ running
  /\ \E ok \in BOOLEAN : Initializes(ok)
  /\ UNCHANGED <<loops, running, conns, pc, entry, home, opts, app, names>>

\* A faulty variant: setup_slim_client without the check of its first line,
\* which leaves it to connect_and_subscribe.
SetupUnchecked(a) ==
  \E o \in Tried[a] :
    /\ Called(a, "setup_slim_client", o) /\ UNCHANGED conns
    /\ \E ok \in BOOLEAN :
         /\ Initializes(ok)
         /\ Goto(a, IF ~ok THEN "failed"
                    ELSE IF Accepted(o) THEN "connecting" ELSE "rejected")

\* Up to the await of connect_async.
SetupSlimClient(a) ==
  \E o \in Tried[a] :
    /\ Called(a, "setup_slim_client", o) /\ UNCHANGED conns
    /\ \/ ~Accepted(o) /\ Goto(a, "rejected") /\ UNCHANGED <<callbacks, service>>
       \/ /\ Accepted(o)
          /\ \E ok \in BOOLEAN :
               Initializes(ok) /\ Goto(a, IF ok THEN "connecting" ELSE "failed")

\* With the Service of an earlier call, on this loop or on one before it.
ConnectAndSubscribe(a) ==
  \E o \in Tried[a] :
    /\ service
    /\ Called(a, "connect_and_subscribe", o)
    /\ Goto(a, IF Accepted(o) THEN "connecting" ELSE "rejected")
    /\ UNCHANGED <<callbacks, service, conns>>

\* connect_async of slim_bindings.
Connects(a) ==
  /\ pc[a] = "connecting" /\ running
  /\ conns' = conns \cup { Endpoint(opts[a]) }
  /\ Goto(a, "connected")
  /\ UNCHANGED <<loops, running, callbacks, service, entry, home, opts, app, names>>

ConnectRaises(a) ==
  /\ pc[a] = "connecting" /\ running
  /\ Goto(a, "failed")
  /\ UNCHANGED <<globalVars, entry, home, opts, app, names>>

\* A faulty variant: subscribe_async is called and not awaited.
CreateAppReturns(a) ==
  /\ pc[a] = "connected" /\ running
  /\ app' = [app EXCEPT ![a] = Credential(opts[a])]
  /\ Goto(a, "returned")
  /\ UNCHANGED <<globalVars, entry, home, opts, names>>

\* create_app, up to the await of subscribe_async.
CreateApp(a) ==
  /\ pc[a] = "connected" /\ running
  /\ app' = [app EXCEPT ![a] = Credential(opts[a])]
  /\ Goto(a, "subscribing")
  /\ UNCHANGED <<globalVars, entry, home, opts, names>>

\* A secret too short, an identity that cannot sign: the connection stays.
CreateAppRaises(a) ==
  /\ pc[a] = "connected" /\ running
  /\ Goto(a, "failed")
  /\ UNCHANGED <<globalVars, entry, home, opts, app, names>>

\* subscribe_async of slim_bindings.
Subscribes(a) ==
  /\ pc[a] = "subscribing" /\ running
  /\ names' = names \cup { a }
  /\ Goto(a, "subscribed")
  /\ UNCHANGED <<globalVars, entry, home, opts, app>>

SubscribeRaises(a) ==
  /\ pc[a] = "subscribing" /\ running
  /\ Goto(a, "failed")
  /\ UNCHANGED <<globalVars, entry, home, opts, app, names>>

Returns(a) ==
  /\ pc[a] = "subscribed" /\ running
  /\ Goto(a, "returned")
  /\ UNCHANGED <<globalVars, entry, home, opts, app, names>>

-----------------------------------------------------------------------------
\* What an abandoned await leaves behind: the runtime may carry on with it.
Abandons(gone) ==
  /\ conns' \in { conns \cup { Endpoint(opts[a]) : a \in b } :
                    b \in SUBSET { a \in gone : pc[a] = "connecting" } }
  /\ names' \in { names \cup b :
                    b \in SUBSET { a \in gone : pc[a] = "subscribing" } }
  /\ pc' = [a \in Setups |-> IF a \in gone THEN "cancelled" ELSE pc[a]]

Cancel(a) ==
  /\ pc[a] \in UnderWay /\ running
  /\ Abandons({ a })
  /\ UNCHANGED <<loops, running, callbacks, service, entry, home, opts, app>>

RunLoop ==
  /\ ~running /\ loops < MaxLoops
  /\ loops' = loops + 1 /\ running' = TRUE
  /\ UNCHANGED <<callbacks, service, conns, pc, entry, home, opts, app, names>>

\* asyncio.run cancels the tasks that are left.
CloseLoop ==
  /\ running
  /\ running' = FALSE
  /\ Abandons({ a \in Setups : pc[a] \in UnderWay })
  /\ UNCHANGED <<loops, callbacks, service, entry, home, opts, app>>

SetupStep(a) ==
  \/ Connects(a) \/ ConnectRaises(a) \/ CreateApp(a) \/ CreateAppRaises(a)
  \/ Subscribes(a) \/ SubscribeRaises(a) \/ Returns(a)

SetupNext ==
  \/ RunLoop \/ CloseLoop \/ InitializeSlimService
  \/ \E a \in Setups :
       \/ SetupSlimClient(a) \/ ConnectAndSubscribe(a)
       \/ SetupStep(a) \/ Cancel(a)

SetupSpec == SetupInit /\ [][SetupNext]_setupVars

-----------------------------------------------------------------------------
Endpoints == { "default", "empty", "node", "tls" }

SetupTypeOK ==
  /\ loops \in 0 .. MaxLoops /\ running \in BOOLEAN
  /\ callbacks \in 0 .. loops /\ service \in BOOLEAN
  /\ conns \subseteq Endpoints
  /\ pc    \in [Setups -> SetupStates]
  /\ entry \in [Setups -> { "none", "setup_slim_client", "connect_and_subscribe" }]
  /\ home  \in [Setups -> 0 .. loops]
  /\ opts  \in [Setups -> Options]
  /\ app   \in [Setups -> { "none", "key", "slim" }]
  /\ names \subseteq Setups

Given(x) == x # "none"

\* What the documentation says of the options: whoever dials gave one
\* credential, and not both a URL and a configuration; the default endpoint is
\* dialled only when neither was given; an app has the credential given.
OptionsHonoured ==
  \A a \in Setups :
    LET o == opts[a] IN
      /\ pc[a] \in UnderWay \cup { "returned" } =>
           /\ ~(Given(o.secret) <=> Given(o.identity))
           /\ ~(Given(o.slim_url) /\ Given(o.client_config))
      /\ pc[a] \in { "connected", "subscribing", "subscribed", "returned" } =>
           IF Given(o.slim_url) \/ Given(o.client_config)
           THEN conns \cap { o.slim_url, o.client_config } # {}
           ELSE "default" \in conns
      /\ Given(app[a]) => app[a] \in { o.secret, o.identity }

\* A call that raises for its options has touched neither the event loop of
\* the callbacks, nor the global service, nor a connection.
RejectionIsFirst(a) ==
  pc[a] # "rejected" /\ pc'[a] = "rejected" =>
    UNCHANGED <<callbacks, service, conns, app, names>>

RejectedTouchesNothing == [][\A a \in Setups : RejectionIsFirst(a)]_setupVars

\* What the place of a call says of what it has set up.
Stages(a) ==
  /\ pc[a] \in UnderWay \cup { "returned" } => service /\ Accepted(opts[a])
  /\ pc[a] \in { "connected", "subscribing", "subscribed", "returned" } =>
       Endpoint(opts[a]) \in conns
  /\ pc[a] \in { "subscribing", "subscribed", "returned" } => Given(app[a])
  /\ pc[a] \in { "subscribed", "returned" } => a \in names
  /\ pc[a] \in { "idle", "rejected" } => ~Given(app[a])
  /\ Given(app[a]) => Endpoint(opts[a]) \in conns
  /\ a \in names => Given(app[a])

\* A connection that no call under way and no returned app uses was left by a
\* call that failed or was cancelled after it dialled: a rejected call, or one
\* not yet dialling, leaves none.
LeakedByFailure ==
  \A e \in conns : \E a \in Setups :
    /\ Endpoint(opts[a]) = e /\ Accepted(opts[a])
    /\ pc[a] \in UnderWay \cup { "returned", "failed", "cancelled" }

\* Whatever step of whichever call fails or is cancelled, on whatever loop,
\* what it leaves is a prefix of connection, app, subscription, left by a call
\* that dialled; a call that returns has all three, and no app is subscribed
\* without a credential and its own connection.
SetupInv ==
  /\ SetupTypeOK
  /\ \A a \in Setups : Stages(a)
  /\ LeakedByFailure

\* As long as the loop of a setup_slim_client call runs, slim_bindings calls
\* back on that loop, also when an earlier loop had initialised the service.
CallbacksOnRunningLoop ==
  \A a \in Setups :
    /\ entry[a] = "setup_slim_client" /\ pc[a] \in UnderWay \cup { "returned" }
    /\ running /\ home[a] = loops
    => callbacks = loops

=============================================================================
