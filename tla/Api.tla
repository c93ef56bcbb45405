--------------------------------- MODULE Api ---------------------------------
(***************************************************************************)
(* examples/http-api: users and posts in memory, behind an HTTP server.    *)
(*                                                                         *)
(* The server runs every handler in a goroutine of its own.  A handler     *)
(* resolves one service in the scope, and the service calls the            *)
(* MemoryStorage that its factory was given.  The scope is the one of      *)
(* module Scope with the executors of graph.go.  A storage is as good as   *)
(* the run of the factory that made it: what another run made knows        *)
(* nothing of its users.                                                   *)
(***************************************************************************)
EXTENDS Integers, SequencesExt

CONSTANTS
    Handlers, \* goroutines, each of which runs one handler after another
    Emails,   \* of users
    MaxCalls  \* bound on the number of requests

VARIABLES
    cache, edges, registry, runs, stack, job, calls, disposals, \* see Scope
    returned,  \* returned[p]: for each frame of p, the runs whose values have
               \* been returned to it
    objects,   \* objects[run]: what that run of a factory made
    request,   \* request[p]: the request p handles
    reported,  \* users and posts that requests have reported as created
    replaced   \* has a cached storage been replaced by another?

scope == <<cache, edges, registry, runs, stack, job, calls, disposals>>
apiVars == <<scope, returned, objects, request, reported, replaced>>

-----------------------------------------------------------------------------
(* graph.go *)
Executors == {"Config", "Storage", "UserService", "PostService", "StatsService"}

Dependencies == [e \in Executors |->
    CASE e = "UserService"  -> <<"Storage">>
      [] e = "PostService"  -> <<"Storage", "UserService">>
      [] e = "StatsService" -> <<"Storage", "Config">>
      [] OTHER              -> <<>>]

ReactiveDependencies ==
    [e \in Executors |-> IF e = "StatsService" THEN {"Config"} ELSE {}]

(* Every run of a factory registers itself as if it called OnCleanup, so   *)
(* that it has a number; nobody disposes of the scope meanwhile.           *)
S == INSTANCE Scope WITH
    Procs <- Handlers, Execs <- Executors,
    Eager <- Dependencies, Reads <- Dependencies,
    Reactive <- ReactiveDependencies, Closers <- Executors,
    ValuePresets <- {}, Replacement <- [e \in {} |-> e], Faulty <- {},
    Updatable <- {}, FlowDeps <- {}, Calls <- {"Get"},
    Overlap <- TRUE, Cancellable <- FALSE

(* What a run was given, and, if it made a storage, what is in it.  The    *)
(* number of a user is its place, for nobody is ever deleted; a post is    *)
(* the number of its user.                                                 *)
Object(parts) == [parts |-> parts, users |-> <<>>, posts |-> <<>>]

NoRequest == [at |-> "idle", kind |-> "none", service |-> 0, user |-> 0,
              before |-> {}, missing |-> {}]

ApiInit ==
    /\ S!Init
    /\ returned = [p \in Handlers |-> <<>>]
    /\ objects = <<>>
    /\ request = [p \in Handlers |-> NoRequest]
    /\ reported = {}
    /\ replaced = FALSE

-----------------------------------------------------------------------------
Asks == [ createUser |-> "UserService", listUsers |-> "UserService",
          getUser |-> "UserService", createPost |-> "PostService",
          listPosts |-> "PostService", getPost |-> "PostService",
          stats |-> "StatsService" ]

(* A handler starts, and resolves its service.  A path without a number    *)
(* ends it before.                                                         *)
Receive(p, kind) ==
    /\ request[p].at = "idle"
    /\ S!Get(p, Asks[kind])
    /\ returned' = [returned EXCEPT ![p] = <<<<>>>>]
    /\ request' = [request EXCEPT ![p] = [NoRequest EXCEPT
                       !.at = "resolve", !.kind = kind, !.before = reported]]
    /\ UNCHANGED <<objects, reported, replaced>>

(* A step of the scope: a frame more, a frame less whose value goes to the *)
(* one below, or the same frames.  A run that ends was given what its      *)
(* frame has been returned.                                                *)
Frames(p) ==
    LET depth == Len(stack[p])
        run == Last(stack'[p]).got.run
    IN  CASE Len(stack'[p]) > depth -> Append(returned[p], <<>>)
          [] Len(stack'[p]) = depth -> returned[p]
          [] stack'[p] = <<>> -> <<>>
          [] OTHER ->
                [Front(returned[p]) EXCEPT ![depth - 1] = Append(@, run)]

(* What Resolve returns: what was cached, or what it has just stored.      *)
Resolved(p) ==
    IF S!At(p, "load") THEN cache[S!Top(p).exec].run ELSE S!Top(p).got.run

Serve(p) ==
    /\ S!Step(p)
    /\ returned' = [returned EXCEPT ![p] = Frames(p)]
    /\ objects' = IF runs' = runs THEN objects
                  ELSE Append(objects, Object(Last(returned[p])))
    /\ request' = IF stack'[p] # <<>> THEN request
                  ELSE [request EXCEPT ![p].at = "call", ![p].service = Resolved(p)]
    /\ replaced' = (replaced \/ (cache["Storage"].kind # "none"
                                    /\ cache'["Storage"] # cache["Storage"]))
    /\ UNCHANGED reported

-----------------------------------------------------------------------------
(* A bug: a service asks for a storage anew, and gets the last one made. *)
StorageOfLast(service) == CHOOSE r \in DOMAIN runs :
    /\ runs[r].exec = "Storage"
    /\ \A q \in DOMAIN runs : runs[q].exec = "Storage" => q <= r

(* The storage a service was given, and the user service of a post service. *)
StorageOf(service) == objects[service].parts[1]
UserServiceOf(service) == objects[service].parts[2]

User(storage, id) == [what |-> "user", storage |-> storage, id |-> id]
Post(storage, id) == [what |-> "post", storage |-> storage, id |-> id]

Users(storage) == { User(storage, id) : id \in DOMAIN objects[storage].users }
Posts(storage) == { Post(storage, id) : id \in DOMAIN objects[storage].posts }

(* What is asked for, was reported as created before the request came, and *)
(* is not among what is found.                                             *)
Missing(p, Asked(_), found) == { x \in request[p].before \ found : Asked(x) }

IsUser(x) == x.what = "user"
IsPost(x) == x.what = "post"

Calls(p, kind) ==
    /\ request[p].at = "call"
    /\ request[p].kind = kind
    /\ UNCHANGED <<scope, returned, replaced>>

Answer(p, missing) ==
    request' = [request EXCEPT ![p] = [NoRequest EXCEPT !.missing = missing]]

AddUser(storage) ==
    \E email \in Emails \ ToSet(objects[storage].users) :
        objects' = [objects EXCEPT ![storage].users = Append(@, email)]

(* Without a name or an email, and with one that is taken, nobody is added. *)
CreateUser(p) ==
    /\ Calls(p, "createUser")
    /\ LET storage == StorageOf(request[p].service)
           users == objects[storage].users
       IN \/ /\ AddUser(storage)
             /\ reported' = reported \union {User(storage, Len(users) + 1)}
          \/ UNCHANGED <<objects, reported>>
    /\ Answer(p, {})

ListUsers(p) ==
    /\ Calls(p, "listUsers")
    /\ Answer(p, Missing(p, IsUser, Users(StorageOf(request[p].service))))
    /\ UNCHANGED <<objects, reported>>

GetUser(p) ==
    /\ Calls(p, "getUser")
    /\ \E id \in 1..MaxCalls :
          LET Asked(x) == IsUser(x) /\ x.id = id
          IN  Answer(p, Missing(p, Asked, Users(StorageOf(request[p].service))))
    /\ UNCHANGED <<objects, reported>>

(* PostService.Create: the user is looked up by the user service, ...      *)
LookUp(p) ==
    /\ Calls(p, "createPost")
    /\ \E id \in 1..MaxCalls :
          LET users == Users(StorageOf(UserServiceOf(request[p].service)))
              Asked(x) == IsUser(x) /\ x.id = id
          IN  IF \E x \in users : Asked(x)
              THEN request' = [request EXCEPT ![p].at = "add", ![p].user = id]
              ELSE Answer(p, Missing(p, Asked, users))
    /\ UNCHANGED <<objects, reported>>

(* ... and the post added to the post service's own storage, unless it has *)
(* no title.                                                               *)
AddPost(p) ==
    /\ request[p].at = "add"
    /\ LET storage == StorageOf(request[p].service)
           posts == objects[storage].posts
       IN \/ /\ objects' = [objects EXCEPT
                    ![storage].posts = Append(@, request[p].user)]
             /\ reported' = reported \union {Post(storage, Len(posts) + 1)}
          \/ UNCHANGED <<objects, reported>>
    /\ Answer(p, {})
    /\ UNCHANGED <<scope, returned, replaced>>

ListPosts(p) ==
    /\ Calls(p, "listPosts")
    /\ Answer(p, Missing(p, IsPost, Posts(StorageOf(request[p].service))))
    /\ UNCHANGED <<objects, reported>>

GetPost(p) ==
    /\ Calls(p, "getPost")
    /\ \E id \in 1..MaxCalls :
          LET Asked(x) == IsPost(x) /\ x.id = id
          IN  Answer(p, Missing(p, Asked, Posts(StorageOf(request[p].service))))
    /\ UNCHANGED <<objects, reported>>

(* GetStats counts the users, and then the posts. *)
CountUsers(p) ==
    /\ Calls(p, "stats")
    /\ request' = [request EXCEPT ![p].at = "count", ![p].missing =
           Missing(p, IsUser, Users(StorageOf(request[p].service)))]
    /\ UNCHANGED <<objects, reported>>

CountPosts(p) ==
    /\ request[p].at = "count"
    /\ Answer(p, request[p].missing \union
           Missing(p, IsPost, Posts(StorageOf(request[p].service))))
    /\ UNCHANGED <<scope, returned, objects, reported, replaced>>

-----------------------------------------------------------------------------
Handle(p) ==
    \/ \E kind \in DOMAIN Asks : Receive(p, kind)
    \/ Serve(p)
    \/ CreateUser(p) \/ ListUsers(p) \/ GetUser(p)
    \/ LookUp(p) \/ AddPost(p) \/ ListPosts(p) \/ GetPost(p)
    \/ CountUsers(p) \/ CountPosts(p)

ApiNext == \E p \in Handlers : Handle(p)

ApiSpec == ApiInit /\ [][ApiNext]_apiVars

-----------------------------------------------------------------------------
(* Every service that any factory ever makes, the ones whose value is      *)
(* dropped included, stands on the storage that is cached.                 *)
OneStorage ==
    \A r \in DOMAIN runs :
        runs[r].exec \in {"UserService", "PostService", "StatsService"} =>
            /\ StorageOf(r) = cache["Storage"].run
            /\ runs[r].exec = "PostService" =>
                  StorageOf(UserServiceOf(r)) = cache["Storage"].run

(* graph.go: there is one storage, although its factory runs again for     *)
(* every service, as long as no cached storage has been replaced by        *)
(* another; only first requests that come together do that.                *)
OneUnlessReplaced == ~replaced => OneStorage

(* handlers.go: then what a request reports as created is seen by every    *)
(* request that comes later, by whichever service, and a post by a user    *)
(* who was there is not refused.                                           *)
ReadsUnlessReplaced == ~replaced => \A p \in Handlers : request[p].missing = {}

(* A storage is cached, and nobody is about to cache another.              *)
Settled ==
    /\ cache["Storage"].kind # "none"
    /\ \A p \in Handlers : \A f \in ToSet(stack[p]) :
          f.exec = "Storage" => f.at \notin {"link", "deps", "store"}

(* However many first requests came together, the storage that is cached   *)
(* when the last of them has stored its own stays: it is the first         *)
(* requests that lose what they create, and the services they cached       *)
(* (scope.go 97-107, 205).                                                 *)
StorageSettles == [][Settled => Settled' /\ UNCHANGED cache["Storage"]]_apiVars
=============================================================================
