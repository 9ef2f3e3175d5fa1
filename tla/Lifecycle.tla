----------------------------- MODULE Lifecycle -----------------------------
(***************************************************************************)
(* What a program does with runners and callables beside calling run():    *)
(* get_runner, add, add_single_callable and the destructors, with what     *)
(* outlives a runner: the static page and counter of the shared memory     *)
(* interrupter, and the static flag of the socket interrupter.  The port   *)
(* of the socket interrupters may be another program's.  The program may   *)
(* end at any point, by a fork of the server that fails for one.           *)
(***************************************************************************)
EXTENDS Naturals, Sequences, FiniteSets

CONSTANTS
  Runner,     \* runners the program makes, one after the other or together
  Simple,     \* Callables and MapCallables
  Multiple,   \* MultipleCallables
  Null,       \* an empty shared_ptr
  MaxRuns,    \* the program calls run() of a runner at most this often
  GivenOnce   \* does the program hand over each callable only once?

Object == Simple \cup Multiple

(* The interrupter of the k-th callable added to runner r.                 *)
Interrupter == Runner \X (1 .. Cardinality(Object))

ASSUME LifecycleAssumption ==
  /\ IsFiniteSet(Object)
  /\ Simple \cap Multiple = {}
  /\ Null \notin Interrupter
  /\ MaxRuns \in Nat
  /\ GivenOnce \in BOOLEAN

VARIABLES
  state,      \* state[r]: has runner r been made, has it been destroyed?
  kind,       \* kind[r]: its interrupters
  units,      \* units[r]: _proccesses, the callables added to r
  ran,        \* ran[r]: calls of run()
  items,      \* items[m]: the callables in the list of m
  handler,    \* handler[c]: _sighandler
  given,      \* callables that have been handed to add or add_single_callable
  freed,      \* freed[c]: how often c has been deleted
  counter,    \* SharedMemorySystemInterrupter::counter
  page,       \* what is in the page that shared_mem points to
  created,    \* static bool created of the socket interrupter
  server,     \* the interrupter that knows the pid of the server, if it runs
  failed,     \* was the server unable to listen?
  foreign,    \* has another program a server on the port?
  hangs       \* runner in whose add() the program hangs

objectVars == <<items, handler, given, freed>>
staticVars == <<counter, page, created, server, failed>>
lifeVars == <<state, kind, units, ran, objectVars, staticVars, foreign, hangs>>

(* The pairs of names for which get_runner returns a runner; the OpenMP    *)
(* runner does not look at the second.                                     *)
Offered ==
  ({"process"} \X {"signal", "socket", "shm"})
    \cup ({"thread"} \X {"cancel", "socket", "shm"})
    \cup ({"mpi_process"} \X {"mpip2p", "mpibroadcast"})
    \cup ({"openmp"} \X {"", "signal", "cancel", "socket", "shm", "mpip2p", "mpibroadcast"})

(* The interrupters that keep something static; the others are alike here. *)
KindOf(name, interrupter) ==
  IF name \in {"process", "thread"} /\ interrupter \in {"shm", "socket"}
  THEN interrupter ELSE "other"

Kinds == { KindOf(choice[1], choice[2]) : choice \in Offered }

LifeInit ==
  /\ state = [r \in Runner |-> "none"]
  /\ kind = [r \in Runner |-> "other"]
  /\ units = [r \in Runner |-> <<>>]
  /\ ran = [r \in Runner |-> 0]
  /\ items = [m \in Multiple |-> <<>>]
  /\ handler = [c \in Object |-> Null]
  /\ given = {}
  /\ freed = [c \in Object |-> 0]
  /\ counter = 0
  /\ page = "none"
  /\ created = FALSE
  /\ server = Null
  /\ failed = FALSE
  /\ foreign = FALSE
  /\ hangs = {}

-----------------------------------------------------------------------------
MembersOf(seq) == { seq[i] : i \in DOMAIN seq }

ItemsOf(c) == IF c \in Multiple THEN MembersOf(items[c]) ELSE {}

Exists(c) == freed[c] = 0

(* The interrupters to which some callable still has a shared_ptr.         *)
Held == { handler[c] : c \in { d \in Object : Exists(d) } } \ {Null}

OfKind(interrupters, k) == { h \in interrupters : kind[h[1]] = k }

KeepsCounter(dying) == 0

DecrementsForAny(dying) == Cardinality(dying)

(* ~SharedMemorySystemInterrupter of the interrupters that nobody holds.   *)
Decrements(dying) == Cardinality(OfKind(dying, "shm"))

KillsAnyServer(dying) == dying # {}

(* ~SocketServerSystemInterrupter of the one that has forked the server.   *)
KillsServer(dying) == server \in dying

(* The statics after the constructors of new interrupters, one or none,    *)
(* and the destructors of those that have lost their last holder: first    *)
(* those of the shared page.                                               *)
PageStatics(new, dying) ==
  /\ counter' = counter + Cardinality(OfKind(new, "shm")) - Decrements(dying)
  /\ page' = IF OfKind(new, "shm") # {} /\ counter = 0 THEN "clean" ELSE page

(* The first socket interrupter forks the server.  That cannot have the    *)
(* port of another program's, which is connected to instead.               *)
ServerStatics(new, dying) ==
  LET first == ~created /\ OfKind(new, "socket") # {}
  IN /\ created' = (created \/ first)
     /\ failed' = (failed \/ (first /\ foreign))
     /\ \/ first /\ ~foreign /\ server' \in new
        \/ first /\ foreign /\ server' = server
        \/ ~first /\ server' = IF KillsServer(dying) THEN Null ELSE server

Statics(new, dying) == PageStatics(new, dying) /\ ServerStatics(new, dying)

(* set_sig_handler, which a MultipleCallable passes on to its list.        *)
TakesHandlerAlone(c) == {c}

TakesHandler(c) == {c} \cup ItemsOf(c)

MayGive(c) == Exists(c) /\ (GivenOnce => c \notin given)

-----------------------------------------------------------------------------
Running == hangs = {}

GetRunner(r) ==
  /\ Running
  /\ state[r] = "none"
  /\ state' = [state EXCEPT ![r] = "live"]
  /\ \E k \in Kinds : kind' = [kind EXCEPT ![r] = k]
  /\ UNCHANGED <<units, ran, objectVars, staticVars, foreign, hangs>>

(* The item gets whatever interrupter the list has, which may be none yet. *)
AddSingleCallable(m, c) ==
  /\ Running
  /\ Exists(m) /\ MayGive(c)
  /\ c \notin ItemsOf(m)
  /\ items' = [items EXCEPT ![m] = Append(@, c)]
  /\ handler' = [handler EXCEPT ![c] = handler[m]]
  /\ given' = given \cup {c}
  /\ UNCHANGED <<state, kind, units, ran, freed, foreign, hangs>>
  /\ Statics({}, Held \ Held')

(* Nobody listens on the port, and a new interrupter will not change that. *)
NeedsServer(r) == kind[r] = "socket" /\ created /\ server = Null /\ ~foreign

Add(r, c) ==
  /\ Running
  /\ state[r] = "live"
  /\ MayGive(c)
  /\ ~NeedsServer(r)
  /\ Len(units[r]) < Cardinality(Object)
  /\ units' = [units EXCEPT ![r] = Append(@, c)]
  /\ given' = given \cup {c}
  /\ UNCHANGED <<state, kind, ran, items, freed, foreign, hangs>>
  /\ LET h == <<r, Len(units[r]) + 1>>
     IN /\ handler' = [d \in Object |-> IF d \in TakesHandler(c) THEN h ELSE handler[d]]
        /\ Statics({h}, Held \ Held')

(* Its server ends because it cannot listen, and nobody else does.         *)
CannotListen(r) == kind[r] = "socket" /\ ~created /\ ~foreign

(* The constructor of the interrupter tries to connect for ever.  (A       *)
(* program that another one's server frees from that is as one in which    *)
(* that server came before.)                                               *)
AddHangs(r) ==
  /\ Running
  /\ state[r] = "live"
  /\ NeedsServer(r) \/ CannotListen(r)
  /\ hangs' = {r}
  /\ created' = TRUE
  /\ failed' = (failed \/ ~created)
  /\ UNCHANGED <<state, kind, units, ran, objectVars, counter, page, server, foreign>>

(* A run with a success leaves its mark in the page, and one that finds    *)
(* that mark does nothing.                                                 *)
Run(r) ==
  /\ Running
  /\ state[r] = "live"
  /\ ran[r] < MaxRuns
  /\ ran' = [ran EXCEPT ![r] = @ + 1]
  /\ \/ UNCHANGED page
     \/ /\ kind[r] = "shm"
        /\ units[r] # <<>>
        /\ page' = "finished"
  /\ UNCHANGED <<state, kind, units, objectVars, counter, created, server, failed>>
  /\ UNCHANGED <<foreign, hangs>>

Occurrences(c, seq) == Cardinality({ i \in DOMAIN seq : seq[i] = c })

DeletesItemsToo(r, c) ==
  Occurrences(c, units[r])
    + 2 * Cardinality({ m \in Multiple \cap MembersOf(units[r]) : c \in ItemsOf(m) })

(* The destructor of the runner deletes the callables that were added, and *)
(* that of a MultipleCallable those of its list.                           *)
Deletes(r, c) ==
  Occurrences(c, units[r])
    + Cardinality({ m \in Multiple \cap MembersOf(units[r]) : c \in ItemsOf(m) })

Destroy(r) ==
  /\ Running
  /\ state[r] = "live"
  /\ state' = [state EXCEPT ![r] = "gone"]
  /\ freed' = [c \in Object |-> freed[c] + Deletes(r, c)]
  /\ UNCHANGED <<kind, units, ran, items, handler, given, foreign, hangs>>
  /\ Statics({}, Held \ Held')

(* Some socket interrupter that has been used has been deleted.            *)
SocketClosed ==
  \E r \in Runner : /\ kind[r] = "socket" /\ ran[r] > 0
                    /\ \E k \in DOMAIN units[r] : <<r, k>> \notin Held

(* The session of its socket deletes itself twice, from which the server   *)
(* may break, though other runners still need it.                          *)
ServerBreaks ==
  /\ Running
  /\ server # Null
  /\ SocketClosed
  /\ server' = Null
  /\ UNCHANGED <<state, kind, units, ran, objectVars, counter, page, created, failed>>
  /\ UNCHANGED <<foreign, hangs>>

(* The server of another program comes, if the port is free, and goes.     *)
ForeignServer ==
  /\ Running
  /\ foreign' = ~foreign
  /\ foreign' => server = Null
  /\ UNCHANGED <<state, kind, units, ran, objectVars, staticVars, hangs>>

LifeNext ==
  \/ \E r \in Runner :
       GetRunner(r) \/ AddHangs(r) \/ Run(r) \/ Destroy(r) \/ \E c \in Object : Add(r, c)
  \/ \E m \in Multiple, c \in Simple : AddSingleCallable(m, c)
  \/ ServerBreaks
  \/ ForeignServer

LifeSpec == LifeInit /\ [][LifeNext]_lifeVars

-----------------------------------------------------------------------------
(* Type invariant of the runners, the callables and the statics. *)
LifeTypeOK ==
  /\ state \in [Runner -> {"none", "live", "gone"}]
  /\ kind \in [Runner -> Kinds]
  /\ units \in [Runner -> Seq(Object)]
  /\ ran \in [Runner -> 0 .. MaxRuns]
  /\ items \in [Multiple -> Seq(Simple)]
  /\ handler \in [Object -> Interrupter \cup {Null}]
  /\ given \subseteq Object
  /\ freed \in [Object -> Nat]
  /\ counter \in Nat
  /\ page \in {"none", "clean", "finished"}
  /\ created \in BOOLEAN
  /\ server \in Interrupter \cup {Null}
  /\ failed \in BOOLEAN
  /\ foreign \in BOOLEAN
  /\ hangs \subseteq Runner

(* The static counter is the number of interrupters that share the page,   *)
(* however the shared_ptrs to them have been passed around and dropped.    *)
CounterExact == counter = Cardinality(OfKind(Held, "shm"))

UsesPage(r) == state[r] = "live" /\ kind[r] = "shm" /\ units[r] # <<>>

(* A runner whose predecessors have been destroyed starts with a page of   *)
(* its own: the success of an earlier run does not stop it.                *)
FreshStart ==
  [][\A r \in Runner :
       UsesPage(r)' /\ (\A o \in Runner : ~UsesPage(o)) => page' = "clean"]_lifeVars

(* When run() of a runner is called, every callable it will run, those in  *)
(* the lists of its MultipleCallables included, has the interrupter of its *)
(* own unit: nobody throws RunWithNoSighandler or asks an empty pointer.   *)
HandlersReady ==
  \A r \in Runner : state[r] = "live" =>
    \A k \in DOMAIN units[r] :
      \A c \in {units[r][k]} \cup ItemsOf(units[r][k]) : handler[c] = <<r, k>>

(* No callable is deleted twice, if the program hands it over once. *)
FreedOnce == \A c \in Object : freed[c] <= 1

(* add() hangs for want of a server only if the one forked by the first    *)
(* interrupter could not listen, or in a program that has destroyed a      *)
(* runner with socket interrupters before.                                 *)
HangsForCause ==
  hangs # {} => failed \/ \E r \in Runner : state[r] = "gone" /\ kind[r] = "socket"
=============================================================================
