------------------------------ MODULE HostStartup ------------------------------
(***************************************************************************)
(* Finding the control host of a directory, or starting it                 *)
(* (theywork-control, client.rs: connect_or_spawn and call; supervisor.rs: *)
(* run_supervisor and Host::load).                                         *)
(*                                                                         *)
(* Any number of processes call connect_or_spawn at once.  They meet in    *)
(* the files of a control directory: startup.lock, held by a call while it *)
(* starts a host; config.json, which that host reads; host.lock, held by   *)
(* the one host that may serve; state.json; endpoint.json, which names it. *)
(* Directories share the loopback ports of the machine, and a port is free *)
(* again when its host dies, while the endpoint.json that names it stays.  *)
(*                                                                         *)
(* A host is named by the call that started it: its token and generation   *)
(* are drawn at random and never met again.  Every process may die at any  *)
(* moment, and a call may fail wherever the file system or the clock may.  *)
(***************************************************************************)
EXTENDS Naturals, FiniteSets

CONSTANTS
  Calls,     \* calls of connect_or_spawn, each in a process of its own
  Dirs,      \* control directories
  Homes,     \* provider homes (codex_home)
  Ports,     \* loopback ports
  DirOf,     \* Calls -> Dirs
  HomeOf,    \* Calls -> Homes: the home in the caller's configuration
  None

Endpoints == [token: Calls, port: Ports, home: Homes]

ASSUME CallsAssumption ==
  /\ DirOf \in [Calls -> Dirs]
  /\ HomeOf \in [Calls -> Homes]

ASSUME NoneAssumption ==
  None \notin Calls \cup Homes \cup Ports \cup Endpoints

VARIABLES
  \* the files of each directory
  startup,     \* the call that holds startup.lock
  configFile,  \* the home in config.json
  owner,       \* the host that holds host.lock
  stateHome,   \* codex_home in state.json
  endpoint,    \* endpoint.json
  \* each call
  pc,          \* where it is
  read,        \* the endpoint it has read
  linked,      \* the host whose snapshot it returned with
  \* the host each call started
  stage,       \* how far it is
  config,      \* the home in the configuration it read
  port         \* the port it listens on

fileVars == <<startup, configFile, owner, stateHome, endpoint>>
callVars == <<pc, read, linked>>
hostVars == <<stage, config, port>>
vars == <<fileVars, callVars, hostVars>>

Init ==
  /\ startup = [d \in Dirs |-> None] /\ configFile = [d \in Dirs |-> None]
  /\ owner = [d \in Dirs |-> None] /\ stateHome = [d \in Dirs |-> None]
  /\ endpoint = [d \in Dirs |-> None]
  /\ pc = [c \in Calls |-> "idle"] /\ read = [c \in Calls |-> None]
  /\ linked = [c \in Calls |-> None]
  /\ stage = [c \in Calls |-> "none"] /\ config = [c \in Calls |-> None]
  /\ port = [c \in Calls |-> None]

-----------------------------------------------------------------------------
(* connect_or_spawn.                                                       *)

Goto(c, place) == pc' = [pc EXCEPT ![c] = place]

(* The lock file is closed when the function returns or the process dies.  *)
Unlock(c) ==
  startup' = [d \in Dirs |-> IF startup[d] = c THEN None ELSE startup[d]]

Fail(c) ==
  /\ Goto(c, "failed")
  /\ Unlock(c)
  /\ UNCHANGED <<configFile, owner, stateHome, endpoint, read, linked, hostVars>>

(* snapshot() reads endpoint.json first: before the lock is asked for,     *)
(* under it, and in the loop that waits for the host.                      *)
ReadEndpoint(c) ==
  /\ \/ pc[c] = "idle" /\ Goto(c, "probing")
     \/ pc[c] = "locked" /\ Goto(c, "reprobing")
     \/ pc[c] = "starting" /\ Goto(c, "polling")
  /\ read' = [read EXCEPT ![c] = endpoint[DirOf[c]]]
  /\ UNCHANGED <<fileVars, linked, hostVars>>

Probing(c) == pc[c] \in {"probing", "reprobing", "polling"}

(* Wrong: the host answers whoever connects, whatever the token.           *)
AnswersAnyone(c, h) ==
  /\ read[c] # None /\ read[c].home = HomeOf[c]
  /\ stage[h] = "serving" /\ port[h] = read[c].port

(* The endpoint is of the right home, a host serves at its address and the *)
(* token is the one it drew.                                               *)
Answers(c, h) ==
  /\ read[c] # None /\ read[c].home = HomeOf[c]
  /\ stage[h] = "serving" /\ port[h] = read[c].port
  /\ read[c].token = h

Answered(c) ==
  /\ Probing(c)
  /\ \E h \in Calls : Answers(c, h) /\ linked' = [linked EXCEPT ![c] = h]
  /\ Goto(c, "connected")
  /\ Unlock(c)
  /\ UNCHANGED <<configFile, owner, stateHome, endpoint, read, hostVars>>

(* No endpoint, nobody there, somebody else there, or no answer in time.   *)
(* A call that waits for its host then looks whether it has exited.        *)
Unanswered(c) ==
  /\ \/ pc[c] = "probing" /\ Goto(c, "waiting")
     \/ pc[c] = "reprobing" /\ Goto(c, "checking")
     \/ pc[c] = "polling" /\ stage[c] # "gone" /\ Goto(c, "starting")
  /\ UNCHANGED <<fileVars, read, linked, hostVars>>

HostExited(c) == pc[c] = "polling" /\ stage[c] = "gone" /\ Fail(c)

Lock(c) ==
  /\ pc[c] = "waiting" /\ startup[DirOf[c]] = None
  /\ startup' = [startup EXCEPT ![DirOf[c]] = c]
  /\ Goto(c, "locked")
  /\ UNCHANGED <<configFile, owner, stateHome, endpoint, read, linked, hostVars>>

(* Wrong: write config.json without looking whose directory it is.         *)
CheckNothing(c) ==
  /\ pc[c] = "checking"
  /\ Goto(c, "checked")
  /\ UNCHANGED <<fileVars, read, linked, hostVars>>

(* A config.json of another home is left alone.                            *)
CheckDirectory(c) ==
  /\ pc[c] = "checking"
  /\ LET prior == configFile[DirOf[c]] IN
       prior # None => prior = HomeOf[c]
  /\ Goto(c, "checked")
  /\ UNCHANGED <<fileVars, read, linked, hostVars>>

WriteConfig(c) ==
  /\ pc[c] = "checked"
  /\ configFile' = [configFile EXCEPT ![DirOf[c]] = HomeOf[c]]
  /\ Goto(c, "written")
  /\ UNCHANGED <<startup, owner, stateHome, endpoint, read, linked, hostVars>>

Spawn(c) ==
  /\ pc[c] = "written"
  /\ stage' = [stage EXCEPT ![c] = "spawned"]
  /\ Goto(c, "starting")
  /\ UNCHANGED <<fileVars, read, linked, config, port>>

(* state.json is lost or unreadable, the directory belongs to another      *)
(* home, config.json cannot be written, the program cannot be launched.    *)
GiveUp(c) == pc[c] \in {"checking", "checked", "written"} /\ Fail(c)

(* Wrong: the deadline passes unnoticed.                                   *)
TimeOutNever(c) == FALSE /\ Fail(c)

(* Five seconds have passed at the head of the loop.                       *)
TimeOut(c) == pc[c] = "starting" /\ Fail(c)

Returned == {"connected", "failed", "dead"}

CallDies(c) ==
  /\ pc[c] \notin Returned \cup {"idle"}
  /\ Goto(c, "dead")
  /\ Unlock(c)
  /\ UNCHANGED <<configFile, owner, stateHome, endpoint, read, linked, hostVars>>

-----------------------------------------------------------------------------
(* run_supervisor in the process a call started.                           *)

Advance(h, from, to) == stage[h] = from /\ stage' = [stage EXCEPT ![h] = to]

ReadConfig(h) ==
  /\ Advance(h, "spawned", "configured")
  /\ config' = [config EXCEPT ![h] = configFile[DirOf[h]]]
  /\ UNCHANGED <<fileVars, callVars, port>>

(* Wrong: serve a directory another host owns.                             *)
TakeHostLockAnyway(h) ==
  /\ Advance(h, "configured", "locked")
  /\ owner' = [owner EXCEPT ![DirOf[h]] = h]
  /\ UNCHANGED <<startup, configFile, stateHome, endpoint, callVars, config, port>>

TakeHostLock(h) ==
  /\ Advance(h, "configured", "locked")
  /\ owner[DirOf[h]] = None
  /\ owner' = [owner EXCEPT ![DirOf[h]] = h]
  /\ UNCHANGED <<startup, configFile, stateHome, endpoint, callVars, config, port>>

(* Host::load: the home must be that of the saved state; the state is      *)
(* saved with it before the host goes on.                                  *)
Load(h) ==
  /\ Advance(h, "locked", "loaded")
  /\ stateHome[DirOf[h]] \in {None, config[h]}
  /\ stateHome' = [stateHome EXCEPT ![DirOf[h]] = config[h]]
  /\ UNCHANGED <<startup, configFile, owner, endpoint, callVars, config, port>>

Bind(h, p) ==
  /\ Advance(h, "loaded", "bound")
  /\ \A g \in Calls : port[g] # p
  /\ port' = [port EXCEPT ![h] = p]
  /\ UNCHANGED <<fileVars, callVars, config>>

PublishEndpoint(h) ==
  /\ Advance(h, "bound", "serving")
  /\ endpoint' = [endpoint EXCEPT ![DirOf[h]] =
       [token |-> h, port |-> port[h], home |-> config[h]]]
  /\ UNCHANGED <<startup, configFile, owner, stateHome, callVars, config, port>>

(* A step fails, or the process dies: its lock and its port are free.      *)
HostEnds(h) ==
  /\ stage[h] \notin {"none", "gone"}
  /\ stage' = [stage EXCEPT ![h] = "gone"]
  /\ port' = [port EXCEPT ![h] = None]
  /\ owner' = [d \in Dirs |-> IF owner[d] = h THEN None ELSE owner[d]]
  /\ UNCHANGED <<startup, configFile, stateHome, endpoint, callVars, config>>

-----------------------------------------------------------------------------
Call(c) ==
  \/ ReadEndpoint(c) \/ Answered(c) \/ Unanswered(c) \/ HostExited(c)
  \/ Lock(c) \/ CheckDirectory(c) \/ WriteConfig(c) \/ Spawn(c) \/ GiveUp(c)
  \/ TimeOut(c)

Supervisor(h) ==
  \/ ReadConfig(h) \/ TakeHostLock(h) \/ Load(h) \/ PublishEndpoint(h)
  \/ \E p \in Ports : Bind(h, p)
  \/ HostEnds(h)

Next == \E c \in Calls : Call(c) \/ CallDies(c) \/ Supervisor(c)

Spec == Init /\ [][Next]_vars

(* A call's thread is scheduled and its reads, writes and waits end; the   *)
(* clock reaches the deadline of the loop.  Nothing is assumed of hosts.   *)
Fairness ==
  \A c \in Calls : WF_vars(pc[c] # "idle" /\ Call(c)) /\ SF_vars(TimeOut(c))

FairSpec == Spec /\ Fairness

-----------------------------------------------------------------------------
(* Properties.                                                             *)

Places == {"idle", "probing", "waiting", "locked", "reprobing", "checking",
           "checked", "written", "starting", "polling"} \cup Returned

Alive == {"spawned", "configured", "locked", "loaded", "bound", "serving"}

(* Every variable has its type; a host has a configuration once it has     *)
(* read it and a port while it listens (supervisor.rs run_supervisor).     *)
TypeOK ==
  /\ startup \in [Dirs -> Calls \cup {None}]
  /\ configFile \in [Dirs -> Homes \cup {None}]
  /\ owner \in [Dirs -> Calls \cup {None}]
  /\ stateHome \in [Dirs -> Homes \cup {None}]
  /\ endpoint \in [Dirs -> Endpoints \cup {None}]
  /\ pc \in [Calls -> Places]
  /\ read \in [Calls -> Endpoints \cup {None}]
  /\ linked \in [Calls -> Calls \cup {None}]
  /\ stage \in [Calls -> {"none", "gone"} \cup Alive]
  /\ config \in [Calls -> Homes \cup {None}]
  /\ port \in [Calls -> Ports \cup {None}]
  /\ \A h \in Calls :
       /\ stage[h] \in Alive \ {"spawned"} => config[h] # None
       /\ stage[h] \in {"bound", "serving"} <=> port[h] # None

(* Whoever serves is the one endpoint.json names, whatever hosts died at   *)
(* whatever stage or lost the race for host.lock (supervisor.rs            *)
(* run_supervisor): a second host can neither serve the directory nor      *)
(* hide the first from its clients.                                        *)
ServingIsNamed ==
  \A h \in Calls : stage[h] = "serving" =>
    /\ endpoint[DirOf[h]] = [token |-> h, port |-> port[h], home |-> config[h]]
    /\ stateHome[DirOf[h]] = config[h]

(* A call that returns a client got its snapshot from a host of its own    *)
(* directory and home, though endpoint.json may name a port that a host of *)
(* another directory has taken since (client.rs call, supervisor.rs serve).*)
AnsweredByOwnHost ==
  \A c \in Calls : linked[c] # None =>
    /\ DirOf[linked[c]] = DirOf[c]
    /\ config[linked[c]] = HomeOf[c]

(* The host a call starts runs for the home of that call, though it reads  *)
(* config.json at any later time, when the call may have returned or died  *)
(* and others have replaced the file (client.rs:67-84).                    *)
HostOfOwnHome ==
  \A h \in Calls : config[h] # None => config[h] = HomeOf[h]

(* A directory never changes hands: neither config.json nor state.json     *)
(* passes from one home to another (client.rs:77-83, supervisor.rs:125).   *)
DirectoryKeepsHome ==
  [][\A d \in Dirs :
       /\ configFile[d] # None => configFile'[d] = configFile[d]
       /\ stateHome[d] # None => stateHome'[d] = stateHome[d]]_vars

(* Every call returns, though it waits for a lock others hold and for a    *)
(* process that may never serve (client.rs:69, 114-129).                   *)
EveryCallReturns ==
  \A c \in Calls : pc[c] # "idle" ~> pc[c] \in Returned

=============================================================================
