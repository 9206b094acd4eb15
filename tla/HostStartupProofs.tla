--------------------------- MODULE HostStartupProofs ---------------------------
(***************************************************************************)
(* The safety properties of HostStartup, for any number of calls,          *)
(* directories, homes and ports.                                           *)
(*                                                                         *)
(* The argument.  startup.lock makes the check of config.json and its      *)
(* replacement one step, so the file keeps the first home written to it    *)
(* (HomesAgree); every host started afterwards reads that home, however    *)
(* late.  host.lock makes the owner of a directory unique (OwnersAgree),   *)
(* and only an owner writes endpoint.json and state.json.  A token belongs *)
(* to one host for ever, so an endpoint read long ago still names a host   *)
(* of the directory it was read in (EndpointsAgree).                       *)
(***************************************************************************)
EXTENDS HostStartup, TLAPS

Owning == {"locked", "loaded", "bound", "serving"}
Holding == {"locked", "reprobing", "checking", "checked", "written", "starting",
            "polling"}
Before == {"idle", "probing", "waiting", "locked", "reprobing", "checking",
           "checked", "written"}

OwnersAgree ==
  \A h \in Calls :
    /\ stage[h] \in Owning => owner[DirOf[h]] = h
    /\ stage[h] \in Owning \ {"locked"} => stateHome[DirOf[h]] = config[h]
    /\ stage[h] \in {"none", "spawned"} => config[h] = None
    /\ stage[h] = "serving" =>
         endpoint[DirOf[h]] = [token |-> h, port |-> port[h], home |-> config[h]]

PortsDiffer ==
  \A g, h \in Calls : port[g] # None /\ port[g] = port[h] => g = h

HomesAgree ==
  \A c \in Calls :
    /\ pc[c] \in Holding => startup[DirOf[c]] = c
    /\ pc[c] \in Before => stage[c] = "none"
    /\ pc[c] = "checked" => configFile[DirOf[c]] \in {None, HomeOf[c]}
    /\ pc[c] = "written" \/ stage[c] = "spawned" =>
         configFile[DirOf[c]] = HomeOf[c]
    /\ config[c] # None => config[c] = HomeOf[c]

Named(e, d) ==
  DirOf[e.token] = d /\ e.home = config[e.token]
    /\ stage[e.token] \in {"serving", "gone"}

EndpointsAgree ==
  /\ \A d \in Dirs : endpoint[d] # None => Named(endpoint[d], d)
  /\ \A c \in Calls : read[c] # None => Named(read[c], DirOf[c])
  /\ \A c \in Calls : linked[c] # None =>
       /\ DirOf[linked[c]] = DirOf[c] /\ config[linked[c]] = HomeOf[c]
       /\ stage[linked[c]] \in {"serving", "gone"}

IInv ==
  TypeOK /\ OwnersAgree /\ PortsDiffer /\ HomesAgree /\ EndpointsAgree

(* Every step keeps the types.                                             *)
LEMMA TypeStep ==
  ASSUME IInv, [Next]_vars
  PROVE  TypeOK'
<1> USE CallsAssumption, NoneAssumption DEF IInv, TypeOK, Places, Returned, Alive, Endpoints
<1>1. CASE UNCHANGED vars
  BY <1>1 DEF vars, fileVars, callVars, hostVars
<1>2. ASSUME NEW c \in Calls, ReadEndpoint(c) PROVE TypeOK'
  BY <1>2 DEF ReadEndpoint, Goto, fileVars, hostVars
<1>3. ASSUME NEW c \in Calls, Answered(c) PROVE TypeOK'
  BY <1>3 DEF Answered, Goto, Unlock, Probing, Answers, hostVars
<1>4. ASSUME NEW c \in Calls, Unanswered(c) PROVE TypeOK'
  BY <1>4 DEF Unanswered, Goto, fileVars, hostVars
<1>5. ASSUME NEW c \in Calls, HostExited(c) PROVE TypeOK'
  BY <1>5 DEF HostExited, Fail, Goto, Unlock, hostVars
<1>6. ASSUME NEW c \in Calls, Lock(c) PROVE TypeOK'
  BY <1>6 DEF Lock, Goto, hostVars
<1>7. ASSUME NEW c \in Calls, CheckDirectory(c) PROVE TypeOK'
  BY <1>7 DEF CheckDirectory, Goto, fileVars, hostVars
<1>8. ASSUME NEW c \in Calls, WriteConfig(c) PROVE TypeOK'
  BY <1>8 DEF WriteConfig, Goto, hostVars
<1>9. ASSUME NEW c \in Calls, Spawn(c) PROVE TypeOK'
  BY <1>9 DEF Spawn, Goto, fileVars, HomesAgree, Before
<1>10. ASSUME NEW c \in Calls, GiveUp(c) PROVE TypeOK'
  BY <1>10 DEF GiveUp, Fail, Goto, Unlock, hostVars
<1>11. ASSUME NEW c \in Calls, TimeOut(c) PROVE TypeOK'
  BY <1>11 DEF TimeOut, Fail, Goto, Unlock, hostVars
<1>12. ASSUME NEW c \in Calls, CallDies(c) PROVE TypeOK'
  BY <1>12 DEF CallDies, Goto, Unlock, hostVars
<1>13. ASSUME NEW h \in Calls, ReadConfig(h) PROVE TypeOK'
  BY <1>13 DEF ReadConfig, Advance, callVars, fileVars, HomesAgree
<1>14. ASSUME NEW h \in Calls, TakeHostLock(h) PROVE TypeOK'
  BY <1>14 DEF TakeHostLock, Advance, callVars
<1>15. ASSUME NEW h \in Calls, Load(h) PROVE TypeOK'
  BY <1>15 DEF Load, Advance, callVars
<1>16. ASSUME NEW h \in Calls, PublishEndpoint(h) PROVE TypeOK'
  BY <1>16 DEF PublishEndpoint, Advance, callVars
<1>17. ASSUME NEW h \in Calls, HostEnds(h) PROVE TypeOK'
  BY <1>17 DEF HostEnds, callVars
<1>18. ASSUME NEW h \in Calls, NEW p \in Ports, Bind(h, p) PROVE TypeOK'
  BY <1>18 DEF Bind, Advance, callVars, fileVars
<1>19. QED
  BY <1>1, <1>2, <1>3, <1>4, <1>5, <1>6, <1>7, <1>8, <1>9, <1>10, <1>11, <1>12, <1>13, <1>14, <1>15, <1>16, <1>17, <1>18 DEF Next, Call, Supervisor

(* host.lock passes only from a host that has ended, and what a directory  *)
(* says of its owner is written by that owner.                             *)
LEMMA OwnersStep ==
  ASSUME IInv, [Next]_vars
  PROVE  OwnersAgree'
<1> USE CallsAssumption, NoneAssumption DEF IInv, TypeOK, Places, Returned, Alive, Endpoints, OwnersAgree
<1>1. CASE UNCHANGED vars
  BY <1>1 DEF vars, fileVars, callVars, hostVars
<1>2. ASSUME NEW c \in Calls, ReadEndpoint(c) PROVE OwnersAgree'
  BY <1>2 DEF ReadEndpoint, Goto, fileVars, hostVars
<1>3. ASSUME NEW c \in Calls, Answered(c) PROVE OwnersAgree'
  BY <1>3 DEF Answered, Goto, Unlock, Probing, Answers, hostVars
<1>4. ASSUME NEW c \in Calls, Unanswered(c) PROVE OwnersAgree'
  BY <1>4 DEF Unanswered, Goto, fileVars, hostVars
<1>5. ASSUME NEW c \in Calls, HostExited(c) PROVE OwnersAgree'
  BY <1>5 DEF HostExited, Fail, Goto, Unlock, hostVars
<1>6. ASSUME NEW c \in Calls, Lock(c) PROVE OwnersAgree'
  BY <1>6 DEF Lock, Goto, hostVars
<1>7. ASSUME NEW c \in Calls, CheckDirectory(c) PROVE OwnersAgree'
  BY <1>7 DEF CheckDirectory, Goto, fileVars, hostVars
<1>8. ASSUME NEW c \in Calls, WriteConfig(c) PROVE OwnersAgree'
  BY <1>8 DEF WriteConfig, Goto, hostVars
<1>9. ASSUME NEW c \in Calls, Spawn(c) PROVE OwnersAgree'
  BY <1>9 DEF Owning, Spawn, Goto, fileVars, HomesAgree, Before
<1>10. ASSUME NEW c \in Calls, GiveUp(c) PROVE OwnersAgree'
  BY <1>10 DEF GiveUp, Fail, Goto, Unlock, hostVars
<1>11. ASSUME NEW c \in Calls, TimeOut(c) PROVE OwnersAgree'
  BY <1>11 DEF TimeOut, Fail, Goto, Unlock, hostVars
<1>12. ASSUME NEW c \in Calls, CallDies(c) PROVE OwnersAgree'
  BY <1>12 DEF CallDies, Goto, Unlock, hostVars
<1>13. ASSUME NEW h \in Calls, ReadConfig(h) PROVE OwnersAgree'
  BY <1>13 DEF Owning, ReadConfig, Advance, callVars, fileVars, HomesAgree
<1>14. ASSUME NEW h \in Calls, TakeHostLock(h) PROVE OwnersAgree'
  BY <1>14 DEF TakeHostLock, Advance, callVars
<1>15. ASSUME NEW h \in Calls, Load(h) PROVE OwnersAgree'
  <2> SUFFICES ASSUME NEW g \in Calls
               PROVE  /\ (stage[g] \in Owning => owner[DirOf[g]] = g)'
                      /\ (stage[g] \in Owning \ {"locked"} => stateHome[DirOf[g]] = config[g])'
                      /\ (stage[g] \in {"none", "spawned"} => config[g] = None)'
                      /\ (stage[g] = "serving" => endpoint[DirOf[g]] =
                            [token |-> g, port |-> port[g], home |-> config[g]])'
    OBVIOUS
  <2>1. DirOf[g] \in Dirs /\ DirOf[h] \in Dirs
    OBVIOUS
  <2>2. CASE g = h
    BY <1>15, <2>1, <2>2 DEF Load, Advance, callVars, Owning
  <2>3. CASE g # h
    BY <1>15, <2>1, <2>3 DEF Load, Advance, callVars, Owning
  <2>4. QED
    BY <2>2, <2>3
<1>16. ASSUME NEW h \in Calls, PublishEndpoint(h) PROVE OwnersAgree'
  <2> SUFFICES ASSUME NEW g \in Calls
               PROVE  /\ (stage[g] \in Owning => owner[DirOf[g]] = g)'
                      /\ (stage[g] \in Owning \ {"locked"} => stateHome[DirOf[g]] = config[g])'
                      /\ (stage[g] \in {"none", "spawned"} => config[g] = None)'
                      /\ (stage[g] = "serving" => endpoint[DirOf[g]] =
                            [token |-> g, port |-> port[g], home |-> config[g]])'
    OBVIOUS
  <2>1. DirOf[g] \in Dirs /\ DirOf[h] \in Dirs
    OBVIOUS
  <2>2. CASE g = h
    BY <1>16, <2>1, <2>2 DEF PublishEndpoint, Advance, callVars, Owning
  <2>3. CASE g # h
    BY <1>16, <2>1, <2>3 DEF PublishEndpoint, Advance, callVars, Owning
  <2>4. QED
    BY <2>2, <2>3
<1>17. ASSUME NEW h \in Calls, HostEnds(h) PROVE OwnersAgree'
  <2> SUFFICES ASSUME NEW g \in Calls
               PROVE  /\ (stage[g] \in Owning => owner[DirOf[g]] = g)'
                      /\ (stage[g] \in Owning \ {"locked"} => stateHome[DirOf[g]] = config[g])'
                      /\ (stage[g] \in {"none", "spawned"} => config[g] = None)'
                      /\ (stage[g] = "serving" => endpoint[DirOf[g]] =
                            [token |-> g, port |-> port[g], home |-> config[g]])'
    OBVIOUS
  <2>1. DirOf[g] \in Dirs /\ DirOf[h] \in Dirs
    OBVIOUS
  <2>2. CASE g = h
    BY <1>17, <2>1, <2>2 DEF HostEnds, callVars, Owning
  <2>3. CASE g # h
    BY <1>17, <2>1, <2>3 DEF HostEnds, callVars, Owning
  <2>4. QED
    BY <2>2, <2>3
<1>18. ASSUME NEW h \in Calls, NEW p \in Ports, Bind(h, p) PROVE OwnersAgree'
  <2> SUFFICES ASSUME NEW g \in Calls
               PROVE  /\ (stage[g] \in Owning => owner[DirOf[g]] = g)'
                      /\ (stage[g] \in Owning \ {"locked"} => stateHome[DirOf[g]] = config[g])'
                      /\ (stage[g] \in {"none", "spawned"} => config[g] = None)'
                      /\ (stage[g] = "serving" => endpoint[DirOf[g]] =
                            [token |-> g, port |-> port[g], home |-> config[g]])'
    OBVIOUS
  <2>1. DirOf[g] \in Dirs /\ DirOf[h] \in Dirs
    OBVIOUS
  <2>2. CASE g = h
    BY <1>18, <2>1, <2>2 DEF Bind, Advance, callVars, fileVars, Owning
  <2>3. CASE g # h
    BY <1>18, <2>1, <2>3 DEF Bind, Advance, callVars, fileVars, Owning
  <2>4. QED
    BY <2>2, <2>3
<1>19. QED
  BY <1>1, <1>2, <1>3, <1>4, <1>5, <1>6, <1>7, <1>8, <1>9, <1>10, <1>11, <1>12, <1>13, <1>14, <1>15, <1>16, <1>17, <1>18 DEF Next, Call, Supervisor

(* A port is taken only when nobody listens on it.                         *)
LEMMA PortsStep ==
  ASSUME IInv, [Next]_vars
  PROVE  PortsDiffer'
<1> USE CallsAssumption, NoneAssumption DEF IInv, TypeOK, Places, Returned, Alive, Endpoints, PortsDiffer
<1>1. CASE UNCHANGED vars
  BY <1>1 DEF vars, fileVars, callVars, hostVars
<1>2. ASSUME NEW c \in Calls, ReadEndpoint(c) PROVE PortsDiffer'
  BY <1>2 DEF ReadEndpoint, Goto, fileVars, hostVars
<1>3. ASSUME NEW c \in Calls, Answered(c) PROVE PortsDiffer'
  BY <1>3 DEF Answered, Goto, Unlock, Probing, Answers, hostVars
<1>4. ASSUME NEW c \in Calls, Unanswered(c) PROVE PortsDiffer'
  BY <1>4 DEF Unanswered, Goto, fileVars, hostVars
<1>5. ASSUME NEW c \in Calls, HostExited(c) PROVE PortsDiffer'
  BY <1>5 DEF HostExited, Fail, Goto, Unlock, hostVars
<1>6. ASSUME NEW c \in Calls, Lock(c) PROVE PortsDiffer'
  BY <1>6 DEF Lock, Goto, hostVars
<1>7. ASSUME NEW c \in Calls, CheckDirectory(c) PROVE PortsDiffer'
  BY <1>7 DEF CheckDirectory, Goto, fileVars, hostVars
<1>8. ASSUME NEW c \in Calls, WriteConfig(c) PROVE PortsDiffer'
  BY <1>8 DEF WriteConfig, Goto, hostVars
<1>9. ASSUME NEW c \in Calls, Spawn(c) PROVE PortsDiffer'
  BY <1>9 DEF Spawn, Goto, fileVars
<1>10. ASSUME NEW c \in Calls, GiveUp(c) PROVE PortsDiffer'
  BY <1>10 DEF GiveUp, Fail, Goto, Unlock, hostVars
<1>11. ASSUME NEW c \in Calls, TimeOut(c) PROVE PortsDiffer'
  BY <1>11 DEF TimeOut, Fail, Goto, Unlock, hostVars
<1>12. ASSUME NEW c \in Calls, CallDies(c) PROVE PortsDiffer'
  BY <1>12 DEF CallDies, Goto, Unlock, hostVars
<1>13. ASSUME NEW h \in Calls, ReadConfig(h) PROVE PortsDiffer'
  BY <1>13 DEF ReadConfig, Advance, callVars, fileVars
<1>14. ASSUME NEW h \in Calls, TakeHostLock(h) PROVE PortsDiffer'
  BY <1>14 DEF TakeHostLock, Advance, callVars
<1>15. ASSUME NEW h \in Calls, Load(h) PROVE PortsDiffer'
  BY <1>15 DEF Load, Advance, callVars
<1>16. ASSUME NEW h \in Calls, PublishEndpoint(h) PROVE PortsDiffer'
  BY <1>16 DEF PublishEndpoint, Advance, callVars
<1>17. ASSUME NEW h \in Calls, HostEnds(h) PROVE PortsDiffer'
  BY <1>17 DEF HostEnds, callVars
<1>18. ASSUME NEW h \in Calls, NEW p \in Ports, Bind(h, p) PROVE PortsDiffer'
  BY <1>18 DEF Bind, Advance, callVars, fileVars
<1>19. QED
  BY <1>1, <1>2, <1>3, <1>4, <1>5, <1>6, <1>7, <1>8, <1>9, <1>10, <1>11, <1>12, <1>13, <1>14, <1>15, <1>16, <1>17, <1>18 DEF Next, Call, Supervisor

(* Only the holder of startup.lock replaces config.json, after it has seen *)
(* that the file names no other home.                                      *)
LEMMA HomesStep ==
  ASSUME IInv, [Next]_vars
  PROVE  HomesAgree'
<1> USE CallsAssumption, NoneAssumption DEF IInv, TypeOK, Places, Returned, Alive, Endpoints, HomesAgree, OwnersAgree, Holding, Before
<1>1. CASE UNCHANGED vars
  BY <1>1 DEF vars, fileVars, callVars, hostVars
<1>2. ASSUME NEW c \in Calls, ReadEndpoint(c) PROVE HomesAgree'
  BY <1>2 DEF ReadEndpoint, Goto, fileVars, hostVars
<1>3. ASSUME NEW c \in Calls, Answered(c) PROVE HomesAgree'
  BY <1>3 DEF Answered, Goto, Unlock, Probing, Answers, hostVars
<1>4. ASSUME NEW c \in Calls, Unanswered(c) PROVE HomesAgree'
  BY <1>4 DEF Unanswered, Goto, fileVars, hostVars
<1>5. ASSUME NEW c \in Calls, HostExited(c) PROVE HomesAgree'
  BY <1>5 DEF HostExited, Fail, Goto, Unlock, hostVars
<1>6. ASSUME NEW c \in Calls, Lock(c) PROVE HomesAgree'
  BY <1>6 DEF Lock, Goto, hostVars
<1>7. ASSUME NEW c \in Calls, CheckDirectory(c) PROVE HomesAgree'
  BY <1>7 DEF CheckDirectory, Goto, fileVars, hostVars
<1>8. ASSUME NEW c \in Calls, WriteConfig(c) PROVE HomesAgree'
  BY <1>8 DEF WriteConfig, Goto, hostVars
<1>9. ASSUME NEW c \in Calls, Spawn(c) PROVE HomesAgree'
  BY <1>9 DEF Spawn, Goto, fileVars
<1>10. ASSUME NEW c \in Calls, GiveUp(c) PROVE HomesAgree'
  BY <1>10 DEF GiveUp, Fail, Goto, Unlock, hostVars
<1>11. ASSUME NEW c \in Calls, TimeOut(c) PROVE HomesAgree'
  BY <1>11 DEF TimeOut, Fail, Goto, Unlock, hostVars
<1>12. ASSUME NEW c \in Calls, CallDies(c) PROVE HomesAgree'
  BY <1>12 DEF CallDies, Goto, Unlock, hostVars
<1>13. ASSUME NEW h \in Calls, ReadConfig(h) PROVE HomesAgree'
  BY <1>13 DEF ReadConfig, Advance, callVars, fileVars
<1>14. ASSUME NEW h \in Calls, TakeHostLock(h) PROVE HomesAgree'
  BY <1>14 DEF TakeHostLock, Advance, callVars
<1>15. ASSUME NEW h \in Calls, Load(h) PROVE HomesAgree'
  BY <1>15 DEF Load, Advance, callVars
<1>16. ASSUME NEW h \in Calls, PublishEndpoint(h) PROVE HomesAgree'
  BY <1>16 DEF PublishEndpoint, Advance, callVars
<1>17. ASSUME NEW h \in Calls, HostEnds(h) PROVE HomesAgree'
  BY <1>17 DEF HostEnds, callVars
<1>18. ASSUME NEW h \in Calls, NEW p \in Ports, Bind(h, p) PROVE HomesAgree'
  BY <1>18 DEF Bind, Advance, callVars, fileVars
<1>19. QED
  BY <1>1, <1>2, <1>3, <1>4, <1>5, <1>6, <1>7, <1>8, <1>9, <1>10, <1>11, <1>12, <1>13, <1>14, <1>15, <1>16, <1>17, <1>18 DEF Next, Call, Supervisor

(* An endpoint names one host for ever.                                    *)
LEMMA EndpointsStep ==
  ASSUME IInv, [Next]_vars
  PROVE  EndpointsAgree'
<1> USE CallsAssumption, NoneAssumption DEF IInv, TypeOK, Places, Returned, Alive, Endpoints, EndpointsAgree, Named, OwnersAgree, HomesAgree
<1>1. CASE UNCHANGED vars
  BY <1>1 DEF vars, fileVars, callVars, hostVars
<1>2. ASSUME NEW c \in Calls, ReadEndpoint(c) PROVE EndpointsAgree'
  BY <1>2 DEF ReadEndpoint, Goto, fileVars, hostVars
<1>3. ASSUME NEW c \in Calls, Answered(c) PROVE EndpointsAgree'
  BY <1>3 DEF Answered, Goto, Unlock, Probing, Answers, hostVars
<1>4. ASSUME NEW c \in Calls, Unanswered(c) PROVE EndpointsAgree'
  BY <1>4 DEF Unanswered, Goto, fileVars, hostVars
<1>5. ASSUME NEW c \in Calls, HostExited(c) PROVE EndpointsAgree'
  BY <1>5 DEF HostExited, Fail, Goto, Unlock, hostVars
<1>6. ASSUME NEW c \in Calls, Lock(c) PROVE EndpointsAgree'
  BY <1>6 DEF Lock, Goto, hostVars
<1>7. ASSUME NEW c \in Calls, CheckDirectory(c) PROVE EndpointsAgree'
  BY <1>7 DEF CheckDirectory, Goto, fileVars, hostVars
<1>8. ASSUME NEW c \in Calls, WriteConfig(c) PROVE EndpointsAgree'
  BY <1>8 DEF WriteConfig, Goto, hostVars
<1>9. ASSUME NEW c \in Calls, Spawn(c) PROVE EndpointsAgree'
  BY <1>9 DEF Spawn, Goto, fileVars, HomesAgree, Before
<1>10. ASSUME NEW c \in Calls, GiveUp(c) PROVE EndpointsAgree'
  BY <1>10 DEF GiveUp, Fail, Goto, Unlock, hostVars
<1>11. ASSUME NEW c \in Calls, TimeOut(c) PROVE EndpointsAgree'
  BY <1>11 DEF TimeOut, Fail, Goto, Unlock, hostVars
<1>12. ASSUME NEW c \in Calls, CallDies(c) PROVE EndpointsAgree'
  BY <1>12 DEF CallDies, Goto, Unlock, hostVars
<1>13. ASSUME NEW h \in Calls, ReadConfig(h) PROVE EndpointsAgree'
  BY <1>13 DEF ReadConfig, Advance, callVars, fileVars
<1>14. ASSUME NEW h \in Calls, TakeHostLock(h) PROVE EndpointsAgree'
  BY <1>14 DEF TakeHostLock, Advance, callVars
<1>15. ASSUME NEW h \in Calls, Load(h) PROVE EndpointsAgree'
  BY <1>15 DEF Load, Advance, callVars
<1>16. ASSUME NEW h \in Calls, PublishEndpoint(h) PROVE EndpointsAgree'
  BY <1>16 DEF PublishEndpoint, Advance, callVars
<1>17. ASSUME NEW h \in Calls, HostEnds(h) PROVE EndpointsAgree'
  BY <1>17 DEF HostEnds, callVars
<1>18. ASSUME NEW h \in Calls, NEW p \in Ports, Bind(h, p) PROVE EndpointsAgree'
  BY <1>18 DEF Bind, Advance, callVars, fileVars
<1>19. QED
  BY <1>1, <1>2, <1>3, <1>4, <1>5, <1>6, <1>7, <1>8, <1>9, <1>10, <1>11, <1>12, <1>13, <1>14, <1>15, <1>16, <1>17, <1>18 DEF Next, Call, Supervisor

-----------------------------------------------------------------------------
(* The inductive invariant holds of every reachable state.                 *)
THEOREM Invariance == Spec => []IInv
<1>1. Init => IInv
  BY CallsAssumption, NoneAssumption
  DEF Init, IInv, TypeOK, Places, Returned, Alive, OwnersAgree, Owning,
      PortsDiffer, HomesAgree, Holding, Before, EndpointsAgree
<1>2. IInv /\ [Next]_vars => IInv'
  BY TypeStep, OwnersStep, PortsStep, HomesStep, EndpointsStep DEF IInv
<1>3. QED
  BY <1>1, <1>2, PTL DEF Spec

(* Every variable of the startup protocol has its type.                    *)
THEOREM TypeCorrect == Spec => []TypeOK
<1>1. IInv => TypeOK
  BY DEF IInv
<1>2. QED
  BY <1>1, Invariance, PTL

(* The host that serves a directory is the one its endpoint.json names and *)
(* runs for the home of its state.json.                                    *)
THEOREM ServingIsNamedCorrect == Spec => []ServingIsNamed
<1>1. IInv => ServingIsNamed
  BY DEF IInv, OwnersAgree, Owning, ServingIsNamed
<1>2. QED
  BY <1>1, Invariance, PTL

(* A call is answered only by a host of its own directory and home.        *)
THEOREM AnsweredByOwnHostCorrect == Spec => []AnsweredByOwnHost
<1>1. IInv => AnsweredByOwnHost
  BY DEF IInv, EndpointsAgree, AnsweredByOwnHost
<1>2. QED
  BY <1>1, Invariance, PTL

(* The host a call starts runs for the home of that call.                  *)
THEOREM HostOfOwnHomeCorrect == Spec => []HostOfOwnHome
<1>1. IInv => HostOfOwnHome
  BY DEF IInv, HomesAgree, HostOfOwnHome
<1>2. QED
  BY <1>1, Invariance, PTL

(* Neither config.json nor state.json passes from one home to another.     *)
THEOREM DirectoryKeepsHomeCorrect == Spec => DirectoryKeepsHome
<1> DEFINE Keeps ==
      \A d \in Dirs :
        /\ configFile[d] # None => configFile'[d] = configFile[d]
        /\ stateHome[d] # None => stateHome'[d] = stateHome[d]
<1>1. ASSUME IInv, [Next]_vars PROVE Keeps
  <2> USE <1>1, CallsAssumption, NoneAssumption
  <2>1. CASE UNCHANGED vars
    BY <2>1 DEF vars, fileVars
  <2>2. ASSUME NEW c \in Calls, WriteConfig(c) PROVE Keeps
    BY <2>2 DEF WriteConfig, IInv, TypeOK, HomesAgree
  <2>3. ASSUME NEW h \in Calls, Load(h) PROVE Keeps
    BY <2>3 DEF Load, IInv, TypeOK
  <2>4. CASE UNCHANGED <<configFile, stateHome>>
    BY <2>4
  <2>5. QED
    BY <2>1, <2>2, <2>3, <2>4
    DEF Next, Call, Supervisor, ReadEndpoint, Answered, Unanswered, HostExited,
        Lock, CheckDirectory, Spawn, GiveUp, TimeOut, Fail, CallDies, ReadConfig,
        TakeHostLock, PublishEndpoint, Bind, HostEnds, fileVars
<1>2. QED
  BY <1>1, Invariance, PTL DEF Spec, DirectoryKeepsHome

=============================================================================
