---------------------------- MODULE AgentDataProofs ----------------------------
(***************************************************************************)
(* What the agent's data directory guarantees for every number of `ca init` *)
(* processes and runs, whatever dies at whatever step: its types; and, to  *)
(* an operator who runs one command at a time, one agent id, a CA that is  *)
(* only replaced with --force or unseen by os.Stat, files that are those   *)
(* of the fingerprint that was printed, and a daemon whose CA verifies its *)
(* certificate, unless a run that replaces a CA ended half-way.            *)
(***************************************************************************)
EXTENDS AgentData, TLAPS

\* The steps of the two kinds of process.
Writing == {"caFiles", "serverFiles"}
InitSteps == {"idle", "check", "id", "openId", "writeId", "mint"} \union Writing
DaemonSteps == {"idle", "id", "openId", "writeId", "listen", "up"} \union Files

\* What a process has at each step.
StepsOK ==
  /\ pc[Daemon] \in DaemonSteps
  /\ \A p \in Procs : pc[p] \in {"openId", "writeId"} => ident[p] \in Ids
  /\ \A p \in Inits :
       /\ pc[p] \in InitSteps
       /\ pc[p] # "idle" => gen[p] \in Gens
       /\ pc[p] = "caFiles" => left[p] \subseteq CAFiles
       /\ pc[p] = "serverFiles" => left[p] \subseteq ServerFiles
       /\ pc[p] \notin Writing => left[p] = {}
       /\ opened[p] # None => opened[p] \in left[p]

TypeInv == TypeOK /\ StepsOK

\* A careful operator has one process at work.
Resting == {"idle", "up"}
Alone == \A p, q \in Procs : pc[p] \notin Resting /\ pc[q] \notin Resting => p = q

\* agent.id is the id that was told, if one was.
IdOK ==
  /\ told \subseteq {idFile}
  /\ \A p \in Procs :
       /\ pc[p] = "openId" => idFile = None
       /\ pc[p] = "writeId" => idFile = Torn

\* What a run of ca init has written so far, and what it found.
RunOK ==
  \A p \in Inits :
    /\ opened[p] # None => file[opened[p]] = Torn /\ printed = None
    /\ pc[p] = "caFiles" => \A f \in CAFiles \ left[p] : file[f] = gen[p]
    /\ pc[p] = "serverFiles" => \A f \in Files \ left[p] : file[f] = gen[p]
    /\ ~ Replaces(p) /\ pc[p] \in {"id", "openId", "writeId", "mint"} => file["ca.key"] = None
    /\ ~ Replaces(p) /\ pc[p] = "caFiles" /\ "ca.key" \in left[p] =>
         file["ca.key"] = None \/ opened[p] = "ca.key"

PrintedOK == printed # None => \A f \in Files : file[f] = printed

CarefulInv == careful => Alone /\ IdOK /\ RunOK /\ PrintedOK

\* A directory from which no daemon starts with the files of two runs: those of
\* the server are there only with both files of their CA.
Coherent ==
  file["server.crt"] # None \/ file["server.key"] # None =>
    /\ file["ca.crt"] \in Gens
    /\ \A f \in CAFiles : file[f] = file["ca.crt"]
    /\ \A f \in ServerFiles : file[f] \in {None, Torn, file["ca.crt"]}

\* The directory while nobody writes to it, and while a run that replaces none does.
DirOK ==
  /\ (\A p \in Inits : pc[p] \notin Writing) => Coherent
  /\ \A p \in Inits : ~ Replaces(p) =>
       /\ pc[p] = "caFiles" => \A f \in ServerFiles : file[f] = None
       /\ pc[p] = "serverFiles" => \A f \in ServerFiles : file[f] \in {None, Torn, gen[p]}

\* The steps of serveAgent once it has read file f.
Read(f) ==
  {"id", "openId", "writeId", "listen"} \union
    (IF f = "ca.crt" THEN {"ca.key", "server.crt", "server.key"}
     ELSE IF f = "ca.key" THEN {"server.crt", "server.key"}
     ELSE IF f = "server.crt" THEN {"server.key"} ELSE {})

\* What serveAgent has read is what is there.
LoadOK ==
  \A f \in Files : pc[Daemon] \in Read(f) => loaded[f] = file[f] /\ file[f] # None

DataInv ==
  /\ TypeInv
  /\ CarefulInv
  /\ careful => LoadOK
  /\ careful /\ ~ halfDone => DirOK /\ Verifiable
-------------------------------------------------------------------------------
(* Types *)

\* An empty directory, with nobody at work.
LEMMA DataInit == Init => DataInv
<1> SUFFICES ASSUME Init PROVE DataInv
  OBVIOUS
<1> USE DataAssumption DEF Init, Procs, Files, CAFiles
<1>1. TypeOK
  <2>1. force \in [Inits -> BOOLEAN] /\ unseen \in [Inits -> BOOLEAN] /\ careful \in BOOLEAN /\ halfDone \in BOOLEAN
    OBVIOUS
  <2>2. runs \in 0 .. MaxRuns
    OBVIOUS
  <2> QED
    BY <2>1, <2>2 DEF TypeOK, Gens
<1>2. StepsOK
  BY DEF StepsOK, Writing, InitSteps, DaemonSteps, ServerFiles
<1>3. Alone /\ IdOK /\ RunOK /\ PrintedOK
  BY DEF Alone, Resting, IdOK, RunOK, PrintedOK
<1>4. LoadOK /\ DirOK /\ Verifiable
  BY DEF LoadOK, Read, DirOK, Coherent, Verifiable, Writing, ServerFiles
<1> QED
  BY <1>1, <1>2, <1>3, <1>4 DEF DataInv, TypeInv, CarefulInv

\* Every step keeps every variable in its type.
LEMMA TypeStep ==
  ASSUME TypeInv, [Next]_vars
  PROVE  TypeInv'
<1> USE DataAssumption
    DEF TypeInv, TypeOK, StepsOK, Writing, InitSteps, DaemonSteps, Procs, Files, CAFiles, ServerFiles, Gens,
        Goto, initVars, daemonVars, history
<1>1. ASSUME NEW p \in Inits, NEW forced \in BOOLEAN, CaInit(p, forced) PROVE TypeInv'
  BY <1>1 DEF CaInit
<1>2. ASSUME NEW p \in Inits, CheckCA(p) PROVE TypeInv'
  BY <1>2 DEF CheckCA, KeyName
<1>3. ASSUME NEW p \in Inits, StatFails(p) PROVE TypeInv'
  BY <1>3 DEF StatFails, KeyName
<1>4. ASSUME NEW p \in Procs, ReadId(p) PROVE TypeInv'
  BY <1>4 DEF ReadId, AfterId, Ended
<1>5. ASSUME NEW p \in Procs, NEW i \in Ids, DrawId(p, i) PROVE TypeInv'
  BY <1>5 DEF DrawId
<1>6. ASSUME NEW p \in Procs, OpenId(p) PROVE TypeInv'
  BY <1>6 DEF OpenId
<1>7. ASSUME NEW p \in Procs, WriteId(p) PROVE TypeInv'
  BY <1>7 DEF WriteId, AfterId, Persisted
<1>8. ASSUME NEW p \in Inits, MintCA(p) PROVE TypeInv'
  BY <1>8 DEF MintCA
<1>9. ASSUME NEW p \in Inits, NEW f \in Files, OpenFile(p, f) PROVE TypeInv'
  BY <1>9 DEF OpenFile
<1>10. ASSUME NEW p \in Inits, WriteFile(p) PROVE TypeInv'
  BY <1>10 DEF WriteFile
<1>11. ASSUME NEW p \in Inits, MintServerCert(p) PROVE TypeInv'
  BY <1>11 DEF MintServerCert
<1>12. ASSUME NEW p \in Inits, Report(p) PROVE TypeInv'
  BY <1>12 DEF Report, Fingerprint
<1>13. ASSUME NEW p \in Inits, InitDies(p) PROVE TypeInv'
  BY <1>13 DEF InitDies
<1>14. ASSUME NEW m \in {"service", "serve"}, StartDaemon(m) PROVE TypeInv'
  BY <1>14 DEF StartDaemon
<1>15. ASSUME NEW f \in Files, LoadFile(f) PROVE TypeInv'
  BY <1>15 DEF LoadFile, AfterRead, LoadCA, Ended
<1>16. ASSUME Listen PROVE TypeInv'
  BY <1>16 DEF Listen
<1>17. ASSUME ServeFails PROVE TypeInv'
  BY <1>17 DEF ServeFails, Ended
<1>18. ASSUME StopDaemon PROVE TypeInv'
  BY <1>18 DEF StopDaemon
<1>19. ASSUME Drain PROVE TypeInv'
  BY <1>19 DEF Drain
<1>20. ASSUME Stopped \/ DaemonDies PROVE TypeInv'
  BY <1>20 DEF Stopped, DaemonDies, ProcessEnds
<1>21. ASSUME UNCHANGED vars PROVE TypeInv'
  BY <1>21 DEF vars
<1> QED
  BY <1>1, <1>2, <1>3, <1>4, <1>5, <1>6, <1>7, <1>8, <1>9, <1>10, <1>11, <1>12, <1>13, <1>14, <1>15, <1>16, <1>17, <1>18, <1>19, <1>20, <1>21 DEF Next, ServeAgent, AgentId, Procs

-------------------------------------------------------------------------------
(* One command at a time *)

\* How careful the operator is, is decided once.
LEMMA CarefulKept ==
  ASSUME [Next]_vars
  PROVE  careful' = careful
BY DEF Next, ServeAgent, AgentId, vars, daemonVars, CaInit, CheckCA, StatFails, ReadId, DrawId, OpenId, WriteId,
       MintCA, OpenFile, WriteFile, MintServerCert, Report, InitDies, StartDaemon, LoadFile, Listen,
       ServeFails, StopDaemon, Drain, Stopped, DaemonDies, ProcessEnds

\* Every step of a careful operator leaves one process at work.
LEMMA AloneStep ==
  ASSUME TypeInv, careful, CarefulInv, [Next]_vars
  PROVE  Alone'
<1> USE DataAssumption
    DEF TypeInv, CarefulInv, Alone, Resting, TypeOK, StepsOK, Writing, InitSteps, DaemonSteps, Procs, Files, CAFiles, ServerFiles, Gens,
        Goto, initVars, daemonVars, history
<1>1. ASSUME NEW p \in Inits, NEW forced \in BOOLEAN, CaInit(p, forced) PROVE Alone'
  BY <1>1 DEF CaInit, Turn
<1>2. ASSUME NEW p \in Inits, CheckCA(p) PROVE Alone'
  BY <1>2 DEF CheckCA, KeyName
<1>3. ASSUME NEW p \in Inits, StatFails(p) PROVE Alone'
  BY <1>3 DEF StatFails, KeyName
<1>4. ASSUME NEW p \in Procs, ReadId(p) PROVE Alone'
  BY <1>4 DEF ReadId, AfterId, Ended
<1>5. ASSUME NEW p \in Procs, NEW i \in Ids, DrawId(p, i) PROVE Alone'
  BY <1>5 DEF DrawId
<1>6. ASSUME NEW p \in Procs, OpenId(p) PROVE Alone'
  BY <1>6 DEF OpenId
<1>7. ASSUME NEW p \in Procs, WriteId(p) PROVE Alone'
  BY <1>7 DEF WriteId, AfterId, Persisted
<1>8. ASSUME NEW p \in Inits, MintCA(p) PROVE Alone'
  BY <1>8 DEF MintCA
<1>9. ASSUME NEW p \in Inits, NEW f \in Files, OpenFile(p, f) PROVE Alone'
  BY <1>9 DEF OpenFile
<1>10. ASSUME NEW p \in Inits, WriteFile(p) PROVE Alone'
  BY <1>10 DEF WriteFile
<1>11. ASSUME NEW p \in Inits, MintServerCert(p) PROVE Alone'
  BY <1>11 DEF MintServerCert
<1>12. ASSUME NEW p \in Inits, Report(p) PROVE Alone'
  BY <1>12 DEF Report, Fingerprint
<1>13. ASSUME NEW p \in Inits, InitDies(p) PROVE Alone'
  BY <1>13 DEF InitDies
<1>14. ASSUME NEW m \in {"service", "serve"}, StartDaemon(m) PROVE Alone'
  BY <1>14 DEF StartDaemon, Turn
<1>15. ASSUME NEW f \in Files, LoadFile(f) PROVE Alone'
  BY <1>15 DEF LoadFile, AfterRead, LoadCA, Ended
<1>16. ASSUME Listen PROVE Alone'
  BY <1>16 DEF Listen
<1>17. ASSUME ServeFails PROVE Alone'
  BY <1>17 DEF ServeFails, Ended
<1>18. ASSUME StopDaemon PROVE Alone'
  BY <1>18 DEF StopDaemon
<1>19. ASSUME Drain PROVE Alone'
  BY <1>19 DEF Drain
<1>20. ASSUME Stopped \/ DaemonDies PROVE Alone'
  <2>1. /\ pc' = [pc EXCEPT ![Daemon] = "idle"]
        /\ UNCHANGED <<file, idFile, initVars, careful, history>>
    BY <1>20 DEF Stopped, DaemonDies, ProcessEnds
  <2> QED
    BY <2>1
<1>21. ASSUME UNCHANGED vars PROVE Alone'
  BY <1>21 DEF vars
<1> QED
  BY <1>1, <1>2, <1>3, <1>4, <1>5, <1>6, <1>7, <1>8, <1>9, <1>10, <1>11, <1>12, <1>13, <1>14, <1>15, <1>16, <1>17, <1>18, <1>19, <1>20, <1>21 DEF Next, ServeAgent, AgentId, Procs

\* Every step of a careful operator keeps the id that was told in agent.id.
LEMMA IdStep ==
  ASSUME TypeInv, careful, CarefulInv, [Next]_vars
  PROVE  IdOK'
<1> USE DataAssumption
    DEF TypeInv, CarefulInv, Alone, Resting, IdOK, TypeOK, StepsOK, Writing, InitSteps, DaemonSteps, Procs, Files, CAFiles, ServerFiles, Gens,
        Goto, initVars, daemonVars, history
<1>1. ASSUME NEW p \in Inits, NEW forced \in BOOLEAN, CaInit(p, forced) PROVE IdOK'
  BY <1>1 DEF CaInit
<1>2. ASSUME NEW p \in Inits, CheckCA(p) PROVE IdOK'
  BY <1>2 DEF CheckCA, KeyName
<1>3. ASSUME NEW p \in Inits, StatFails(p) PROVE IdOK'
  BY <1>3 DEF StatFails, KeyName
<1>4. ASSUME NEW p \in Procs, ReadId(p) PROVE IdOK'
  BY <1>4 DEF ReadId, AfterId, Ended
<1>5. ASSUME NEW p \in Procs, NEW i \in Ids, DrawId(p, i) PROVE IdOK'
  BY <1>5 DEF DrawId
<1>6. ASSUME NEW p \in Procs, OpenId(p) PROVE IdOK'
  BY <1>6 DEF OpenId
<1>7. ASSUME NEW p \in Procs, WriteId(p) PROVE IdOK'
  BY <1>7 DEF WriteId, AfterId, Persisted
<1>8. ASSUME NEW p \in Inits, MintCA(p) PROVE IdOK'
  BY <1>8 DEF MintCA
<1>9. ASSUME NEW p \in Inits, NEW f \in Files, OpenFile(p, f) PROVE IdOK'
  BY <1>9 DEF OpenFile
<1>10. ASSUME NEW p \in Inits, WriteFile(p) PROVE IdOK'
  BY <1>10 DEF WriteFile
<1>11. ASSUME NEW p \in Inits, MintServerCert(p) PROVE IdOK'
  BY <1>11 DEF MintServerCert
<1>12. ASSUME NEW p \in Inits, Report(p) PROVE IdOK'
  BY <1>12 DEF Report, Fingerprint
<1>13. ASSUME NEW p \in Inits, InitDies(p) PROVE IdOK'
  BY <1>13 DEF InitDies
<1>14. ASSUME NEW m \in {"service", "serve"}, StartDaemon(m) PROVE IdOK'
  BY <1>14 DEF StartDaemon
<1>15. ASSUME NEW f \in Files, LoadFile(f) PROVE IdOK'
  BY <1>15 DEF LoadFile, AfterRead, LoadCA, Ended
<1>16. ASSUME Listen PROVE IdOK'
  BY <1>16 DEF Listen
<1>17. ASSUME ServeFails PROVE IdOK'
  BY <1>17 DEF ServeFails, Ended
<1>18. ASSUME StopDaemon PROVE IdOK'
  BY <1>18 DEF StopDaemon
<1>19. ASSUME Drain PROVE IdOK'
  BY <1>19 DEF Drain
<1>20. ASSUME Stopped \/ DaemonDies PROVE IdOK'
  BY <1>20 DEF Stopped, DaemonDies, ProcessEnds
<1>21. ASSUME UNCHANGED vars PROVE IdOK'
  BY <1>21 DEF vars
<1> QED
  BY <1>1, <1>2, <1>3, <1>4, <1>5, <1>6, <1>7, <1>8, <1>9, <1>10, <1>11, <1>12, <1>13, <1>14, <1>15, <1>16, <1>17, <1>18, <1>19, <1>20, <1>21 DEF Next, ServeAgent, AgentId, Procs

\* Every step of a careful operator keeps what a run has written and found.
LEMMA RunStep ==
  ASSUME TypeInv, careful, CarefulInv, [Next]_vars
  PROVE  RunOK'
<1> USE DataAssumption
    DEF TypeInv, Replaces, CarefulInv, Alone, Resting, RunOK, PrintedOK, TypeOK, StepsOK, Writing, InitSteps, DaemonSteps, Procs, Files, CAFiles, ServerFiles, Gens,
        Goto, initVars, daemonVars, history
<1>1. ASSUME NEW p \in Inits, NEW forced \in BOOLEAN, CaInit(p, forced) PROVE RunOK'
  BY <1>1 DEF CaInit, Turn
<1>2. ASSUME NEW p \in Inits, CheckCA(p) PROVE RunOK'
  BY <1>2 DEF CheckCA, KeyName
<1>3. ASSUME NEW p \in Inits, StatFails(p) PROVE RunOK'
  <2>1. /\ pc[p] = "check" /\ pc' = [pc EXCEPT ![p] = "id"]
        /\ unseen' = [unseen EXCEPT ![p] = file["ca.key"] # None]
        /\ UNCHANGED <<file, gen, force, left, opened, printed>>
    BY <1>3 DEF StatFails, KeyName
  <2>2. \A q \in Inits : q # p => unseen'[q] = unseen[q] /\ pc'[q] = pc[q]
    BY <2>1
  <2>3. pc'[p] = "id" /\ opened[p] = None
    BY <2>1
  <2>4. ASSUME file["ca.key"] # None PROVE Replaces(p)'
    <3>1. (file["ca.key"] # None) = TRUE
      BY <2>4
    <3>2. unseen' = [unseen EXCEPT ![p] = TRUE]
      BY <2>1, <3>1, Zenon
    <3> QED
      BY <3>2
  <2> HIDE DEF Replaces
  <2>5. \A q \in Inits : q # p => (Replaces(q)' <=> Replaces(q))
    BY <2>1, <2>2 DEF Replaces
  <2> QED
    BY <2>1, <2>2, <2>3, <2>4, <2>5
<1>4. ASSUME NEW p \in Procs, ReadId(p) PROVE RunOK'
  BY <1>4 DEF ReadId, AfterId, Ended
<1>5. ASSUME NEW p \in Procs, NEW i \in Ids, DrawId(p, i) PROVE RunOK'
  BY <1>5 DEF DrawId
<1>6. ASSUME NEW p \in Procs, OpenId(p) PROVE RunOK'
  BY <1>6 DEF OpenId
<1>7. ASSUME NEW p \in Procs, WriteId(p) PROVE RunOK'
  BY <1>7 DEF WriteId, AfterId, Persisted
<1>8. ASSUME NEW p \in Inits, MintCA(p) PROVE RunOK'
  BY <1>8 DEF MintCA
<1>9. ASSUME NEW p \in Inits, NEW f \in Files, OpenFile(p, f) PROVE RunOK'
  BY <1>9 DEF OpenFile
<1>10. ASSUME NEW p \in Inits, WriteFile(p) PROVE RunOK'
  BY <1>10 DEF WriteFile
<1>11. ASSUME NEW p \in Inits, MintServerCert(p) PROVE RunOK'
  BY <1>11 DEF MintServerCert
<1>12. ASSUME NEW p \in Inits, Report(p) PROVE RunOK'
  BY <1>12 DEF Report, Fingerprint
<1>13. ASSUME NEW p \in Inits, InitDies(p) PROVE RunOK'
  BY <1>13 DEF InitDies
<1>14. ASSUME NEW m \in {"service", "serve"}, StartDaemon(m) PROVE RunOK'
  BY <1>14 DEF StartDaemon, Turn
<1>15. ASSUME NEW f \in Files, LoadFile(f) PROVE RunOK'
  BY <1>15 DEF LoadFile, AfterRead, LoadCA, Ended
<1>16. ASSUME Listen PROVE RunOK'
  BY <1>16 DEF Listen
<1>17. ASSUME ServeFails PROVE RunOK'
  BY <1>17 DEF ServeFails, Ended
<1>18. ASSUME StopDaemon PROVE RunOK'
  BY <1>18 DEF StopDaemon
<1>19. ASSUME Drain PROVE RunOK'
  BY <1>19 DEF Drain
<1>20. ASSUME Stopped \/ DaemonDies PROVE RunOK'
  <2>1. /\ pc' = [pc EXCEPT ![Daemon] = "idle"]
        /\ UNCHANGED <<file, idFile, initVars, careful, history>>
    BY <1>20 DEF Stopped, DaemonDies, ProcessEnds
  <2> QED
    BY <2>1
<1>21. ASSUME UNCHANGED vars PROVE RunOK'
  BY <1>21 DEF vars
<1> QED
  BY <1>1, <1>2, <1>3, <1>4, <1>5, <1>6, <1>7, <1>8, <1>9, <1>10, <1>11, <1>12, <1>13, <1>14, <1>15, <1>16, <1>17, <1>18, <1>19, <1>20, <1>21 DEF Next, ServeAgent, AgentId, Procs

\* Every step of a careful operator keeps the files of the run that has printed.
LEMMA PrintedStep ==
  ASSUME TypeInv, careful, CarefulInv, [Next]_vars
  PROVE  PrintedOK'
<1> USE DataAssumption
    DEF TypeInv, CarefulInv, Alone, Resting, RunOK, PrintedOK, TypeOK, StepsOK, Writing, InitSteps, DaemonSteps, Procs, Files, CAFiles, ServerFiles, Gens,
        Goto, initVars, daemonVars, history
<1>1. ASSUME NEW p \in Inits, NEW forced \in BOOLEAN, CaInit(p, forced) PROVE PrintedOK'
  BY <1>1 DEF CaInit
<1>2. ASSUME NEW p \in Inits, CheckCA(p) PROVE PrintedOK'
  BY <1>2 DEF CheckCA, KeyName
<1>3. ASSUME NEW p \in Inits, StatFails(p) PROVE PrintedOK'
  BY <1>3 DEF StatFails, KeyName
<1>4. ASSUME NEW p \in Procs, ReadId(p) PROVE PrintedOK'
  BY <1>4 DEF ReadId, AfterId, Ended
<1>5. ASSUME NEW p \in Procs, NEW i \in Ids, DrawId(p, i) PROVE PrintedOK'
  BY <1>5 DEF DrawId
<1>6. ASSUME NEW p \in Procs, OpenId(p) PROVE PrintedOK'
  BY <1>6 DEF OpenId
<1>7. ASSUME NEW p \in Procs, WriteId(p) PROVE PrintedOK'
  BY <1>7 DEF WriteId, AfterId, Persisted
<1>8. ASSUME NEW p \in Inits, MintCA(p) PROVE PrintedOK'
  BY <1>8 DEF MintCA
<1>9. ASSUME NEW p \in Inits, NEW f \in Files, OpenFile(p, f) PROVE PrintedOK'
  BY <1>9 DEF OpenFile
<1>10. ASSUME NEW p \in Inits, WriteFile(p) PROVE PrintedOK'
  BY <1>10 DEF WriteFile
<1>11. ASSUME NEW p \in Inits, MintServerCert(p) PROVE PrintedOK'
  BY <1>11 DEF MintServerCert
<1>12. ASSUME NEW p \in Inits, Report(p) PROVE PrintedOK'
  BY <1>12 DEF Report, Fingerprint
<1>13. ASSUME NEW p \in Inits, InitDies(p) PROVE PrintedOK'
  BY <1>13 DEF InitDies
<1>14. ASSUME NEW m \in {"service", "serve"}, StartDaemon(m) PROVE PrintedOK'
  BY <1>14 DEF StartDaemon
<1>15. ASSUME NEW f \in Files, LoadFile(f) PROVE PrintedOK'
  BY <1>15 DEF LoadFile, AfterRead, LoadCA, Ended
<1>16. ASSUME Listen PROVE PrintedOK'
  BY <1>16 DEF Listen
<1>17. ASSUME ServeFails PROVE PrintedOK'
  BY <1>17 DEF ServeFails, Ended
<1>18. ASSUME StopDaemon PROVE PrintedOK'
  BY <1>18 DEF StopDaemon
<1>19. ASSUME Drain PROVE PrintedOK'
  BY <1>19 DEF Drain
<1>20. ASSUME Stopped \/ DaemonDies PROVE PrintedOK'
  BY <1>20 DEF Stopped, DaemonDies, ProcessEnds
<1>21. ASSUME UNCHANGED vars PROVE PrintedOK'
  BY <1>21 DEF vars
<1> QED
  BY <1>1, <1>2, <1>3, <1>4, <1>5, <1>6, <1>7, <1>8, <1>9, <1>10, <1>11, <1>12, <1>13, <1>14, <1>15, <1>16, <1>17, <1>18, <1>19, <1>20, <1>21 DEF Next, ServeAgent, AgentId, Procs

\* Every step of a careful operator keeps the files serveAgent has read.
LEMMA LoadStep ==
  ASSUME TypeInv, careful, CarefulInv, LoadOK, [Next]_vars
  PROVE  LoadOK'
<1> USE DataAssumption
    DEF TypeInv, CarefulInv, Alone, Resting, LoadOK, Read, TypeOK, StepsOK, Writing, InitSteps, DaemonSteps, Procs, Files, CAFiles, ServerFiles, Gens,
        Goto, initVars, daemonVars, history
<1>1. ASSUME NEW p \in Inits, NEW forced \in BOOLEAN, CaInit(p, forced) PROVE LoadOK'
  BY <1>1 DEF CaInit
<1>2. ASSUME NEW p \in Inits, CheckCA(p) PROVE LoadOK'
  BY <1>2 DEF CheckCA, KeyName
<1>3. ASSUME NEW p \in Inits, StatFails(p) PROVE LoadOK'
  BY <1>3 DEF StatFails, KeyName
<1>4. ASSUME NEW p \in Procs, ReadId(p) PROVE LoadOK'
  BY <1>4 DEF ReadId, AfterId, Ended
<1>5. ASSUME NEW p \in Procs, NEW i \in Ids, DrawId(p, i) PROVE LoadOK'
  BY <1>5 DEF DrawId
<1>6. ASSUME NEW p \in Procs, OpenId(p) PROVE LoadOK'
  BY <1>6 DEF OpenId
<1>7. ASSUME NEW p \in Procs, WriteId(p) PROVE LoadOK'
  BY <1>7 DEF WriteId, AfterId, Persisted
<1>8. ASSUME NEW p \in Inits, MintCA(p) PROVE LoadOK'
  BY <1>8 DEF MintCA
<1>9. ASSUME NEW p \in Inits, NEW f \in Files, OpenFile(p, f) PROVE LoadOK'
  BY <1>9 DEF OpenFile
<1>10. ASSUME NEW p \in Inits, WriteFile(p) PROVE LoadOK'
  BY <1>10 DEF WriteFile
<1>11. ASSUME NEW p \in Inits, MintServerCert(p) PROVE LoadOK'
  BY <1>11 DEF MintServerCert
<1>12. ASSUME NEW p \in Inits, Report(p) PROVE LoadOK'
  BY <1>12 DEF Report, Fingerprint
<1>13. ASSUME NEW p \in Inits, InitDies(p) PROVE LoadOK'
  BY <1>13 DEF InitDies
<1>14. ASSUME NEW m \in {"service", "serve"}, StartDaemon(m) PROVE LoadOK'
  BY <1>14 DEF StartDaemon
<1>15. ASSUME NEW f \in Files, LoadFile(f) PROVE LoadOK'
  BY <1>15 DEF LoadFile, AfterRead, LoadCA, Ended
<1>16. ASSUME Listen PROVE LoadOK'
  BY <1>16 DEF Listen
<1>17. ASSUME ServeFails PROVE LoadOK'
  BY <1>17 DEF ServeFails, Ended
<1>18. ASSUME StopDaemon PROVE LoadOK'
  BY <1>18 DEF StopDaemon
<1>19. ASSUME Drain PROVE LoadOK'
  BY <1>19 DEF Drain
<1>20. ASSUME Stopped \/ DaemonDies PROVE LoadOK'
  BY <1>20 DEF Stopped, DaemonDies, ProcessEnds
<1>21. ASSUME UNCHANGED vars PROVE LoadOK'
  BY <1>21 DEF vars
<1> QED
  BY <1>1, <1>2, <1>3, <1>4, <1>5, <1>6, <1>7, <1>8, <1>9, <1>10, <1>11, <1>12, <1>13, <1>14, <1>15, <1>16, <1>17, <1>18, <1>19, <1>20, <1>21 DEF Next, ServeAgent, AgentId, Procs

\* Every step of a careful operator keeps the directory coherent, a run that
\* replaces a CA and ends half-way excepted.
LEMMA DirStep ==
  ASSUME TypeInv, careful, CarefulInv, ~ halfDone, ~ halfDone', DirOK, [Next]_vars
  PROVE  DirOK'
<1> USE DataAssumption
    DEF TypeInv, Replaces, CarefulInv, Alone, Resting, RunOK, DirOK, Coherent, TypeOK, StepsOK, Writing, InitSteps, DaemonSteps, Procs, Files, CAFiles, ServerFiles, Gens,
        Goto, initVars, daemonVars, history
<1>1. ASSUME NEW p \in Inits, NEW forced \in BOOLEAN, CaInit(p, forced) PROVE DirOK'
  BY <1>1 DEF CaInit
<1>2. ASSUME NEW p \in Inits, CheckCA(p) PROVE DirOK'
  BY <1>2 DEF CheckCA, KeyName
<1>3. ASSUME NEW p \in Inits, StatFails(p) PROVE DirOK'
  BY <1>3 DEF StatFails, KeyName
<1>4. ASSUME NEW p \in Procs, ReadId(p) PROVE DirOK'
  BY <1>4 DEF ReadId, AfterId, Ended
<1>5. ASSUME NEW p \in Procs, NEW i \in Ids, DrawId(p, i) PROVE DirOK'
  BY <1>5 DEF DrawId
<1>6. ASSUME NEW p \in Procs, OpenId(p) PROVE DirOK'
  BY <1>6 DEF OpenId
<1>7. ASSUME NEW p \in Procs, WriteId(p) PROVE DirOK'
  BY <1>7 DEF WriteId, AfterId, Persisted
<1>8. ASSUME NEW p \in Inits, MintCA(p) PROVE DirOK'
  BY <1>8 DEF MintCA
<1>9. ASSUME NEW p \in Inits, NEW f \in Files, OpenFile(p, f) PROVE DirOK'
  BY <1>9 DEF OpenFile
<1>10. ASSUME NEW p \in Inits, WriteFile(p) PROVE DirOK'
  BY <1>10 DEF WriteFile
<1>11. ASSUME NEW p \in Inits, MintServerCert(p) PROVE DirOK'
  BY <1>11 DEF MintServerCert
<1>12. ASSUME NEW p \in Inits, Report(p) PROVE DirOK'
  BY <1>12 DEF Report, Fingerprint
<1>13. ASSUME NEW p \in Inits, InitDies(p) PROVE DirOK'
  BY <1>13 DEF InitDies
<1>14. ASSUME NEW m \in {"service", "serve"}, StartDaemon(m) PROVE DirOK'
  BY <1>14 DEF StartDaemon
<1>15. ASSUME NEW f \in Files, LoadFile(f) PROVE DirOK'
  BY <1>15 DEF LoadFile, AfterRead, LoadCA, Ended
<1>16. ASSUME Listen PROVE DirOK'
  BY <1>16 DEF Listen
<1>17. ASSUME ServeFails PROVE DirOK'
  BY <1>17 DEF ServeFails, Ended
<1>18. ASSUME StopDaemon PROVE DirOK'
  BY <1>18 DEF StopDaemon
<1>19. ASSUME Drain PROVE DirOK'
  BY <1>19 DEF Drain
<1>20. ASSUME Stopped \/ DaemonDies PROVE DirOK'
  <2>1. /\ pc' = [pc EXCEPT ![Daemon] = "idle"]
        /\ UNCHANGED <<file, idFile, initVars, careful, history>>
    BY <1>20 DEF Stopped, DaemonDies, ProcessEnds
  <2> QED
    BY <2>1
<1>21. ASSUME UNCHANGED vars PROVE DirOK'
  BY <1>21 DEF vars
<1> QED
  BY <1>1, <1>2, <1>3, <1>4, <1>5, <1>6, <1>7, <1>8, <1>9, <1>10, <1>11, <1>12, <1>13, <1>14, <1>15, <1>16, <1>17, <1>18, <1>19, <1>20, <1>21 DEF Next, ServeAgent, AgentId, Procs

\* A careful operator's daemon comes up with the files of one run.
LEMMA VerifiableStep ==
  ASSUME TypeInv, careful, CarefulInv, ~ halfDone, ~ halfDone', DirOK, LoadOK, Verifiable, [Next]_vars
  PROVE  Verifiable'
<1> USE DataAssumption
    DEF TypeInv, CarefulInv, Alone, Resting, LoadOK, Read, DirOK, Coherent, Verifiable, TypeOK, StepsOK, Writing, InitSteps, DaemonSteps, Procs, Files, CAFiles, ServerFiles, Gens,
        Goto, initVars, daemonVars, history
<1>1. ASSUME NEW p \in Inits, NEW forced \in BOOLEAN, CaInit(p, forced) PROVE Verifiable'
  BY <1>1 DEF CaInit
<1>2. ASSUME NEW p \in Inits, CheckCA(p) PROVE Verifiable'
  BY <1>2 DEF CheckCA, KeyName
<1>3. ASSUME NEW p \in Inits, StatFails(p) PROVE Verifiable'
  BY <1>3 DEF StatFails, KeyName
<1>4. ASSUME NEW p \in Procs, ReadId(p) PROVE Verifiable'
  BY <1>4 DEF ReadId, AfterId, Ended
<1>5. ASSUME NEW p \in Procs, NEW i \in Ids, DrawId(p, i) PROVE Verifiable'
  BY <1>5 DEF DrawId
<1>6. ASSUME NEW p \in Procs, OpenId(p) PROVE Verifiable'
  BY <1>6 DEF OpenId
<1>7. ASSUME NEW p \in Procs, WriteId(p) PROVE Verifiable'
  BY <1>7 DEF WriteId, AfterId, Persisted
<1>8. ASSUME NEW p \in Inits, MintCA(p) PROVE Verifiable'
  BY <1>8 DEF MintCA
<1>9. ASSUME NEW p \in Inits, NEW f \in Files, OpenFile(p, f) PROVE Verifiable'
  BY <1>9 DEF OpenFile
<1>10. ASSUME NEW p \in Inits, WriteFile(p) PROVE Verifiable'
  BY <1>10 DEF WriteFile
<1>11. ASSUME NEW p \in Inits, MintServerCert(p) PROVE Verifiable'
  BY <1>11 DEF MintServerCert
<1>12. ASSUME NEW p \in Inits, Report(p) PROVE Verifiable'
  BY <1>12 DEF Report, Fingerprint
<1>13. ASSUME NEW p \in Inits, InitDies(p) PROVE Verifiable'
  BY <1>13 DEF InitDies
<1>14. ASSUME NEW m \in {"service", "serve"}, StartDaemon(m) PROVE Verifiable'
  BY <1>14 DEF StartDaemon
<1>15. ASSUME NEW f \in Files, LoadFile(f) PROVE Verifiable'
  BY <1>15 DEF LoadFile, AfterRead, LoadCA, Ended
<1>16. ASSUME Listen PROVE Verifiable'
  BY <1>16 DEF Listen
<1>17. ASSUME ServeFails PROVE Verifiable'
  BY <1>17 DEF ServeFails, Ended
<1>18. ASSUME StopDaemon PROVE Verifiable'
  BY <1>18 DEF StopDaemon
<1>19. ASSUME Drain PROVE Verifiable'
  BY <1>19 DEF Drain
<1>20. ASSUME Stopped \/ DaemonDies PROVE Verifiable'
  BY <1>20 DEF Stopped, DaemonDies, ProcessEnds
<1>21. ASSUME UNCHANGED vars PROVE Verifiable'
  BY <1>21 DEF vars
<1> QED
  BY <1>1, <1>2, <1>3, <1>4, <1>5, <1>6, <1>7, <1>8, <1>9, <1>10, <1>11, <1>12, <1>13, <1>14, <1>15, <1>16, <1>17, <1>18, <1>19, <1>20, <1>21 DEF Next, ServeAgent, AgentId, Procs

\* Every step of every process keeps the whole invariant.
LEMMA DataInvStep == DataInv /\ [Next]_vars => DataInv'
<1> SUFFICES ASSUME DataInv, [Next]_vars PROVE DataInv'
  OBVIOUS
<1>1. TypeInv'
  BY TypeStep DEF DataInv
<1>2. careful' = careful
  BY CarefulKept
<1>3. CarefulInv'
  BY <1>2, AloneStep, IdStep, RunStep, PrintedStep DEF DataInv, CarefulInv
<1>4. careful' => LoadOK'
  BY <1>2, LoadStep DEF DataInv
<1>5. ~ halfDone' => ~ halfDone
  BY DEF Next, ServeAgent, AgentId, vars, history, CaInit, CheckCA, StatFails, ReadId, DrawId, OpenId, WriteId,
         MintCA, OpenFile, WriteFile, MintServerCert, Report, InitDies, StartDaemon, LoadFile, Listen,
         ServeFails, StopDaemon, Drain, Stopped, DaemonDies, ProcessEnds
<1>6. careful' /\ ~ halfDone' => DirOK' /\ Verifiable'
  BY <1>2, <1>5, DirStep, VerifiableStep DEF DataInv
<1> QED
  BY <1>1, <1>3, <1>4, <1>6 DEF DataInv

\* What holds of the directory, of the runs and of the daemon always holds,
\* whatever dies.
THEOREM DataInvariant == Spec => []DataInv
BY DataInit, DataInvStep, PTL DEF Spec
-------------------------------------------------------------------------------
(* The theorems *)

\* Every variable keeps to its type, with a careful operator or without.
THEOREM TypeCorrect == Spec => []TypeOK
<1>1. DataInv => TypeOK
  BY DEF DataInv, TypeInv
<1> QED
  BY <1>1, DataInvariant, PTL

\* AgentID never returns two ids to an operator who runs one command at a time.
THEOREM IdStableHolds == Spec => []IdStable
<1>1. DataInv => IdStable
  BY DEF DataInv, CarefulInv, IdOK, IdStable
<1> QED
  BY <1>1, DataInvariant, PTL

\* The fingerprint that was printed last is that of all four files.
THEOREM PrintedIsWholeHolds == Spec => []PrintedIsWhole
<1>1. DataInv => PrintedIsWhole
  BY DEF DataInv, CarefulInv, PrintedOK, PrintedIsWhole
<1> QED
  BY <1>1, DataInvariant, PTL

\* Unless a run that replaces a CA ended half-way, the CA of a daemon that is up verifies its
\* certificate and its key signs for that CA.
THEOREM VerifiableUnlessForcedHolds == Spec => []VerifiableUnlessForced
<1>1. DataInv => VerifiableUnlessForced
  BY DEF DataInv, VerifiableUnlessForced, AgentVerifiable
<1> QED
  BY <1>1, DataInvariant, PTL

\* A CA that is there is only replaced by a run with --force, or whose os.Stat
\* failed to see it.
THEOREM OverwriteForcedHolds == Spec => OverwriteForced
<1> DEFINE Forced ==
      careful /\ Overwritten => \E p \in Inits : opened'[p] = "ca.key" /\ Replaces(p)
<1>1. DataInv /\ [Next]_vars => [Forced]_vars
  <2> SUFFICES ASSUME DataInv, Next, careful, file["ca.key"] \in Gens,
                      file'["ca.key"] # file["ca.key"]
               PROVE  \E p \in Inits : opened'[p] = "ca.key" /\ Replaces(p)
    BY DEF vars, Overwritten
  <2>1. TypeInv /\ RunOK /\ file["ca.key"] \notin {None, Torn}
    BY DataAssumption DEF DataInv, CarefulInv, Gens
  <2>2. PICK p \in Inits : WriteFile(p) \/ \E f \in Files : OpenFile(p, f)
    BY DEF Next, ServeAgent, AgentId, CaInit, CheckCA, StatFails, ReadId, DrawId, OpenId, WriteId,
           MintCA, MintServerCert, Report, InitDies, StartDaemon, LoadFile, Listen,
           ServeFails, StopDaemon, Drain, Stopped, DaemonDies, ProcessEnds
  <2>3. ASSUME WriteFile(p) PROVE FALSE
    <3>1. opened[p] \in Files /\ opened[p] # "ca.key"
      BY <2>1, <2>3 DEF WriteFile, RunOK, TypeInv, TypeOK
    <3> QED
      BY <2>1, <2>3, <3>1 DEF WriteFile, TypeInv, TypeOK
  <2>4. ASSUME NEW f \in Files, OpenFile(p, f) PROVE opened'[p] = "ca.key" /\ Replaces(p)
    <3>1. f = "ca.key" /\ opened'[p] = "ca.key"
      BY <2>1, <2>4 DEF OpenFile, TypeInv, TypeOK
    <3>2. pc[p] = "caFiles" /\ opened[p] = None
      BY <2>1, <2>4, <3>1 DEF OpenFile, TypeInv, StepsOK, ServerFiles
    <3>3. "ca.key" # None
      BY DataAssumption DEF Files, CAFiles
    <3> QED
      BY <2>1, <2>4, <3>1, <3>2, <3>3 DEF OpenFile, RunOK
  <2> QED
    BY <2>2, <2>3, <2>4
<1> QED
  BY <1>1, DataInvariant, PTL DEF Spec, OverwriteForced
================================================================================
