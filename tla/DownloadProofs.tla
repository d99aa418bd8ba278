------------------------- MODULE DownloadProofs -------------------------
(***************************************************************************)
(* Proofs about the course of a download in Pipeline: nothing takes a      *)
(* client back, and a quorum of one is always met.                         *)
(***************************************************************************)
EXTENDS PipelineProofs

(***************************************************************************)
(* Every node has its store.                                               *)
(***************************************************************************)
StoreInv == store = [n \in Nodes |-> store[n]]

LEMMA StoreStep ==
    ASSUME StoreInv, Next
    PROVE  StoreInv'
<1>1. ASSUME NEW v \in Validators, NEW m \in Models, NEW ver \in Versions,
            NEW folder \in Folders, Import(v, m, ver, folder)
     PROVE  StoreInv'
  BY <1>1 DEF Import, Goto, StoreInv, registry, download
<1>2. ASSUME NEW v \in Validators, Sign(v)
     PROVE  StoreInv'
  BY <1>2 DEF Sign, Goto, StoreInv, registry, download
<1>3. ASSUME NEW v \in Validators, Put(v)
     PROVE  StoreInv'
  BY <1>3 DEF Put, Goto, StoreInv, registry, download
<1>4. ASSUME NEW v \in Validators, NEW b \in HandSigned, SignByHand(v, b)
     PROVE  StoreInv'
  BY <1>4 DEF SignByHand, StoreInv, registry, download
<1>5. ASSUME NEW s \in Seeders, NEW m \in Models, NEW folder \in Folders, SeedDir(s, m, folder)
     PROVE  StoreInv'
  BY <1>5 DEF SeedDir, Goto, StoreInv, registry, download
<1>6. ASSUME NEW c \in Clients, NEW m \in Models, Get(c, m)
     PROVE  StoreInv'
  BY <1>6 DEF Get, Goto, StoreInv, registry, download
<1>7. ASSUME NEW c \in Clients, Resolve(c)
     PROVE  StoreInv'
  BY <1>7 DEF Resolve, Goto, StoreInv, registry, download
<1>8. ASSUME NEW c \in Clients, RequestFails(c)
     PROVE  StoreInv'
  BY <1>8 DEF RequestFails, Goto, StoreInv, registry, download
<1>9. ASSUME NEW c \in Clients, Verify(c)
     PROVE  StoreInv'
  BY <1>9 DEF Verify, StoreInv, registry, download
<1>10. ASSUME NEW c \in Clients, Locate(c)
     PROVE  StoreInv'
  BY <1>10 DEF Locate, Goto, StoreInv, registry, download
<1>11. ASSUME NEW c \in Clients, Fetch(c)
     PROVE  StoreInv'
  BY <1>11 DEF Fetch, StoreInv, registry, download
<1>12. ASSUME NEW c \in Clients, FetchFails(c)
     PROVE  StoreInv'
  BY <1>12 DEF FetchFails, Goto, StoreInv, registry, download
<1>13. ASSUME NEW c \in Clients, Fetched(c)
     PROVE  StoreInv'
  BY <1>13 DEF Fetched, Goto, StoreInv, registry, download
<1>14. ASSUME NEW c \in Clients, NEW i \in todo[c], Clear(c, i)
     PROVE  StoreInv'
  BY <1>14 DEF Clear, StoreInv, registry, download
<1>15. ASSUME NEW c \in Clients, NEW i \in todo[c], ClearFails(c, i)
     PROVE  StoreInv'
  BY <1>15 DEF ClearFails, StoreInv, registry, download
<1>16. ASSUME NEW c \in Clients, Cleared(c)
     PROVE  StoreInv'
  BY <1>16 DEF Cleared, Goto, StoreInv, registry, download
<1>17. ASSUME NEW c \in Clients, NEW i \in todo[c], Export(c, i)
     PROVE  StoreInv'
  BY <1>17 DEF Export, Exports, StoreInv, registry, download
<1>18. ASSUME NEW c \in Clients, NEW i \in todo[c], ExportBlocked(c, i)
     PROVE  StoreInv'
  BY <1>18 DEF ExportBlocked, Exports, Goto, StoreInv, registry, download
<1>19. ASSUME NEW c \in Clients, Exported(c)
     PROVE  StoreInv'
  BY <1>19 DEF Exported, Goto, StoreInv, registry, download
<1>20. ASSUME NEW c \in Clients, CrossCheck(c)
     PROVE  StoreInv'
  BY <1>20 DEF CrossCheck, StoreInv, registry, download
<1>21. ASSUME NEW c \in Clients, NEW i \in todo[c], ExportTorn(c, i)
     PROVE  StoreInv'
  BY <1>21 DEF ExportTorn, Exports, End, Up, StoreInv, registry, download
<1>22. ASSUME NEW n \in Nodes, AnnounceAndServe(n)
     PROVE  StoreInv'
  BY <1>22 DEF AnnounceAndServe, Goto, StoreInv, registry, download
<1>23. ASSUME NEW n \in Nodes, Exit(n)
     PROVE  StoreInv'
  BY <1>23 DEF Exit, End, Up, StoreInv, registry, download
<1>24. ASSUME NEW n \in Nodes, NEW m \in Models, Expire(m, n)
     PROVE  StoreInv'
  BY <1>24 DEF Expire, StoreInv, registry, download
<1>25. ASSUME NEW c \in Clients, DirFails(c)
     PROVE  StoreInv'
  BY <1>25 DEF DirFails, Goto, StoreInv, registry, download
<1>26. ASSUME NEW c \in Clients, NEW i \in todo[c], ExportFails(c, i)
     PROVE  StoreInv'
  BY <1>26 DEF ExportFails, Goto, Exports, StoreInv, registry, download
<1> QED
  BY <1>1, <1>2, <1>3, <1>4, <1>5, <1>6, <1>7, <1>8, <1>9, <1>10, <1>11,
     <1>12, <1>13, <1>14, <1>15, <1>16, <1>17, <1>18, <1>19, <1>20, <1>21,
     <1>22, <1>23, <1>24, <1>25, <1>26 DEF Next, Proceed, Await

(***************************************************************************)
(* What a client's own steps and everybody else's do to it.                *)
(***************************************************************************)
Advances(c) ==
    Getting(c) /\ ClientState(c)' # ClientState(c) =>
        \/ Later(pc[c], pc'[c])
        \/ /\ pc'[c] = pc[c]
           /\ Left(c)' \subseteq Left(c)
           /\ Left(c)' # Left(c)

LEMMA StagesInOrder ==
    /\ \A c \in Clients : Getting(c) <=>
          pc[c] \in {"resolving", "verifying", "locating", "fetching", "clearing",
                    "exporting", "checking"}
    /\ Later("resolving", "verifying") /\ Later("verifying", "locating")
    /\ Later("locating", "fetching") /\ Later("fetching", "clearing")
    /\ Later("clearing", "exporting") /\ Later("exporting", "checking")
    /\ \A s : \A t \in {"saved", "off"} \cup Failures : Later(s, t)
<1>1. Range(Stages) = {"resolving", "verifying", "locating", "fetching", "clearing",
                       "exporting", "checking"}
  BY DEF Range, Stages
<1>2. DOMAIN Stages = 1 .. 7
  BY DEF Stages
<1>3. \A i \in 1 .. 6 : Later(Stages[i], Stages[i + 1])
  BY <1>2 DEF Later
<1>4. \A s : \A t \in {"saved", "off"} \cup Failures : Later(s, t)
  BY DEF Later
<1>5. /\ Stages[1] = "resolving" /\ Stages[2] = "verifying" /\ Stages[3] = "locating"
      /\ Stages[4] = "fetching" /\ Stages[5] = "clearing" /\ Stages[6] = "exporting"
      /\ Stages[7] = "checking"
  BY DEF Stages
<1>6. /\ Later("resolving", "verifying") /\ Later("verifying", "locating")
      /\ Later("locating", "fetching") /\ Later("fetching", "clearing")
      /\ Later("clearing", "exporting") /\ Later("exporting", "checking")
  <2>1. /\ Later(Stages[1], Stages[1 + 1]) /\ Later(Stages[2], Stages[2 + 1])
        /\ Later(Stages[3], Stages[3 + 1]) /\ Later(Stages[4], Stages[4 + 1])
        /\ Later(Stages[5], Stages[5 + 1]) /\ Later(Stages[6], Stages[6 + 1])
    BY <1>3
  <2> QED
    BY <1>5, <2>1
<1> QED
  BY <1>1, <1>4, <1>6 DEF Getting

LEMMA AdvanceStep ==
    ASSUME IInv, StoreInv, Next
    PROVE  \A k \in Clients : Advances(k)
<1> USE StagesInOrder
<1>1. ASSUME NEW v \in Validators, NEW m \in Models, NEW ver \in Versions,
            NEW folder \in Folders, Import(v, m, ver, folder)
     PROVE  \A k \in Clients : Advances(k)
  BY <1>1 DEF Import, Goto, Advances, ClientState, Left, Failures, IInv,
         TypeOK, StoreInv, Nodes, registry, download
<1>2. ASSUME NEW v \in Validators, Sign(v)
     PROVE  \A k \in Clients : Advances(k)
  BY <1>2 DEF Sign, Goto, Advances, ClientState, Left, Failures, IInv, TypeOK,
         StoreInv, Nodes, registry, download
<1>3. ASSUME NEW v \in Validators, Put(v)
     PROVE  \A k \in Clients : Advances(k)
  BY <1>3 DEF Put, Goto, Advances, ClientState, Left, Failures, IInv, TypeOK,
         StoreInv, Nodes, registry, download
<1>4. ASSUME NEW v \in Validators, NEW b \in HandSigned, SignByHand(v, b)
     PROVE  \A k \in Clients : Advances(k)
  BY <1>4 DEF SignByHand, Advances, ClientState, Left, Failures, IInv, TypeOK,
         StoreInv, Nodes, registry, download
<1>5. ASSUME NEW s \in Seeders, NEW m \in Models, NEW folder \in Folders, SeedDir(s, m, folder)
     PROVE  \A k \in Clients : Advances(k)
  BY <1>5 DEF SeedDir, Goto, Advances, ClientState, Left, Failures, IInv,
         TypeOK, StoreInv, Nodes, registry, download
<1>6. ASSUME NEW c \in Clients, NEW m \in Models, Get(c, m)
     PROVE  \A k \in Clients : Advances(k)
  BY <1>6 DEF Get, Goto, Advances, ClientState, Left, Failures, IInv, TypeOK,
         StoreInv, Nodes, registry, download
<1>7. ASSUME NEW c \in Clients, Resolve(c)
     PROVE  \A k \in Clients : Advances(k)
  BY <1>7 DEF Resolve, Goto, Advances, ClientState, Left, Failures, IInv,
         TypeOK, StoreInv, Nodes, registry, download
<1>8. ASSUME NEW c \in Clients, RequestFails(c)
     PROVE  \A k \in Clients : Advances(k)
  BY <1>8 DEF RequestFails, Goto, Advances, ClientState, Left, Failures, IInv,
         TypeOK, StoreInv, Nodes, registry, download
<1>9. ASSUME NEW c \in Clients, Verify(c)
     PROVE  \A k \in Clients : Advances(k)
  BY <1>9 DEF Verify, Advances, ClientState, Left, Failures, IInv, TypeOK,
         StoreInv, Nodes, registry, download
<1>10. ASSUME NEW c \in Clients, Locate(c)
     PROVE  \A k \in Clients : Advances(k)
  BY <1>10 DEF Locate, Goto, Advances, ClientState, Left, Failures, IInv,
         TypeOK, StoreInv, Nodes, registry, download
<1>11. ASSUME NEW c \in Clients, Fetch(c)
     PROVE  \A k \in Clients : Advances(k)
  <2>1. PICK x \in Missing(c) : store' = [store EXCEPT ![c] = @ \cup {x}]
    BY <1>11 DEF Fetch
  <2>2. UNCHANGED <<signed, registry, pc, want, man, download>>
    BY <1>11 DEF Fetch
  <2>3. ASSUME NEW k \in Clients \ {c} PROVE ClientState(k)' = ClientState(k)
    BY <2>1, <2>2, <2>3 DEF ClientState, StoreInv, Nodes, download
  <2>4. x \in Left(c) /\ pc[c] = "fetching"
    BY <1>11, <2>1 DEF Fetch, Missing, Left, Blobs
  <2>5. store'[c] = store[c] \cup {x}
    BY <2>1 DEF StoreInv, Nodes
  <2>6. Left(c)' = Left(c) \ {x}
    BY <2>2, <2>4, <2>5 DEF Left
  <2>7. Advances(c)
    BY <2>2, <2>4, <2>6 DEF Advances
  <2> QED
    BY <2>3, <2>7 DEF Advances
<1>12. ASSUME NEW c \in Clients, FetchFails(c)
     PROVE  \A k \in Clients : Advances(k)
  BY <1>12 DEF FetchFails, Goto, Advances, ClientState, Left, Failures, IInv,
         TypeOK, StoreInv, Nodes, registry, download
<1>13. ASSUME NEW c \in Clients, Fetched(c)
     PROVE  \A k \in Clients : Advances(k)
  BY <1>13 DEF Fetched, Goto, Advances, ClientState, Left, Failures, IInv,
         TypeOK, StoreInv, Nodes, registry, download
<1>14. ASSUME NEW c \in Clients, NEW i \in todo[c], Clear(c, i)
     PROVE  \A k \in Clients : Advances(k)
  BY <1>14 DEF Clear, Advances, ClientState, Left, Failures, IInv, TypeOK,
         StoreInv, Nodes, registry, download
<1>15. ASSUME NEW c \in Clients, NEW i \in todo[c], ClearFails(c, i)
     PROVE  \A k \in Clients : Advances(k)
  BY <1>15 DEF ClearFails, Advances, ClientState, Left, Failures, IInv,
         TypeOK, StoreInv, Nodes, registry, download
<1>16. ASSUME NEW c \in Clients, Cleared(c)
     PROVE  \A k \in Clients : Advances(k)
  BY <1>16 DEF Cleared, Goto, Advances, ClientState, Left, Failures, IInv,
         TypeOK, StoreInv, Nodes, registry, download
<1>17. ASSUME NEW c \in Clients, NEW i \in todo[c], Export(c, i)
     PROVE  \A k \in Clients : Advances(k)
  BY <1>17 DEF Export, Exports, Advances, ClientState, Left, Failures, IInv,
         TypeOK, StoreInv, Nodes, registry, download
<1>18. ASSUME NEW c \in Clients, NEW i \in todo[c], ExportBlocked(c, i)
     PROVE  \A k \in Clients : Advances(k)
  BY <1>18 DEF ExportBlocked, Exports, Goto, Advances, ClientState, Left,
         Failures, IInv, TypeOK, StoreInv, Nodes, registry, download
<1>19. ASSUME NEW c \in Clients, Exported(c)
     PROVE  \A k \in Clients : Advances(k)
  BY <1>19 DEF Exported, Goto, Advances, ClientState, Left, Failures, IInv,
         TypeOK, StoreInv, Nodes, registry, download
<1>20. ASSUME NEW c \in Clients, CrossCheck(c)
     PROVE  \A k \in Clients : Advances(k)
  BY <1>20 DEF CrossCheck, Advances, ClientState, Left, Failures, IInv,
         TypeOK, StoreInv, Nodes, registry, download
<1>21. ASSUME NEW c \in Clients, NEW i \in todo[c], ExportTorn(c, i)
     PROVE  \A k \in Clients : Advances(k)
  BY <1>21 DEF ExportTorn, Exports, End, Up, Advances, ClientState, Left,
         Failures, IInv, TypeOK, StoreInv, Nodes, registry, download
<1>22. ASSUME NEW n \in Nodes, AnnounceAndServe(n)
     PROVE  \A k \in Clients : Advances(k)
  BY <1>22 DEF AnnounceAndServe, Goto, Advances, ClientState, Left, Failures,
         IInv, TypeOK, StoreInv, Nodes, registry, download
<1>23. ASSUME NEW n \in Nodes, Exit(n)
     PROVE  \A k \in Clients : Advances(k)
  BY <1>23 DEF Exit, End, Up, Advances, ClientState, Left, Failures, IInv,
         TypeOK, StoreInv, Nodes, registry, download
<1>24. ASSUME NEW n \in Nodes, NEW m \in Models, Expire(m, n)
     PROVE  \A k \in Clients : Advances(k)
  BY <1>24 DEF Expire, Advances, ClientState, Left, Failures, IInv, TypeOK,
         StoreInv, Nodes, registry, download
<1>25. ASSUME NEW c \in Clients, DirFails(c)
     PROVE  \A k \in Clients : Advances(k)
  BY <1>25 DEF DirFails, Goto, Advances, ClientState, Left, Failures, IInv,
         TypeOK, StoreInv, Nodes, registry, download
<1>26. ASSUME NEW c \in Clients, NEW i \in todo[c], ExportFails(c, i)
     PROVE  \A k \in Clients : Advances(k)
  BY <1>26 DEF ExportFails, Goto, Exports, Advances, ClientState, Left,
         Failures, IInv, TypeOK, StoreInv, Nodes, registry, download
<1> QED
  BY <1>1, <1>2, <1>3, <1>4, <1>5, <1>6, <1>7, <1>8, <1>9, <1>10, <1>11,
     <1>12, <1>13, <1>14, <1>15, <1>16, <1>17, <1>18, <1>19, <1>20, <1>21,
     <1>22, <1>23, <1>24, <1>25, <1>26 DEF Next, Proceed, Await

(***************************************************************************)
(* No step of anyone takes a client back: each either leaves it alone or   *)
(* brings it closer to the end of its command, for any number of nodes,    *)
(* models and files and any answers of the registry.  With fairness of     *)
(* its own steps this is why GetEndsOrAwaits holds; that argument itself   *)
(* stays with TLC.                                                         *)
(***************************************************************************)
THEOREM DownloadsAdvance == Spec => DownloadAdvances
<1>1. Init => StoreInv
  BY DEF Init, StoreInv
<1>2. StoreInv /\ [Next]_vars => StoreInv'
  <2>1. ASSUME StoreInv, UNCHANGED vars PROVE StoreInv'
    BY <2>1 DEF vars, StoreInv
  <2> QED
    BY <2>1, StoreStep
<1>3. IInv /\ StoreInv /\ [Next]_vars => [\A c \in Clients : Advances(c)]_vars
  BY AdvanceStep
<1> QED
  BY <1>1, <1>2, <1>3, Inductive, PTL DEF Spec, DownloadAdvances, Advances
-----------------------------------------------------------------------------
(***************************************************************************)
(* Where signatures come from: a node holds a manifest it signed itself,   *)
(* or verifies one that the registry gave it; the registry takes manifests *)
(* only from nodes that have signed them.                                  *)
(***************************************************************************)
SignedIsPut(m) ==
    \/ record'[m] = record[m]
    \/ \E v \in Validators : pc[v] = "signed" /\ record'[m] = man[v]

AnswerIsVerified(n) ==
    \/ pc'[n] \notin {"signed", "verifying", "rejected"}
    \/ pc'[n] = pc[n] /\ man'[n] = man[n]
    \/ /\ pc'[n] = "signed" /\ pc[n] = "imported"
       /\ n \in Validators /\ man'[n] = SignedAlone(n)
    \/ /\ pc'[n] = "verifying" /\ want[n] \in Models
       /\ man'[n] \in Answers(want[n])
    \/ pc[n] = "verifying" /\ Verdict(Pinned, man[n]) # "accepted"

LEMMA Course ==
    ASSUME IInv, Next
    PROVE  /\ \A m \in Models : SignedIsPut(m)
           /\ \A n \in Nodes : AnswerIsVerified(n)
<1> DEFINE Goes == /\ \A m \in Models : SignedIsPut(m)
                   /\ \A n \in Nodes : AnswerIsVerified(n)
<1>1. ASSUME NEW v \in Validators, NEW m \in Models, NEW ver \in Versions,
            NEW folder \in Folders, Import(v, m, ver, folder)
     PROVE  Goes
  BY <1>1 DEF Import, Goto, IInv, SignedIsPut, AnswerIsVerified, SignedAlone,
         TypeOK, Nodes, Failures, registry, download
<1>2. ASSUME NEW v \in Validators, Sign(v)
     PROVE  Goes
  BY <1>2 DEF Sign, Goto, IInv, SignedIsPut, AnswerIsVerified, SignedAlone,
         TypeOK, Nodes, Failures, registry, download
<1>3. ASSUME NEW v \in Validators, Put(v)
     PROVE  Goes
  BY <1>3 DEF Put, Goto, IInv, SignedIsPut, AnswerIsVerified, SignedAlone,
         TypeOK, Nodes, Failures, registry, download
<1>4. ASSUME NEW v \in Validators, NEW b \in HandSigned, SignByHand(v, b)
     PROVE  Goes
  BY <1>4 DEF SignByHand, IInv, SignedIsPut, AnswerIsVerified, SignedAlone,
         TypeOK, Nodes, Failures, registry, download
<1>5. ASSUME NEW s \in Seeders, NEW m \in Models, NEW folder \in Folders, SeedDir(s, m, folder)
     PROVE  Goes
  BY <1>5 DEF SeedDir, Goto, IInv, SignedIsPut, AnswerIsVerified, SignedAlone,
         TypeOK, Nodes, Failures, registry, download
<1>6. ASSUME NEW c \in Clients, NEW m \in Models, Get(c, m)
     PROVE  Goes
  BY <1>6 DEF Get, Goto, IInv, SignedIsPut, AnswerIsVerified, SignedAlone,
         TypeOK, Nodes, Failures, registry, download
<1>7. ASSUME NEW c \in Clients, Resolve(c)
     PROVE  Goes
  <2>1. want[c] \in Models /\ c \in Nodes
    BY <1>7 DEF IInv, Resolve, Goto, PhaseInv, Nodes
  <2> QED
    BY <1>7, <2>1 DEF Resolve, Goto, IInv, SignedIsPut, AnswerIsVerified, TypeOK,
       Nodes, registry, download
<1>8. ASSUME NEW c \in Clients, RequestFails(c)
     PROVE  Goes
  BY <1>8 DEF RequestFails, Goto, IInv, SignedIsPut, AnswerIsVerified,
         SignedAlone, TypeOK, Nodes, Failures, registry, download
<1>9. ASSUME NEW c \in Clients, Verify(c)
     PROVE  Goes
  BY <1>9 DEF Verify, IInv, SignedIsPut, AnswerIsVerified, SignedAlone,
         TypeOK, Nodes, Failures, registry, download
<1>10. ASSUME NEW c \in Clients, Locate(c)
     PROVE  Goes
  BY <1>10 DEF Locate, Goto, IInv, SignedIsPut, AnswerIsVerified, SignedAlone,
         TypeOK, Nodes, Failures, registry, download
<1>11. ASSUME NEW c \in Clients, Fetch(c)
     PROVE  Goes
  BY <1>11 DEF Fetch, IInv, SignedIsPut, AnswerIsVerified, SignedAlone,
         TypeOK, Nodes, Failures, registry, download
<1>12. ASSUME NEW c \in Clients, FetchFails(c)
     PROVE  Goes
  BY <1>12 DEF FetchFails, Goto, IInv, SignedIsPut, AnswerIsVerified,
         SignedAlone, TypeOK, Nodes, Failures, registry, download
<1>13. ASSUME NEW c \in Clients, Fetched(c)
     PROVE  Goes
  BY <1>13 DEF Fetched, Goto, IInv, SignedIsPut, AnswerIsVerified,
         SignedAlone, TypeOK, Nodes, Failures, registry, download
<1>14. ASSUME NEW c \in Clients, NEW i \in todo[c], Clear(c, i)
     PROVE  Goes
  BY <1>14 DEF Clear, IInv, SignedIsPut, AnswerIsVerified, SignedAlone,
         TypeOK, Nodes, Failures, registry, download
<1>15. ASSUME NEW c \in Clients, NEW i \in todo[c], ClearFails(c, i)
     PROVE  Goes
  BY <1>15 DEF ClearFails, IInv, SignedIsPut, AnswerIsVerified, SignedAlone,
         TypeOK, Nodes, Failures, registry, download
<1>16. ASSUME NEW c \in Clients, Cleared(c)
     PROVE  Goes
  BY <1>16 DEF Cleared, Goto, IInv, SignedIsPut, AnswerIsVerified,
         SignedAlone, TypeOK, Nodes, Failures, registry, download
<1>17. ASSUME NEW c \in Clients, NEW i \in todo[c], Export(c, i)
     PROVE  Goes
  BY <1>17 DEF Export, Exports, IInv, SignedIsPut, AnswerIsVerified,
         SignedAlone, TypeOK, Nodes, Failures, registry, download
<1>18. ASSUME NEW c \in Clients, NEW i \in todo[c], ExportBlocked(c, i)
     PROVE  Goes
  BY <1>18 DEF ExportBlocked, Exports, Goto, IInv, SignedIsPut,
         AnswerIsVerified, SignedAlone, TypeOK, Nodes, Failures, registry,
         download
<1>19. ASSUME NEW c \in Clients, Exported(c)
     PROVE  Goes
  BY <1>19 DEF Exported, Goto, IInv, SignedIsPut, AnswerIsVerified,
         SignedAlone, TypeOK, Nodes, Failures, registry, download
<1>20. ASSUME NEW c \in Clients, CrossCheck(c)
     PROVE  Goes
  BY <1>20 DEF CrossCheck, IInv, SignedIsPut, AnswerIsVerified, SignedAlone,
         TypeOK, Nodes, Failures, registry, download
<1>21. ASSUME NEW c \in Clients, NEW i \in todo[c], ExportTorn(c, i)
     PROVE  Goes
  BY <1>21 DEF ExportTorn, Exports, End, Up, IInv, SignedIsPut,
         AnswerIsVerified, SignedAlone, TypeOK, Nodes, Failures, registry,
         download
<1>22. ASSUME NEW n \in Nodes, AnnounceAndServe(n)
     PROVE  Goes
  BY <1>22 DEF AnnounceAndServe, Goto, IInv, SignedIsPut, AnswerIsVerified,
         SignedAlone, TypeOK, Nodes, Failures, registry, download
<1>23. ASSUME NEW n \in Nodes, Exit(n)
     PROVE  Goes
  BY <1>23 DEF Exit, End, Up, IInv, SignedIsPut, AnswerIsVerified,
         SignedAlone, TypeOK, Nodes, Failures, registry, download
<1>24. ASSUME NEW n \in Nodes, NEW m \in Models, Expire(m, n)
     PROVE  Goes
  BY <1>24 DEF Expire, IInv, SignedIsPut, AnswerIsVerified, SignedAlone,
         TypeOK, Nodes, Failures, registry, download
<1>25. ASSUME NEW c \in Clients, DirFails(c)
     PROVE  Goes
  BY <1>25 DEF DirFails, Goto, IInv, SignedIsPut, AnswerIsVerified,
         SignedAlone, TypeOK, Nodes, Failures, registry, download
<1>26. ASSUME NEW c \in Clients, NEW i \in todo[c], ExportFails(c, i)
     PROVE  Goes
  BY <1>26 DEF ExportFails, Goto, Exports, IInv, SignedIsPut,
         AnswerIsVerified, SignedAlone, TypeOK, Nodes, Failures, registry,
         download
<1> QED
  BY <1>1, <1>2, <1>3, <1>4, <1>5, <1>6, <1>7, <1>8, <1>9, <1>10, <1>11,
     <1>12, <1>13, <1>14, <1>15, <1>16, <1>17, <1>18, <1>19, <1>20, <1>21,
     <1>22, <1>23, <1>24, <1>25, <1>26 DEF Next, Proceed, Await
-----------------------------------------------------------------------------
(***************************************************************************)
(* A record with one validator's own signature and no other.               *)
(***************************************************************************)
SignedByOne(r) == \E v \in Validators : r.signatures = <<OwnSignature(v, r)>>

OneKeyInv ==
    /\ \A m \in Models : record[m] # None => SignedByOne(record[m])
    /\ \A n \in Nodes : pc[n] \in {"signed", "verifying"} => SignedByOne(man[n])
    /\ \A n \in Nodes : pc[n] # "rejected"

AllPinned ==
    /\ Usable(Pinned) /\ Pinned.quorum = 1
    /\ \A v \in Validators : IsKeyOf(Pinned.validators, IdOf[v], KeyOf[v])

LEMMA OneSignatureSuffices ==
    ASSUME AllPinned, NEW r \in Manifests, SigningBytes(r) \in Bodies, SignedByOne(r)
    PROVE  Verdict(Pinned, r) = "accepted"
<1>1. PICK v \in Validators : r.signatures = <<OwnSignature(v, r)>>
  BY DEF SignedByOne
<1> DEFINE s == OwnSignature(v, r)
<1>2. /\ IdOf[v] \in Ids /\ KeyOf[v] \in Keys
      /\ s.validator = IdOf[v]
      /\ s.sig = [key |-> KeyOf[v], msg |-> SigningBytes(r)]
  BY RolesAssumption DEF OwnSignature, SignManifest
<1>3. Decodes(s.sig)
  <2>1. s \in Signatures
    BY OwnSignatureIsKnown
  <2> QED
    BY <2>1, RecordsAssumption
<1>4. VerifyStrict(KeyOf[v], SigningBytes(r), s.sig)
  BY <1>2 DEF VerifyStrict
<1>5. Len(r.signatures) = 1 /\ r.signatures[1] = s
  BY <1>1
<1>6. Vouched(Pinned, r, IdOf[v])
  BY <1>2, <1>3, <1>4, <1>5 DEF Vouched, AllPinned
<1>7. \A id : Vouched(Pinned, r, id) => id = IdOf[v]
  BY <1>2, <1>5 DEF Vouched
<1>8. Vouchers(Pinned, r) = {IdOf[v]}
  BY <1>2, <1>6, <1>7 DEF Vouchers
<1> QED
  BY <1>8, FS_Singleton DEF Verdict, AllPinned

LEMMA OneKeyStep ==
    ASSUME ~Untrusted, AllPinned, IInv, OneKeyInv, Next
    PROVE  OneKeyInv'
<1>1. ASSUME NEW m \in Models, record'[m] # None
     PROVE  SignedByOne(record'[m])
  <2>1. SignedIsPut(m)
    BY Course
  <2> QED
    BY <1>1, <2>1 DEF SignedIsPut, OneKeyInv, Nodes
<1>2. ASSUME NEW n \in Nodes
     PROVE  /\ pc'[n] \in {"signed", "verifying"} => SignedByOne(man'[n])
            /\ pc'[n] # "rejected"
  <2>1. AnswerIsVerified(n)
    BY Course
  <2>2. CASE pc'[n] = pc[n] /\ man'[n] = man[n]
    BY <2>2 DEF OneKeyInv
  <2>3. CASE /\ pc'[n] = "signed" /\ pc[n] = "imported"
             /\ n \in Validators /\ man'[n] = SignedAlone(n)
    <3>1. man[n] \in Manifests /\ SigningBytes(man[n]) \in Bodies
      BY <2>3 DEF IInv, TypeOK, PhaseInv, GenuineInv, Genuine
    <3>2. /\ SigningBytes(man'[n]) = SigningBytes(man[n])
          /\ man'[n].signatures = <<OwnSignature(n, man[n])>>
      <4>1. <<OwnSignature(n, man[n])>> \in Seq(Signatures)
        BY <2>3, <3>1, OwnSignatureIsKnown
      <4>2. /\ SigningBytes(SignedAlone(n)) = SigningBytes(man[n])
            /\ SignedAlone(n).signatures = <<OwnSignature(n, man[n])>>
        BY <3>1, <4>1, SigningBytesFacts DEF SignedAlone
      <4> QED
        BY <2>3, <4>2
    <3>3. OwnSignature(n, man'[n]) = OwnSignature(n, man[n])
      BY <3>2 DEF OwnSignature, SignManifest
    <3> QED
      BY <2>3, <3>2, <3>3 DEF SignedByOne
  <2>4. CASE /\ pc'[n] = "verifying" /\ want[n] \in Models
             /\ man'[n] \in Answers(want[n])
    BY <2>4 DEF Answers, OneKeyInv
  <2>5. CASE pc[n] = "verifying" /\ Verdict(Pinned, man[n]) # "accepted"
    <3>1. man[n] \in Manifests /\ SigningBytes(man[n]) \in Bodies
      BY <2>5 DEF IInv, TypeOK, PhaseInv, GenuineInv, Genuine
    <3> QED
      BY <2>5, <3>1, OneSignatureSuffices DEF OneKeyInv
  <2> QED
    BY <2>1, <2>2, <2>3, <2>4, <2>5 DEF AnswerIsVerified
<1> QED
  BY <1>1, <1>2 DEF OneKeyInv

(***************************************************************************)
(* For any number of validators, models and republished records: what an   *)
(* honest registry hands out is enough for a quorum of one.  Together with *)
(* LoneSignaturesNeverSuffice this draws the line: a quorum of one always  *)
(* passes the check, a larger one never does.                              *)
(***************************************************************************)
THEOREM HonestRecordsAreAccepted == Spec => []QuorumOfOneAccepts
<1>1. CASE ~(~Untrusted /\ AllPinned)
  <2>1. QuorumOfOneAccepts
    BY <1>1 DEF QuorumOfOneAccepts, AllPinned
  <2> QED
    BY <2>1, PTL
<1>2. CASE ~Untrusted /\ AllPinned
  <2>1. Init => OneKeyInv
    BY DEF Init, OneKeyInv
  <2>2. IInv /\ OneKeyInv /\ [Next]_vars => OneKeyInv'
    <3>1. ASSUME OneKeyInv, UNCHANGED vars PROVE OneKeyInv'
      BY <3>1 DEF vars, OneKeyInv
    <3> QED
      BY <1>2, <3>1, OneKeyStep
  <2>3. OneKeyInv => QuorumOfOneAccepts
    BY DEF OneKeyInv, QuorumOfOneAccepts, Nodes
  <2> QED
    BY <2>1, <2>2, <2>3, Inductive, PTL DEF Spec
<1> QED
  BY <1>1, <1>2
-----------------------------------------------------------------------------
(***************************************************************************)
(* What a quorum is for: as long as fewer pinned keys are in bad hands     *)
(* than the quorum asks for, whatever a client saves was also signed by a  *)
(* validator whose key is not -- whatever the registry and the seeders do. *)
(***************************************************************************)
THEOREM AQuorumOutvotesTheBad ==
    ASSUME NEW Bad \in SUBSET Ids, IsFiniteSet(Bad), Cardinality(Bad) < Pinned.quorum
    PROVE  Spec => [](\A c \in Clients : Saved(c) =>
                         \E id \in Ids \ Bad : id \in Trust!Signers(SigningBytes(man[c])))
<1>1. IInv => \A c \in Clients : Saved(c) =>
                 \E id \in Ids \ Bad : id \in Trust!Signers(SigningBytes(man[c]))
  <2> SUFFICES ASSUME IInv, NEW c \in Clients, Saved(c),
                      Trust!Signers(SigningBytes(man[c])) \subseteq Bad
               PROVE  FALSE
    BY DEF Trust!Signers
  <2> DEFINE S == Trust!Signers(SigningBytes(man[c]))
  <2>1. Accepted(c) /\ c \in Nodes
    BY DEF Saved, IInv, AcceptedInv, PastQuorum, Nodes
  <2>2. Trust!Truth(SigningBytes(man[c]))
    BY <2>1, AcceptedIsTruth DEF IInv, GenuineInv, Genuine, Accepted, TypeOK
  <2>3. Cardinality(S) >= Pinned.quorum
    <3>1. \A X : Trust!Cardinality(X) = Cardinality(X)
      BY DEF Trust!Cardinality, Cardinality
    <3> QED
      BY <2>2, <3>1 DEF Trust!Truth
  <2>4. IsFiniteSet(S) /\ Cardinality(S) <= Cardinality(Bad)
    BY FS_Subset
  <2> QED
    BY <2>3, <2>4, FS_CardinalityType, RolesAssumption DEF Keyring
<1> QED
  BY <1>1, Inductive, PTL
=========================================================================
