---------------------------- MODULE ReceiptReader ----------------------------
(***************************************************************************)
(* ReadReceipt beside the writers of ReceiptStore.  It takes no lock: it   *)
(* globs the four folders one after the other and then opens the path it   *)
(* found, while moves and updates go on.                                   *)
(***************************************************************************)
EXTENDS ReceiptStore

CONSTANTS
  Readers,     \* processes inside ReadReceipt
  NoResult,    \* the read has not returned
  NotFound     \* the read returned an error

ASSUME ReceiptReaderAssumption ==
    /\ NoResult \notin Receipt
    /\ NotFound \notin Receipt
    /\ NoResult # NotFound

VARIABLES
  at,       \* 0 outside ReadReceipt, else the rank of the folder it is at
  opening,  \* whether the glob of that folder matched
  result,   \* what ReadReceipt returned
  held,     \* history: what the store held when the read began
  crossed   \* history: whether a file appeared or went during the read

readVars == <<at, opening, result>>
historyVars == <<held, crossed>>
allVars == <<vars, readVars, historyVars>>

FolderAt(rank) == CHOOSE f \in Folders : Rank[f] = rank
Last == 4

ReaderTypeOK ==
    /\ TypeOK
    /\ at \in [Readers -> 0..Last]
    /\ opening \in [Readers -> BOOLEAN]
    /\ result \in [Readers -> Receipt \cup {NoResult, NotFound}]
    /\ held \in [Readers -> Receipt \cup {NoFile}]
    /\ crossed \in [Readers -> BOOLEAN]

ReaderInit ==
    /\ Init
    /\ at = [r \in Readers |-> 0]
    /\ opening = [r \in Readers |-> FALSE]
    /\ result = [r \in Readers |-> NoResult]
    /\ held = [r \in Readers |-> NoFile]
    /\ crossed = [r \in Readers |-> FALSE]

Reading(r) == at[r] # 0 /\ result[r] = NoResult

StartRead(r) ==
    /\ at[r] = 0
    /\ at' = [at EXCEPT ![r] = 1]
    /\ UNCHANGED <<opening, result>>

\* One filepath.Glob, in the order of findReceiptPath.
GlobHit(r) ==
    /\ Reading(r) /\ ~opening[r]
    /\ files[FolderAt(at[r])] # NoFile
    /\ opening' = [opening EXCEPT ![r] = TRUE]
    /\ UNCHANGED <<at, result>>

GlobMiss_SkipDead(r) ==
    /\ Reading(r) /\ ~opening[r]
    /\ files[FolderAt(at[r])] = NoFile
    /\ IF at[r] < Last - 1
       THEN at' = [at EXCEPT ![r] = @ + 1] /\ UNCHANGED result
       ELSE result' = [result EXCEPT ![r] = NotFound] /\ UNCHANGED at
    /\ UNCHANGED opening

GlobMiss(r) ==
    /\ Reading(r) /\ ~opening[r]
    /\ files[FolderAt(at[r])] = NoFile
    /\ IF at[r] < Last
       THEN at' = [at EXCEPT ![r] = @ + 1] /\ UNCHANGED result
       ELSE result' = [result EXCEPT ![r] = NotFound] /\ UNCHANGED at
    /\ UNCHANGED opening

\* os.ReadFile of the path found: the file may have been moved away.
Open(r) ==
    /\ Reading(r) /\ opening[r]
    /\ LET file == files[FolderAt(at[r])]
       IN  result' = [result EXCEPT ![r] = IF file = NoFile THEN NotFound ELSE file]
    /\ UNCHANGED <<at, opening>>

ReturnRead(r) ==
    /\ result[r] # NoResult
    /\ at' = [at EXCEPT ![r] = 0]
    /\ opening' = [opening EXCEPT ![r] = FALSE]
    /\ result' = [result EXCEPT ![r] = NoResult]

ReadStep(r) == StartRead(r) \/ GlobHit(r) \/ GlobMiss(r) \/ Open(r) \/ ReturnRead(r)

\* The history variables follow every step of a read that is under way.
Observe ==
    /\ held' = [r \in Readers |->
                  IF at'[r] = 0 THEN NoFile
                  ELSE IF at[r] = 0 THEN Held
                  ELSE held[r]]
    /\ crossed' = [r \in Readers |->
                     /\ at'[r] # 0
                     /\ \/ crossed[r]
                        \/ result[r] = NoResult /\ at[r] # 0 /\ Copies' # Copies]

ReaderNext ==
    /\ \/ Next /\ UNCHANGED readVars
       \/ (\E r \in Readers : ReadStep(r)) /\ UNCHANGED vars
    /\ Observe

ReaderSpec == ReaderInit /\ [][ReaderNext]_allVars

-----------------------------------------------------------------------------
\* ReadReceipt without a lock: a successful read never returns an older
\* update than the one the store held when the read began.  (Its folder may
\* even be that of a move that has not taken effect yet: a search that passed
\* unread/ before the receipt came there meets the new copy in active/ before
\* the source is removed.)
ReadNotStale ==
    \A r \in Readers : result[r] \in Receipt /\ held[r] # NoFile =>
        result[r].rev >= held[r].rev

\* "receipt ... not found" is only reported of a receipt that did not exist
\* at the start, or that a move took from under the search.
NotFoundMeansMoved ==
    \A r \in Readers :
        result[r] = NotFound => crossed[r] \/ held[r] = NoFile
=============================================================================
