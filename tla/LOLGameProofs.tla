---------------------------- MODULE LOLGameProofs ----------------------------
(* Theorems of the game thread and its window, for any champions, accounts,
   phases and bounds. *)
EXTENDS LOLGame, SequenceTheorems, TLAPS

Ids == Champs \cup {0}

-----------------------------------------------------------------------------
(* The maps of champions *)

LEMMA MapType ==
  ASSUME NEW D \in SUBSET Ids, NEW f \in [D -> BOOLEAN]
  PROVE  f \in ChampMap
BY DEF ChampMap, Ids

LEMMA MapDomain ==
  ASSUME NEW f \in ChampMap
  PROVE  /\ DOMAIN f \subseteq Ids /\ f \in [DOMAIN f -> BOOLEAN]
         /\ f # Empty => DOMAIN f # {}
<1>1. PICK D \in SUBSET Ids : f \in [D -> BOOLEAN]
  BY DEF ChampMap, Ids
<1>2. DOMAIN f = {} => f = Empty
  BY <1>1 DEF Empty
<1> QED BY <1>1, <1>2

LEMMA EmptyType == Empty \in ChampMap /\ DOMAIN Empty = {}
<1>1. Empty \in [{} -> BOOLEAN] /\ DOMAIN Empty = {}
  BY DEF Empty
<1> QED BY <1>1, MapType

LEMMA ListedType == [c \in Champs |-> TRUE] \in ChampMap
BY MapType DEF Ids

(* operator[] keeps what is there and makes the map non-empty. *)
LEMMA InsertType ==
  ASSUME all_champ_info_map_ \in ChampMap, NEW ids \in SUBSET Ids
  PROVE  /\ Insert(ids) \in ChampMap
         /\ DOMAIN Insert(ids) = DOMAIN all_champ_info_map_ \cup ids
         /\ all_champ_info_map_ # Empty => Insert(ids) # Empty
<1> DEFINE D == DOMAIN all_champ_info_map_ \cup ids
<1>1. D \in SUBSET Ids
  BY MapDomain
<1>2. \A c \in D : (c \in DOMAIN all_champ_info_map_ /\ all_champ_info_map_[c]) \in BOOLEAN
  OBVIOUS
<1>3. Insert(ids) \in [D -> BOOLEAN]
  BY <1>2, Zenon DEF Insert
<1>4. Insert(ids) \in ChampMap
  BY <1>1, <1>3, MapType
<1>5. DOMAIN Insert(ids) = D
  BY DEF Insert
<1>6. all_champ_info_map_ # Empty => D # {}
  BY MapDomain
<1> QED BY <1>4, <1>5, <1>6, EmptyType

LEMMA LookupType ==
  ASSUME all_champ_info_map_ \in ChampMap, NEW id \in Ids
  PROVE  GetChampInfoById(id) \in Ids
BY DEF GetChampInfoById, Ids

(* The merge of the ranking inserts, or nothing happens to the champions. *)
LEMMA MergeInserts ==
  ASSUME GetOPGGChampRankInfo
  PROVE  \/ UNCHANGED all_champ_info_map_
         \/ \E ids \in SUBSET Ids : all_champ_info_map_' = Insert(ids)
BY DEF GetOPGGChampRankInfo, champs, Ids

LEMMA AvailableType ==
  ASSUME available_champ_info_map_ \in ChampMap, NEW team \in SUBSET Ids
  PROVE  /\ Available(team) \in ChampMap
         /\ DOMAIN Available(team) = DOMAIN available_champ_info_map_ \cup team
<1> DEFINE D == DOMAIN available_champ_info_map_ \cup team
<1>1. D \in SUBSET Ids
  BY MapDomain
<1>2. \A c \in D : (c \in team) \in BOOLEAN
  OBVIOUS
<1>3. Available(team) \in [D -> BOOLEAN]
  BY <1>2, Zenon DEF Available
<1>4. DOMAIN Available(team) = D
  BY DEF Available
<1> QED BY <1>1, <1>3, <1>4, MapType

LEMMA PostType ==
  ASSUME ui_queue \in Seq(Messages), NEW kind, NEW value, PostUI(kind, value),
         [kind |-> kind, value |-> value] \in Messages
  PROVE  ui_queue' \in Seq(Messages)
BY AppendProperties DEF PostUI

LEMMA MessageType ==
  /\ \A v \in Accounts \cup {0} : [kind |-> "summoner", value |-> v] \in Messages
  /\ \A v \in Ids : [kind |-> "champ", value |-> v] \in Messages
  /\ \A v \in ChampMap : [kind |-> "list", value |-> v] \in Messages
BY DEF Messages, Ids

LEMMA InitType == Init => TypeOK
<1> SUFFICES ASSUME Init PROVE TypeOK
  OBVIOUS
<1>1. /\ 0 \in 0..MaxSessions /\ 0 \in 0..MaxFailures /\ 0 \in 0..MaxClicks
      /\ 0 \in 0..PollAfter
  BY BoundsAssumption
<1>2. cur_game_status_ \in Statuses /\ pc \in PCs
  BY DEF Init, Statuses, PCs
<1>3. cur_champ_conf_ \in [champ : Ids, runes : BOOLEAN]
  BY DEF Init, Ids
<1>4. ui_queue \in Seq(Messages)
  BY DEF Init
<1>5. /\ item_set \in [Accounts -> Ids] /\ rune_page \in [Accounts -> Ids]
      /\ my_team \subseteq Ids /\ seen \subseteq Champs
  BY DEF Init, Ids
<1>6. ranked \in BOOLEAN
  BY DEF Init
<1> QED BY <1>1, <1>2, <1>3, <1>4, <1>5, <1>6, EmptyType DEF Init, TypeOK, Ids

(* A request counts as failed at most MaxFailures times. *)
LEMMA FailsType ==
  ASSUME TypeOK,
         \/ Answered \/ Unanswered \/ OpggAnswered \/ OpggUnanswered \/ Fails
         \/ UNCHANGED failures
  PROVE  failures' \in 0..MaxFailures
<1>1. Fails => failures' \in 0..MaxFailures
  BY BoundsAssumption DEF TypeOK, Fails
<1> QED BY <1>1 DEF TypeOK, Answered, Unanswered, OpggAnswered, OpggUnanswered

LEMMA StepType == TypeOK /\ [Next]_vars => TypeOK'
<1> SUFFICES ASSUME TypeOK, [Next]_vars PROVE TypeOK'
  OBVIOUS
<1> USE DEF client, config, status, login, champs, select, apply, shown, AsideFromClient
<1>1. ASSUME Launch PROVE TypeOK'
  BY <1>1, BoundsAssumption DEF TypeOK, Launch
<1>2. ASSUME Exit PROVE TypeOK'
  BY <1>2, BoundsAssumption DEF TypeOK, Exit
<1>3. ASSUME NEW a \in Accounts, LogIn(a) PROVE TypeOK'
  BY <1>3 DEF TypeOK, LogIn
<1>4. ASSUME NEW p \in Phases, ChangePhase(p) PROVE TypeOK'
  BY <1>4 DEF TypeOK, ChangePhase
<1>5. ASSUME NEW c \in Champs, NEW others \in Teams, Pick(c, others) PROVE TypeOK'
  BY <1>5, TeamsAssumption DEF TypeOK, Pick
<1>6. CASE OnClickConfigChamp
  BY <1>6, BoundsAssumption DEF TypeOK, OnClickConfigChamp
<1>7. CASE FindGameWindow
  BY <1>7 DEF TypeOK, FindGameWindow, Statuses
<1>8. CASE OnUnknown
  BY <1>8 DEF TypeOK, OnUnknown, Statuses, KnownPhases, LobbyPhases
<1>9. CASE OnClientInfoDone
  BY <1>9 DEF TypeOK, OnClientInfoDone, Statuses, KnownPhases, LobbyPhases
<1>10. CASE OnClientInfo
  <2>1. failures' \in 0..MaxFailures
    BY <1>10, FailsType DEF OnClientInfo
  <2>2. port' \in 0..MaxSessions
    BY <1>10, BoundsAssumption DEF TypeOK, OnClientInfo
  <2> QED BY <1>10, <2>1, <2>2 DEF TypeOK, OnClientInfo, PCs
<1>11. CASE OnGameNone
  <2>1. ui_queue' \in Seq(Messages)
    BY <1>11, PostType, MessageType, EmptyType DEF TypeOK, OnGameNone
  <2> QED BY <1>11, <2>1, EmptyType DEF TypeOK, OnGameNone, PCs
<1>12. CASE OnGameInProgress
  <2>1. count' \in 0..PollAfter
    BY <1>12, BoundsAssumption DEF TypeOK, OnGameInProgress
  <2>2. pc' \in PCs
    BY <1>12 DEF OnGameInProgress, PCs
  <2> QED BY <1>12, <2>1, <2>2 DEF TypeOK, OnGameInProgress
<1>13. CASE OnChampSelect
  BY <1>13 DEF TypeOK, OnChampSelect, PCs
<1>14. CASE SetChampionConf
  BY <1>14 DEF TypeOK, SetChampionConf, PCs
<1>15. CASE Login
  <2>1. failures' \in 0..MaxFailures
    BY <1>15, FailsType DEF Login
  <2>2. login_id' \in Accounts \cup {0}
    BY <1>15 DEF TypeOK, Login
  <2> QED BY <1>15, <2>1, <2>2 DEF TypeOK, Login, PCs
<1>16. CASE GetCurSummonerInfo
  <2>1. failures' \in 0..MaxFailures
    BY <1>16, FailsType DEF GetCurSummonerInfo
  <2>2. summoner_id' \in Accounts \cup {0}
    BY <1>16 DEF TypeOK, GetCurSummonerInfo
  <2>3. pc' \in PCs
    BY <1>16 DEF GetCurSummonerInfo, PCs
  <2>4. ui_queue' \in Seq(Messages)
    BY <1>16, <2>2, PostType, MessageType DEF TypeOK, GetCurSummonerInfo
  <2> QED BY <1>16, <2>1, <2>2, <2>3, <2>4 DEF TypeOK, GetCurSummonerInfo
<1>17. CASE GetAllChampInfoMap
  <2>1. failures' \in 0..MaxFailures
    BY <1>17, FailsType DEF GetAllChampInfoMap
  <2>2. all_champ_info_map_' \in ChampMap
    BY <1>17, ListedType DEF TypeOK, GetAllChampInfoMap
  <2>3. pc' \in PCs
    BY <1>17 DEF GetAllChampInfoMap, PCs
  <2> QED BY <1>17, <2>1, <2>2, <2>3 DEF TypeOK, GetAllChampInfoMap
<1>18. CASE GetOPGGChampRankInfo
  <2>1. failures' \in 0..MaxFailures
    BY <1>18, FailsType DEF GetOPGGChampRankInfo
  <2>2. ranked' \in BOOLEAN
    BY <1>18, Zenon DEF TypeOK, GetOPGGChampRankInfo, champs
  <2>3. all_champ_info_map_' \in ChampMap
    BY <1>18, MergeInserts, InsertType DEF TypeOK, champs
  <2> QED BY <1>18, <2>1, <2>2, <2>3 DEF TypeOK, GetOPGGChampRankInfo, PCs
<1>19. CASE GetGameStatus
  <2>1. failures' \in 0..MaxFailures
    BY <1>19, FailsType DEF GetGameStatus
  <2>2. cur_game_status_' \in Statuses
    BY <1>19 DEF GetGameStatus, Statuses
  <2>3. pc' \in PCs
    BY <1>19 DEF GetGameStatus, PCs
  <2> QED BY <1>19, <2>1, <2>2, <2>3 DEF TypeOK, GetGameStatus
<1>20. CASE GetCurSelectChampionId
  <2>1. failures' \in 0..MaxFailures
    BY <1>20, FailsType DEF GetCurSelectChampionId
  <2>2. PICK cur_id \in Ids :
          \/ /\ all_champ_info_map_' = Insert({cur_id})
             /\ cur_select_champ_info_' = GetChampInfoById(cur_id)
             /\ PostUI("champ", cur_select_champ_info_')
          \/ UNCHANGED <<all_champ_info_map_, cur_select_champ_info_, ui_queue>>
    BY <1>20 DEF TypeOK, GetCurSelectChampionId, Ids
  <2>3. all_champ_info_map_ \in ChampMap /\ {cur_id} \in SUBSET Ids
    BY DEF TypeOK
  <2>4. all_champ_info_map_' \in ChampMap /\ cur_select_champ_info_' \in Ids
    BY <2>2, <2>3, InsertType, LookupType DEF TypeOK, Ids
  <2>5. ui_queue' \in Seq(Messages)
    BY <2>2, <2>4, PostType, MessageType DEF TypeOK
  <2> QED BY <1>20, <2>1, <2>4, <2>5 DEF TypeOK, GetCurSelectChampionId, PCs, Ids
<1>21. CASE GetChampSelectInfo
  <2>1. failures' \in 0..MaxFailures
    BY <1>21, FailsType DEF GetChampSelectInfo
  <2>2. PICK team \in SUBSET Ids : /\ seen' = seen \cup (team \ {0})
                                  /\ available_champ_info_map_' = Available(team)
                                  /\ all_champ_info_map_' = Insert(team)
    BY <1>21 DEF TypeOK, GetChampSelectInfo, Ids
  <2>3. all_champ_info_map_' \in ChampMap /\ available_champ_info_map_' \in ChampMap
    BY <2>2, InsertType, AvailableType DEF TypeOK
  <2>4. seen' \subseteq Champs
    BY <2>2 DEF TypeOK, Ids
  <2>5. ui_queue' \in Seq(Messages)
    BY <1>21, <2>3, PostType, MessageType DEF TypeOK, GetChampSelectInfo
  <2> QED BY <1>21, <2>1, <2>3, <2>4, <2>5 DEF TypeOK, GetChampSelectInfo, PCs
<1>22. CASE GetChampConf
  <2>1. failures' \in 0..MaxFailures
    BY <1>22, FailsType DEF GetChampConf
  <2>2. cur_champ_conf_' \in [champ : Champs \cup {0}, runes : BOOLEAN]
    BY <1>22 DEF TypeOK, GetChampConf
  <2>3. {cur_select_champ_info_} \in SUBSET Ids
    BY DEF TypeOK, Ids
  <2>4. all_champ_info_map_' \in ChampMap
    BY <1>22, <2>3, InsertType DEF TypeOK, GetChampConf
  <2> QED BY <1>22, <2>1, <2>2, <2>4 DEF TypeOK, GetChampConf, PCs
<1>23. CASE GetItemSets
  <2>1. failures' \in 0..MaxFailures
    BY <1>23, FailsType DEF GetItemSets
  <2> QED BY <1>23, <2>1 DEF TypeOK, GetItemSets, PCs
<1>24. CASE PutItemSets
  <2>1. failures' \in 0..MaxFailures
    BY <1>24, FailsType DEF PutItemSets
  <2>2. item_set' \in [Accounts -> Champs \cup {0}]
    BY <1>24 DEF TypeOK, PutItemSets
  <2> QED BY <1>24, <2>1, <2>2 DEF TypeOK, PutItemSets, PCs
<1>25. CASE GetCurrentPage
  <2>1. failures' \in 0..MaxFailures
    BY <1>25, FailsType DEF GetCurrentPage
  <2> QED BY <1>25, <2>1 DEF TypeOK, GetCurrentPage, PCs
<1>26. CASE DeletePage
  <2>1. failures' \in 0..MaxFailures
    BY <1>26, FailsType DEF DeletePage
  <2>2. rune_page' \in [Accounts -> Champs \cup {0}]
    BY <1>26 DEF TypeOK, DeletePage
  <2>3. pc' \in PCs
    BY <1>26 DEF DeletePage, PCs
  <2> QED BY <1>26, <2>1, <2>2, <2>3 DEF TypeOK, DeletePage
<1>27. CASE PostPage
  <2>1. failures' \in 0..MaxFailures
    BY <1>27, FailsType DEF PostPage
  <2>2. rune_page' \in [Accounts -> Champs \cup {0}]
    BY <1>27 DEF TypeOK, PostPage
  <2> QED BY <1>27, <2>1, <2>2 DEF TypeOK, PostPage, PCs
<1>28. CASE UIStep
  <2>1. ui_queue' \in Seq(Messages) /\ Head(ui_queue) \in Messages
    BY <1>28, HeadTailProperties DEF TypeOK, UIStep
  <2>2. shown_summoner' \in Accounts \cup {0}
    BY <1>28, <2>1 DEF TypeOK, UIStep, Messages
  <2>3. shown_champ' \in Champs \cup {0}
    BY <1>28, <2>1 DEF TypeOK, UIStep, Messages
  <2>4. shown_list' \in ChampMap
    BY <1>28, <2>1 DEF TypeOK, UIStep, Messages
  <2> QED BY <1>28, <2>1, <2>2, <2>3, <2>4 DEF TypeOK, UIStep
<1>29. CASE UNCHANGED vars
  BY <1>29 DEF TypeOK, vars
<1> QED BY <1>1, <1>2, <1>3, <1>4, <1>5, <1>6, <1>7, <1>8, <1>9, <1>10, <1>11, <1>12,
  <1>13, <1>14, <1>15, <1>16, <1>17, <1>18, <1>19, <1>20, <1>21, <1>22, <1>23, <1>24,
  <1>25, <1>26, <1>27, <1>28, <1>29 DEF Next, ClientStep, Timer, Requests

-----------------------------------------------------------------------------
(* Messages on their way to the window *)

LEMMA SentLast ==
  ASSUME NEW queue \in Seq(Messages), NEW kind, NEW value, NEW shown_now,
         [kind |-> kind, value |-> value] \in Messages
  PROVE  WillShow(Append(queue, [kind |-> kind, value |-> value]), kind, shown_now, value)
<1> DEFINE m == [kind |-> kind, value |-> value]
           i == Len(queue) + 1
<1>1. /\ Append(queue, m)[i] = m /\ DOMAIN Append(queue, m) = 1..i
      /\ i \in Nat /\ i >= 1
  BY AppendProperties, LenProperties
<1> QED BY <1>1 DEF WillShow

LEMMA SentOther ==
  ASSUME NEW queue \in Seq(Messages), NEW kind, NEW value, NEW shown_now, NEW m \in Messages,
         m.kind # kind, WillShow(queue, kind, shown_now, value)
  PROVE  WillShow(Append(queue, m), kind, shown_now, value)
<1> DEFINE n == Len(queue)
<1>1. /\ n \in Nat /\ DOMAIN queue = 1..n /\ DOMAIN Append(queue, m) = 1..(n + 1)
      /\ Append(queue, m)[n + 1] = m
      /\ \A i \in 1..n : Append(queue, m)[i] = queue[i]
  BY AppendProperties, LenProperties
<1> QED BY <1>1 DEF WillShow

(* A message of another kind is shown. *)
LEMMA ShownOther ==
  ASSUME NEW queue \in Seq(Messages), queue # <<>>, NEW kind, NEW value, NEW shown_now,
         Head(queue).kind # kind, WillShow(queue, kind, shown_now, value)
  PROVE  WillShow(Tail(queue), kind, shown_now, value)
<1> DEFINE n == Len(queue)
<1>1. /\ n \in Nat /\ n >= 1 /\ DOMAIN queue = 1..n /\ DOMAIN Tail(queue) = 1..(n - 1)
      /\ Head(queue) = queue[1]
      /\ \A i \in 1..(n - 1) : Tail(queue)[i] = queue[i + 1]
  BY HeadTailProperties, LenProperties, EmptySeq
<1>2. CASE \A i \in DOMAIN queue : queue[i].kind # kind
  BY <1>1, <1>2 DEF WillShow
<1>3. CASE \E i \in DOMAIN queue :
             /\ queue[i].kind = kind /\ queue[i].value = value
             /\ \A j \in DOMAIN queue : j > i => queue[j].kind # kind
  <2>1. PICK i \in 1..n : /\ queue[i].kind = kind /\ queue[i].value = value
                         /\ \A j \in 1..n : j > i => queue[j].kind # kind
    BY <1>1, <1>3
  <2>2. i # 1
    BY <1>1, <2>1
  <2>3. i - 1 \in 1..(n - 1) /\ (i - 1) + 1 = i
    BY <1>1, <2>2
  <2>4. Tail(queue)[i - 1] = queue[i]
    BY <1>1, <2>3
  <2>5. ASSUME NEW j \in 1..(n - 1), j > i - 1 PROVE Tail(queue)[j].kind # kind
    BY <1>1, <2>1, <2>5
  <2> QED BY <1>1, <2>1, <2>3, <2>4, <2>5 DEF WillShow
<1> QED BY <1>2, <1>3 DEF WillShow

(* A message of this kind is shown: it is the value, or it is overtaken. *)
LEMMA ShownSame ==
  ASSUME NEW queue \in Seq(Messages), queue # <<>>, NEW kind, NEW value, NEW shown_now,
         NEW shown_next, Head(queue).kind = kind, WillShow(queue, kind, shown_now, value),
         Head(queue).value = value => shown_next = value
  PROVE  WillShow(Tail(queue), kind, shown_next, value)
<1> DEFINE n == Len(queue)
<1>1. /\ n \in Nat /\ n >= 1 /\ DOMAIN queue = 1..n /\ DOMAIN Tail(queue) = 1..(n - 1)
      /\ Head(queue) = queue[1]
      /\ \A i \in 1..(n - 1) : Tail(queue)[i] = queue[i + 1]
  BY HeadTailProperties, LenProperties, EmptySeq
<1>2. PICK i \in 1..n : /\ queue[i].kind = kind /\ queue[i].value = value
                       /\ \A j \in 1..n : j > i => queue[j].kind # kind
  BY <1>1 DEF WillShow
<1>3. CASE i = 1
  <2>1. \A j \in 1..(n - 1) : Tail(queue)[j].kind # kind
    BY <1>1, <1>2, <1>3
  <2>2. shown_next = value
    BY <1>1, <1>2, <1>3
  <2> QED BY <1>1, <2>1, <2>2 DEF WillShow
<1>4. CASE i # 1
  <2>1. i - 1 \in 1..(n - 1) /\ Tail(queue)[i - 1] = queue[i]
    BY <1>1, <1>4
  <2>2. ASSUME NEW j \in 1..(n - 1), j > i - 1 PROVE Tail(queue)[j].kind # kind
    BY <1>1, <1>2, <2>2
  <2> QED BY <1>1, <1>2, <2>1, <2>2 DEF WillShow
<1> QED BY <1>3, <1>4

-----------------------------------------------------------------------------
(* The invariant's parts *)

(* The actions of the apply button's task, but for the one that looks up   *)
(* the champion's name.                                                    *)
ApplyStep == \/ OnClickConfigChamp \/ SetChampionConf \/ GetItemSets \/ PutItemSets
             \/ GetCurrentPage \/ DeletePage \/ PostPage

LEMMA ApplyStepKeeps ==
  ASSUME ApplyStep
  PROVE  /\ UNCHANGED <<client, status, login, champs, select, ui_queue, shown>>
         /\ \/ pc' = pc
            \/ pc' \in {"idle", "get_items", "put_items", "get_page", "delete_page",
                        "post_page", "crashed"}
            \/ pc' = "conf" /\ cur_select_champ_info_ # 0
<1> USE DEF apply, config
<1>1. CASE OnClickConfigChamp
  BY <1>1 DEF OnClickConfigChamp
<1>2. CASE SetChampionConf
  BY <1>2 DEF SetChampionConf
<1>3. CASE GetItemSets \/ PutItemSets \/ GetCurrentPage \/ DeletePage \/ PostPage
  BY <1>3 DEF GetItemSets, PutItemSets, GetCurrentPage, DeletePage, PostPage
<1> QED BY <1>1, <1>2, <1>3 DEF ApplyStep

LEMMA ClientStepKeeps ==
  ASSUME ClientStep
  PROVE  UNCHANGED AsideFromClient
BY DEF ClientStep, Launch, Exit, LogIn, ChangePhase, Pick

LEMMA PhaseStep == TypeOK /\ PhaseInv /\ [Next]_vars => PhaseInv'
<1> SUFFICES ASSUME TypeOK, PhaseInv, [Next]_vars PROVE PhaseInv'
  OBVIOUS
<1> USE DEF status
<1>1. CASE ClientStep
  BY <1>1, ClientStepKeeps DEF AsideFromClient, PhaseInv, Connected
<1>2. CASE ApplyStep
  BY <1>2, ApplyStepKeeps DEF PhaseInv, Connected
<1>3. CASE FindGameWindow \/ OnUnknown \/ OnClientInfoDone \/ OnClientInfo
  BY <1>3 DEF PhaseInv, Connected, Ready, FindGameWindow, OnUnknown, OnClientInfoDone,
              OnClientInfo
<1>4. CASE Login \/ GetCurSummonerInfo
  BY <1>4 DEF PhaseInv, Connected, Login, GetCurSummonerInfo
<1>5. CASE GetAllChampInfoMap \/ GetOPGGChampRankInfo
  BY <1>5 DEF PhaseInv, Connected, GetAllChampInfoMap, GetOPGGChampRankInfo
<1>6. CASE OnGameNone \/ OnGameInProgress \/ OnChampSelect
  BY <1>6 DEF PhaseInv, Connected, LobbyPhases, GamePhases, OnGameNone, OnGameInProgress,
              OnChampSelect
<1>7. CASE GetGameStatus
  BY <1>7 DEF PhaseInv, Connected, GetGameStatus, KnownPhases, LobbyPhases, GamePhases,
              IgnoredPhases
<1>8. CASE GetCurSelectChampionId \/ GetChampSelectInfo
  BY <1>8 DEF PhaseInv, Connected, GetCurSelectChampionId, GetChampSelectInfo
<1>9. CASE GetChampConf
  BY <1>9 DEF PhaseInv, Connected, GetChampConf
<1>10. CASE UIStep \/ UNCHANGED vars
  BY <1>10 DEF PhaseInv, Connected, UIStep, vars
<1> QED BY <1>1, <1>2, <1>3, <1>4, <1>5, <1>6, <1>7, <1>8, <1>9, <1>10
        DEF Next, Timer, Requests, ApplyStep

(* Only the requests made while Launching touch the data that is waited    *)
(* for; but operator[] adds champions, and OnUnknown drops the summoner.   *)
LEMMA LoadStep ==
  TypeOK /\ PhaseInv /\ LoadedWhenConnected /\ [Next]_vars => LoadedWhenConnected'
<1> SUFFICES ASSUME TypeOK, PhaseInv, LoadedWhenConnected, [Next]_vars,
                    Connected'
             PROVE  Loaded'
  BY DEF LoadedWhenConnected
<1> USE DEF status, login, champs
<1>1. CASE ClientStep
  BY <1>1, ClientStepKeeps DEF AsideFromClient, LoadedWhenConnected, Loaded, Connected
<1>2. CASE ApplyStep
  BY <1>2, ApplyStepKeeps DEF LoadedWhenConnected, Loaded, Connected
<1>3. CASE FindGameWindow \/ OnUnknown \/ OnClientInfo
  BY <1>3 DEF LoadedWhenConnected, Loaded, Connected, FindGameWindow, OnUnknown, OnClientInfo
<1>4. CASE OnClientInfoDone
  BY <1>4 DEF Loaded, OnClientInfoDone
<1>5. CASE Login \/ GetCurSummonerInfo \/ GetAllChampInfoMap \/ GetOPGGChampRankInfo
  BY <1>5 DEF PhaseInv, Connected, Login, GetCurSummonerInfo, GetAllChampInfoMap,
              GetOPGGChampRankInfo
<1>6. CASE OnGameNone \/ OnGameInProgress \/ OnChampSelect
  BY <1>6 DEF LoadedWhenConnected, Loaded, Connected, OnGameNone, OnGameInProgress,
              OnChampSelect
<1>7. CASE GetGameStatus
  BY <1>7 DEF PhaseInv, LoadedWhenConnected, Loaded, GetGameStatus
<1>8. ASSUME all_champ_info_map_ # Empty => all_champ_info_map_' # Empty,
             UNCHANGED <<cur_game_status_, summoner_id, ranked>>
      PROVE  Loaded'
  BY <1>8 DEF LoadedWhenConnected, Loaded, Connected
<1>9. CASE GetCurSelectChampionId \/ GetChampSelectInfo \/ GetChampConf
  <2>1. \/ UNCHANGED all_champ_info_map_
        \/ \E ids \in SUBSET Ids : all_champ_info_map_' = Insert(ids)
    BY <1>9 DEF TypeOK, GetCurSelectChampionId, GetChampSelectInfo, GetChampConf, Ids
  <2>2. all_champ_info_map_ # Empty => all_champ_info_map_' # Empty
    BY <2>1, InsertType DEF TypeOK
  <2>3. UNCHANGED <<cur_game_status_, summoner_id, ranked>>
    BY <1>9 DEF GetCurSelectChampionId, GetChampSelectInfo, GetChampConf
  <2> QED BY <1>8, <2>2, <2>3
<1>10. CASE UIStep \/ UNCHANGED vars
  BY <1>10 DEF LoadedWhenConnected, Loaded, Connected, UIStep, vars
<1> QED BY <1>1, <1>2, <1>3, <1>4, <1>5, <1>6, <1>7, <1>9, <1>10
        DEF Next, Timer, Requests, ApplyStep

(* operator[] never empties the champions, and the list, once asked for,   *)
(* has every champion.                                                     *)
LEMMA ChampionsStay ==
  ASSUME TypeOK, [Next]_vars, all_champ_info_map_ # Empty, pc = "champs" => Champs # {}
  PROVE  all_champ_info_map_' # Empty
<1> USE DEF status, login, champs, select
<1>1. CASE ClientStep
  BY <1>1, ClientStepKeeps DEF AsideFromClient
<1>2. CASE ApplyStep
  BY <1>2, ApplyStepKeeps
<1>3. CASE FindGameWindow \/ OnUnknown \/ OnClientInfoDone \/ OnClientInfo
  BY <1>3 DEF FindGameWindow, OnUnknown, OnClientInfoDone, OnClientInfo
<1>4. CASE Login \/ GetCurSummonerInfo
  BY <1>4 DEF Login, GetCurSummonerInfo
<1>5. CASE GetAllChampInfoMap
  <2>1. Champs # {}
    BY <1>5 DEF GetAllChampInfoMap
  <2>2. [c \in Champs |-> TRUE] # Empty
    BY <2>1, EmptyType
  <2> QED BY <1>5, <2>2 DEF GetAllChampInfoMap
<1>6. CASE OnGameNone \/ OnGameInProgress \/ OnChampSelect \/ GetGameStatus
  BY <1>6 DEF OnGameNone, OnGameInProgress, OnChampSelect, GetGameStatus
<1>7. CASE GetOPGGChampRankInfo \/ GetCurSelectChampionId \/ GetChampSelectInfo \/ GetChampConf
  <2>1. \/ UNCHANGED all_champ_info_map_
        \/ \E ids \in SUBSET Ids : all_champ_info_map_' = Insert(ids)
    BY <1>7, MergeInserts DEF TypeOK, GetCurSelectChampionId, GetChampSelectInfo,
                              GetChampConf, Ids
  <2> QED BY <2>1, InsertType DEF TypeOK
<1>8. CASE UIStep \/ UNCHANGED vars
  BY <1>8 DEF UIStep, vars
<1> QED BY <1>1, <1>2, <1>3, <1>4, <1>5, <1>6, <1>7, <1>8
        DEF Next, Timer, Requests, ApplyStep

LEMMA ChosenStep ==
  TypeOK /\ PhaseInv /\ LoadedWhenConnected /\ ChosenInv /\ [Next]_vars => ChosenInv'
<1> SUFFICES ASSUME TypeOK, PhaseInv, LoadedWhenConnected, ChosenInv, [Next]_vars
             PROVE  ChosenInv'
  OBVIOUS
<1> USE DEF select
<1>1. ASSUME UNCHANGED cur_select_champ_info_, pc' = "conf" => pc = "conf",
             pc' = "ranks" => pc = "ranks" \/ all_champ_info_map_' # Empty
      PROVE  ChosenInv'
  BY <1>1, ChampionsStay DEF TypeOK, ChosenInv
<1>2. CASE ClientStep
  BY <1>1, <1>2, ClientStepKeeps DEF AsideFromClient
<1>3. CASE ApplyStep
  <2>1. UNCHANGED <<cur_select_champ_info_, all_champ_info_map_>>
    BY <1>3, ApplyStepKeeps DEF champs
  <2>2. /\ pc' = "conf" => cur_select_champ_info_ # 0
        /\ pc' = "ranks" => all_champ_info_map_ # Empty
    BY <1>3, ApplyStepKeeps DEF ChosenInv
  <2> QED BY <2>1, <2>2 DEF ChosenInv
<1>4. CASE FindGameWindow \/ OnUnknown \/ OnClientInfoDone \/ OnClientInfo
  BY <1>1, <1>4 DEF FindGameWindow, OnUnknown, OnClientInfoDone, OnClientInfo
<1>5. CASE Login \/ GetCurSummonerInfo \/ GetOPGGChampRankInfo \/ GetAllChampInfoMap
  <2>1. /\ UNCHANGED cur_select_champ_info_ /\ pc' # "conf"
        /\ pc' = "ranks" => all_champ_info_map_' # Empty
    BY <1>5 DEF Login, GetCurSummonerInfo, GetOPGGChampRankInfo, GetAllChampInfoMap, login, champs
  <2> QED BY <1>1, <2>1
<1>6. CASE OnGameNone \/ OnGameInProgress \/ OnChampSelect \/ GetGameStatus
  BY <1>1, <1>6 DEF OnGameNone, OnGameInProgress, OnChampSelect, GetGameStatus
<1>7. CASE GetCurSelectChampionId
  <2>1. all_champ_info_map_ # Empty
    BY <1>7 DEF PhaseInv, LoadedWhenConnected, Loaded, GetCurSelectChampionId
  <2>2. \/ UNCHANGED all_champ_info_map_
        \/ \E ids \in SUBSET Ids : all_champ_info_map_' = Insert(ids)
    BY <1>7 DEF TypeOK, GetCurSelectChampionId, Ids
  <2>3. all_champ_info_map_' # Empty
    BY <2>1, <2>2, InsertType DEF TypeOK
  <2> QED BY <1>7, <2>3 DEF ChosenInv, GetCurSelectChampionId
<1>8. CASE GetChampSelectInfo \/ GetChampConf
  BY <1>1, <1>8 DEF GetChampSelectInfo, GetChampConf
<1>9. CASE UIStep \/ UNCHANGED vars
  BY <1>1, <1>9 DEF UIStep, vars
<1> QED BY <1>2, <1>3, <1>4, <1>5, <1>6, <1>7, <1>8, <1>9
        DEF Next, Timer, Requests, ApplyStep

LEMMA SentStep == TypeOK /\ SentInv /\ [Next]_vars => SentInv'
<1> SUFFICES ASSUME TypeOK, SentInv, [Next]_vars PROVE SentInv'
  OBVIOUS
<1> USE DEF status, login, select, shown
<1>1. ASSUME UNCHANGED <<ui_queue, shown, available_champ_info_map_,
                         cur_select_champ_info_>>,
             summoner_id' \in {summoner_id, 0}
      PROVE  SentInv'
  BY <1>1 DEF SentInv, ListIsCurrent, ChampIsCurrent
<1>2. CASE ClientStep
  BY <1>1, <1>2, ClientStepKeeps DEF AsideFromClient
<1>3. CASE ApplyStep
  BY <1>1, <1>3, ApplyStepKeeps
<1>4. CASE FindGameWindow \/ OnUnknown \/ OnClientInfoDone \/ OnClientInfo
  BY <1>1, <1>4 DEF FindGameWindow, OnUnknown, OnClientInfoDone, OnClientInfo
<1>5. CASE Login \/ GetOPGGChampRankInfo \/ GetAllChampInfoMap
  BY <1>1, <1>5 DEF Login, GetOPGGChampRankInfo, GetAllChampInfoMap
<1>6. CASE OnGameInProgress \/ OnChampSelect \/ GetGameStatus \/ GetChampConf
  BY <1>1, <1>6 DEF OnGameInProgress, OnChampSelect, GetGameStatus, GetChampConf
<1>7. CASE GetCurSummonerInfo
  <2>1. /\ ui_queue' = Append(ui_queue, [kind |-> "summoner", value |-> summoner_id'])
        /\ UNCHANGED <<select, shown>>
    BY <1>7 DEF GetCurSummonerInfo, PostUI
  <2>2. [kind |-> "summoner", value |-> summoner_id'] \in Messages
    BY <1>7, MessageType DEF TypeOK, GetCurSummonerInfo
  <2>3. WillShow(ui_queue', "summoner", shown_summoner, summoner_id')
    BY <2>1, <2>2, SentLast DEF TypeOK
  <2>4. WillShow(ui_queue', "list", shown_list, available_champ_info_map_)
    BY <2>1, <2>2, SentOther DEF TypeOK, SentInv, ListIsCurrent
  <2>5. cur_select_champ_info_ # 0 =>
          WillShow(ui_queue', "champ", shown_champ, cur_select_champ_info_)
    BY <2>1, <2>2, SentOther DEF TypeOK, SentInv, ChampIsCurrent
  <2> QED BY <2>1, <2>3, <2>4, <2>5 DEF SentInv, ListIsCurrent, ChampIsCurrent
<1>8. CASE GetCurSelectChampionId
  <2>1. UNCHANGED <<available_champ_info_map_, summoner_id, shown>>
    BY <1>8 DEF GetCurSelectChampionId
  <2>2. CASE UNCHANGED <<cur_select_champ_info_, ui_queue>>
    BY <1>1, <2>1, <2>2
  <2>3. CASE /\ ui_queue' = Append(ui_queue,
                                 [kind |-> "champ", value |-> cur_select_champ_info_'])
             /\ [kind |-> "champ", value |-> cur_select_champ_info_'] \in Messages
    <3>1. WillShow(ui_queue', "champ", shown_champ, cur_select_champ_info_')
      BY <2>3, SentLast DEF TypeOK
    <3>2. WillShow(ui_queue', "list", shown_list, available_champ_info_map_)
      BY <2>3, SentOther DEF TypeOK, SentInv, ListIsCurrent
    <3>3. summoner_id # 0 => WillShow(ui_queue', "summoner", shown_summoner, summoner_id)
      BY <2>3, SentOther DEF TypeOK, SentInv
    <3> QED BY <2>1, <3>1, <3>2, <3>3 DEF SentInv, ListIsCurrent, ChampIsCurrent
  <2>4. \/ UNCHANGED <<cur_select_champ_info_, ui_queue>>
        \/ PostUI("champ", cur_select_champ_info_')
    BY <1>8 DEF GetCurSelectChampionId
  <2>5. cur_select_champ_info_' \in Ids
    BY <1>8, StepType DEF TypeOK, Ids
  <2> QED BY <2>2, <2>3, <2>4, <2>5, MessageType DEF PostUI
<1>9. CASE OnGameNone \/ GetChampSelectInfo
  <2>1. UNCHANGED <<cur_select_champ_info_, summoner_id, shown>>
    BY <1>9 DEF OnGameNone, GetChampSelectInfo
  <2>2. CASE UNCHANGED <<available_champ_info_map_, ui_queue>>
    BY <1>1, <2>1, <2>2
  <2>3. CASE /\ ui_queue' = Append(ui_queue,
                                 [kind |-> "list", value |-> available_champ_info_map_'])
             /\ [kind |-> "list", value |-> available_champ_info_map_'] \in Messages
    <3>1. WillShow(ui_queue', "list", shown_list, available_champ_info_map_')
      BY <2>3, SentLast DEF TypeOK
    <3>2. cur_select_champ_info_ # 0 =>
            WillShow(ui_queue', "champ", shown_champ, cur_select_champ_info_)
      BY <2>3, SentOther DEF TypeOK, SentInv, ChampIsCurrent
    <3>3. summoner_id # 0 => WillShow(ui_queue', "summoner", shown_summoner, summoner_id)
      BY <2>3, SentOther DEF TypeOK, SentInv
    <3> QED BY <2>1, <3>1, <3>2, <3>3 DEF SentInv, ListIsCurrent, ChampIsCurrent
  <2>4. \/ UNCHANGED <<available_champ_info_map_, ui_queue>>
        \/ PostUI("list", available_champ_info_map_')
    BY <1>9 DEF OnGameNone, GetChampSelectInfo
  <2>5. available_champ_info_map_' \in ChampMap
    BY <1>9, StepType DEF TypeOK
  <2> QED BY <2>2, <2>3, <2>4, <2>5, MessageType DEF PostUI
<1>10. CASE UIStep
  <2> DEFINE m == Head(ui_queue)
  <2>1. /\ ui_queue # <<>> /\ ui_queue' = Tail(ui_queue)
        /\ UNCHANGED <<available_champ_info_map_, cur_select_champ_info_, summoner_id>>
    BY <1>10 DEF UIStep
  <2>2. IF m.kind = "list" THEN shown_list' = m.value ELSE shown_list' = shown_list
    BY <1>10 DEF UIStep
  <2>3. IF m.kind = "summoner" THEN shown_summoner' = m.value
        ELSE shown_summoner' = shown_summoner
    BY <1>10 DEF UIStep
  <2>4. IF m.kind = "champ"
        THEN shown_champ' = IF m.value = 0 THEN shown_champ ELSE m.value
        ELSE shown_champ' = shown_champ
    BY <1>10 DEF UIStep
  <2>5. WillShow(ui_queue', "list", shown_list', available_champ_info_map_)
    BY <2>1, <2>2, ShownSame, ShownOther DEF TypeOK, SentInv, ListIsCurrent
  <2>6. summoner_id # 0 => WillShow(ui_queue', "summoner", shown_summoner', summoner_id)
    BY <2>1, <2>3, ShownSame, ShownOther DEF TypeOK, SentInv
  <2>7. cur_select_champ_info_ # 0 =>
          WillShow(ui_queue', "champ", shown_champ', cur_select_champ_info_)
    BY <2>1, <2>4, ShownSame, ShownOther DEF TypeOK, SentInv, ChampIsCurrent
  <2> QED BY <2>1, <2>5, <2>6, <2>7 DEF SentInv, ListIsCurrent, ChampIsCurrent
<1>11. CASE UNCHANGED vars
  BY <1>1, <1>11 DEF vars
<1> QED BY <1>2, <1>3, <1>4, <1>5, <1>6, <1>7, <1>8, <1>9, <1>10, <1>11
        DEF Next, Timer, Requests, ApplyStep

LEMMA FailuresGrow ==
  ASSUME TypeOK,
         \/ Answered \/ Unanswered \/ OpggAnswered \/ OpggUnanswered \/ Fails
         \/ UNCHANGED failures,
         failures' = 0
  PROVE  failures = 0
BY BoundsAssumption
   DEF TypeOK, Answered, Unanswered, OpggAnswered, OpggUnanswered, Fails

LEMMA SeenStep ==
  TypeOK /\ PhaseInv /\ LoginInv /\ SeenInv /\ AvailableKeepsSeen /\ [Next]_vars =>
    SeenInv' /\ AvailableKeepsSeen'
<1> SUFFICES ASSUME TypeOK, PhaseInv, LoginInv, SeenInv, AvailableKeepsSeen, [Next]_vars
             PROVE  SeenInv' /\ AvailableKeepsSeen'
  OBVIOUS
<1> DEFINE Same == UNCHANGED <<session, phase, seen>>
<1> USE DEF client, status, login, select
<1>1. ASSUME Same, UNCHANGED <<port, cur_game_status_, available_champ_info_map_>>,
             failures' = 0 => failures = 0
      PROVE  SeenInv' /\ AvailableKeepsSeen'
  BY <1>1 DEF SeenInv, AvailableKeepsSeen, Reachable
<1>2. ASSUME Same, failures' = 0 => failures = 0,
             cur_game_status_ # "ChampSelect"
      PROVE  SeenInv' /\ AvailableKeepsSeen'
  BY <1>2 DEF SeenInv, AvailableKeepsSeen
<1>3. CASE ClientStep
  <2>1. UNCHANGED <<failures, port, cur_game_status_, available_champ_info_map_>>
    BY <1>3, ClientStepKeeps DEF AsideFromClient
  <2>2. CASE Launch \/ Exit
    BY <2>1, <2>2 DEF Launch, Exit, SeenInv, AvailableKeepsSeen
  <2>3. ASSUME NEW a \in Accounts, LogIn(a) PROVE SeenInv' /\ AvailableKeepsSeen'
    BY <1>1, <2>1, <2>3 DEF LogIn
  <2>4. ASSUME NEW p \in Phases, ChangePhase(p) PROVE SeenInv' /\ AvailableKeepsSeen'
    BY <2>1, <2>4 DEF ChangePhase, LoginInv, SeenInv, AvailableKeepsSeen
  <2>5. ASSUME NEW c \in Champs, NEW others \in Teams, Pick(c, others)
        PROVE  SeenInv' /\ AvailableKeepsSeen'
    BY <1>1, <2>1, <2>5 DEF Pick
  <2> QED BY <1>3, <2>2, <2>3, <2>4, <2>5 DEF ClientStep
<1>4. CASE OnClickConfigChamp \/ SetChampionConf
  BY <1>1, <1>4 DEF OnClickConfigChamp, SetChampionConf
<1>5. CASE GetItemSets \/ PutItemSets \/ GetCurrentPage \/ DeletePage \/ PostPage
  <2>1. failures' = 0 => failures = 0
    BY <1>5, FailuresGrow
       DEF GetItemSets, PutItemSets, GetCurrentPage, DeletePage, PostPage
  <2> QED BY <1>1, <1>5, <2>1
          DEF GetItemSets, PutItemSets, GetCurrentPage, DeletePage, PostPage
<1>6. CASE FindGameWindow \/ OnUnknown \/ OnClientInfoDone
  BY <1>2, <1>6 DEF FindGameWindow, OnUnknown, OnClientInfoDone
<1>7. CASE OnClientInfo
  <2>1. failures' = 0 => failures = 0
    BY <1>7, FailuresGrow DEF OnClientInfo
  <2> QED BY <1>2, <1>7, <2>1 DEF OnClientInfo
<1>8. CASE Login \/ GetCurSummonerInfo \/ GetAllChampInfoMap \/ GetOPGGChampRankInfo
  <2>1. failures' = 0 => failures = 0
    BY <1>8, FailuresGrow
       DEF Login, GetCurSummonerInfo, GetAllChampInfoMap, GetOPGGChampRankInfo
  <2> QED BY <1>1, <1>8, <2>1
          DEF Login, GetCurSummonerInfo, GetAllChampInfoMap, GetOPGGChampRankInfo
<1>9. CASE OnGameNone
  BY <1>2, <1>9 DEF OnGameNone, LobbyPhases
<1>10. CASE OnGameInProgress \/ OnChampSelect
  BY <1>1, <1>10 DEF OnGameInProgress, OnChampSelect
<1>11. CASE GetGameStatus
  <2>1. /\ UNCHANGED <<session, phase, seen, port, available_champ_info_map_>>
        /\ failures' = 0 => failures = 0
    BY <1>11, FailuresGrow DEF GetGameStatus
  <2>2. ASSUME failures' = 0, phase = "ChampSelect", seen # {}
        PROVE  Reachable /\ cur_game_status_' = "ChampSelect"
    <3>1. failures = 0 /\ Reachable
      BY <2>1, <2>2 DEF SeenInv
    <3>2. ~Unanswered
      BY <2>2, <3>1 DEF Unanswered, Fails
    <3> QED BY <1>11, <2>2, <3>1, <3>2 DEF GetGameStatus, KnownPhases
  <2> QED BY <2>1, <2>2 DEF SeenInv, AvailableKeepsSeen, Reachable
<1>12. CASE GetCurSelectChampionId
  <2>1. failures' = 0 => failures = 0
    BY <1>12, FailuresGrow DEF GetCurSelectChampionId
  <2> QED BY <1>1, <1>12, <2>1 DEF GetCurSelectChampionId
<1>13. CASE GetChampSelectInfo
  <2>1. /\ UNCHANGED <<session, phase, port, cur_game_status_>>
        /\ failures' = 0 => failures = 0
        /\ cur_game_status_ = "ChampSelect"
    BY <1>13, FailuresGrow DEF GetChampSelectInfo, PhaseInv
  <2>2. available_champ_info_map_ \in ChampMap
    BY DEF TypeOK
  <2>3. ASSUME NEW team \in SUBSET Ids, seen' = seen \cup (team \ {0}),
               available_champ_info_map_' = Available(team), Answered \/ team = {}
        PROVE  SeenInv' /\ AvailableKeepsSeen'
    <3>1. DOMAIN available_champ_info_map_' = DOMAIN available_champ_info_map_ \cup team
      BY <2>2, <2>3, AvailableType
    <3>2. AvailableKeepsSeen'
      BY <2>1, <2>3, <3>1 DEF AvailableKeepsSeen
    <3>3. SeenInv'
      BY <2>1, <2>3 DEF SeenInv, Reachable, Answered
    <3> QED BY <3>2, <3>3
  <2>4. \E team \in SUBSET Ids :
          /\ seen' = seen \cup (team \ {0})
          /\ available_champ_info_map_' = Available(team)
          /\ Answered \/ team = {}
    BY <1>13 DEF TypeOK, GetChampSelectInfo, Ids
  <2> QED BY <2>3, <2>4
<1>14. CASE GetChampConf
  <2>1. failures' = 0 => failures = 0
    BY <1>14, FailuresGrow DEF GetChampConf
  <2> QED BY <1>1, <1>14, <2>1 DEF GetChampConf
<1>15. CASE UIStep \/ UNCHANGED vars
  BY <1>1, <1>15 DEF UIStep, vars
<1> QED BY <1>3, <1>4, <1>5, <1>6, <1>7, <1>8, <1>9, <1>10, <1>11, <1>12, <1>13, <1>14,
           <1>15 DEF Next, Timer, Requests

LEMMA LoginStep ==
  TypeOK /\ PhaseInv /\ LoadedWhenConnected /\ ChosenInv /\ LoginInv /\ [Next]_vars =>
    LoginInv'
<1> SUFFICES ASSUME TypeOK, PhaseInv, LoadedWhenConnected, ChosenInv, LoginInv, [Next]_vars
             PROVE  LoginInv'
  OBVIOUS
<1> DEFINE Same == UNCHANGED <<session, account, sessions>>
<1> USE DEF client, login, champs
<1>1. ASSUME Same, UNCHANGED login_id, summoner_id' \in {summoner_id, 0},
             all_champ_info_map_ = Empty => all_champ_info_map_' = Empty
      PROVE  LoginInv'
  BY <1>1 DEF LoginInv
<1>2. sessions \in Nat
  BY BoundsAssumption DEF TypeOK
<1>3. CASE ClientStep
  <2>1. UNCHANGED <<login_id, summoner_id, all_champ_info_map_>>
    BY <1>3, ClientStepKeeps DEF AsideFromClient
  <2>2. CASE Launch
    BY <1>2, <2>1, <2>2 DEF Launch, LoginInv
  <2>3. CASE Exit
    BY <2>1, <2>3 DEF Exit, LoginInv
  <2>4. ASSUME NEW a \in Accounts, LogIn(a) PROVE LoginInv'
    BY <2>1, <2>4 DEF LogIn, LoginInv
  <2>5. ASSUME NEW p \in Phases, ChangePhase(p) PROVE LoginInv'
    BY <1>1, <2>1, <2>5 DEF ChangePhase
  <2>6. ASSUME NEW c \in Champs, NEW others \in Teams, Pick(c, others) PROVE LoginInv'
    BY <1>1, <2>1, <2>6 DEF Pick
  <2> QED BY <1>3, <2>2, <2>3, <2>4, <2>5, <2>6 DEF ClientStep
<1>4. CASE ApplyStep
  BY <1>1, <1>4, ApplyStepKeeps
<1>5. CASE FindGameWindow \/ OnUnknown \/ OnClientInfoDone \/ OnClientInfo
  BY <1>1, <1>5 DEF FindGameWindow, OnUnknown, OnClientInfoDone, OnClientInfo
<1>6. CASE Login
  <2>1. UNCHANGED <<session, account, sessions, summoner_id, all_champ_info_map_>>
    BY <1>6 DEF Login
  <2>2. \/ session # 0 /\ login_id' = account
        \/ UNCHANGED login_id
    BY <1>6 DEF Login, Answered, Reachable
  <2> QED BY <1>1, <1>2, <2>1, <2>2 DEF LoginInv
<1>7. CASE GetCurSummonerInfo
  <2>1. UNCHANGED <<session, account, sessions, login_id, all_champ_info_map_>>
    BY <1>7 DEF GetCurSummonerInfo
  <2>2. \/ session # 0 /\ summoner_id' = account
        \/ summoner_id' = 0
    BY <1>7 DEF GetCurSummonerInfo, Answered, Reachable
  <2> QED BY <1>1, <2>1, <2>2 DEF LoginInv
<1>8. CASE GetAllChampInfoMap
  <2>1. UNCHANGED <<session, account, sessions, login_id, summoner_id>>
    BY <1>8 DEF GetAllChampInfoMap
  <2>2. UNCHANGED all_champ_info_map_ \/ (account # 0 /\ login_id = account)
    BY <1>8 DEF GetAllChampInfoMap
  <2> QED BY <2>1, <2>2 DEF LoginInv
<1>9. CASE GetOPGGChampRankInfo \/ GetGameStatus
  <2>1. pc = "ranks" => all_champ_info_map_ # Empty
    BY DEF ChosenInv
  <2> QED BY <1>1, <1>9, <2>1 DEF GetOPGGChampRankInfo, GetGameStatus
<1>10. CASE OnGameNone \/ OnGameInProgress \/ OnChampSelect
  BY <1>1, <1>10 DEF OnGameNone, OnGameInProgress, OnChampSelect
<1>11. CASE GetCurSelectChampionId \/ GetChampSelectInfo \/ GetChampConf
  <2>1. all_champ_info_map_ # Empty
    BY <1>11 DEF PhaseInv, LoadedWhenConnected, Loaded, ChosenInv, GetCurSelectChampionId,
                 GetChampSelectInfo, GetChampConf
  <2> QED BY <1>1, <1>11, <2>1
          DEF GetCurSelectChampionId, GetChampSelectInfo, GetChampConf
<1>12. CASE UIStep \/ UNCHANGED vars
  BY <1>1, <1>12 DEF UIStep, vars
<1> QED BY <1>3, <1>4, <1>5, <1>6, <1>7, <1>8, <1>9, <1>10, <1>11, <1>12
        DEF Next, Timer, Requests, ApplyStep

-----------------------------------------------------------------------------
(* The apply button *)

(* While no request fails in the first session, an apply speaks to the     *)
(* client that is there, as the summoner who is logged in.                 *)
LEMMA FirstSession ==
  ASSUME TypeOK, LoginInv, ChosenInv, ApplyInv, Applying,
         failures = 0, session = sessions, sessions <= 1
  PROVE  Reachable /\ account \in Accounts /\ login_id = account
<1>1. all_champ_info_map_ # Empty
  BY DEF ApplyInv, ChosenInv
<1>2. Reachable /\ login_id # 0
  BY <1>1 DEF ApplyInv, LoginInv
<1>3. sessions = 1 /\ session # 0
  BY <1>2, BoundsAssumption DEF Reachable, TypeOK
<1> QED BY <1>2, <1>3 DEF LoginInv, TypeOK

LEMMA ApplyInvStep ==
  TypeOK /\ PhaseInv /\ LoadedWhenConnected /\ ChosenInv /\ LoginInv /\ ApplyInv
    /\ [Next]_vars => ApplyInv'
<1> SUFFICES ASSUME TypeOK, PhaseInv, LoadedWhenConnected, ChosenInv, LoginInv, ApplyInv,
                    [Next]_vars
             PROVE  ApplyInv'
  OBVIOUS
<1> DEFINE First   == failures = 0 /\ session = sessions /\ sessions <= 1
           Setting == {"get_page", "delete_page", "post_page"}
           Others  == {"conf", "get_items", "put_items", "crashed"} \cup Setting
           Same    == UNCHANGED <<session, sessions, account, config, cur_champ_conf_>>
           Counted == failures' = 0 => failures = 0
           Unlisted == all_champ_info_map_ = Empty => all_champ_info_map_' = Empty
<1> USE DEF client, config, status, login, champs, select, apply
<1>1. ASSUME Same, Counted, Unlisted, UNCHANGED <<port, cur_select_champ_info_>>,
             pc' = pc \/ (pc \notin Others /\ pc' \notin Others)
      PROVE  ApplyInv'
  BY <1>1 DEF ApplyInv, Applying, Agree, Reachable
<1>2. ASSUME Applying, First PROVE Reachable /\ account \in Accounts /\ login_id = account
  BY <1>2, FirstSession
<1>3. CASE ClientStep
  <2>1. UNCHANGED <<config, failures, pc, status, login, champs, cur_champ_conf_,
                    cur_select_champ_info_>>
    BY <1>3, ClientStepKeeps DEF AsideFromClient
  <2>2. CASE Launch
    <3>1. ASSUME First' PROVE First /\ sessions = 0
      BY <2>1, <2>2, <3>1, BoundsAssumption DEF Launch, TypeOK
    <3>2. ASSUME First' PROVE ~Applying /\ all_champ_info_map_ = Empty /\ pc \notin Setting
      <4>1. all_champ_info_map_ = Empty
        BY <3>1, <3>2 DEF LoginInv
      <4> QED BY <4>1 DEF ApplyInv, ChosenInv, Applying
    <3> QED BY <2>1, <2>2, <3>1, <3>2 DEF ApplyInv, Applying, Agree
  <2>3. CASE Exit
    <3>1. ASSUME First' PROVE FALSE
      BY <2>1, <2>3, <3>1, BoundsAssumption DEF Exit, LoginInv, TypeOK
    <3> QED BY <2>1, <3>1 DEF ApplyInv, Applying
  <2>4. ASSUME NEW a \in Accounts, LogIn(a) PROVE ApplyInv'
    <3>1. First => ~Applying
      BY <1>2, <2>4, AccountsAssumption DEF LogIn
    <3> QED BY <2>1, <2>4, <3>1 DEF LogIn, ApplyInv, Applying, Agree, Reachable
  <2>5. ASSUME NEW p \in Phases, ChangePhase(p) PROVE ApplyInv'
    BY <1>1, <2>1, <2>5 DEF ChangePhase
  <2>6. ASSUME NEW c \in Champs, NEW others \in Teams, Pick(c, others) PROVE ApplyInv'
    BY <1>1, <2>1, <2>6 DEF Pick
  <2> QED BY <1>3, <2>2, <2>3, <2>4, <2>5, <2>6 DEF ClientStep
<1>4. CASE OnClickConfigChamp
  BY <1>1, <1>4 DEF OnClickConfigChamp
<1>5. CASE SetChampionConf
  BY <1>5 DEF SetChampionConf, ApplyInv, Applying, Agree, Reachable
<1>6. CASE FindGameWindow \/ OnUnknown \/ OnClientInfoDone
  BY <1>1, <1>6 DEF FindGameWindow, OnUnknown, OnClientInfoDone
<1>7. CASE OnClientInfo
  <2>1. /\ Same /\ UNCHANGED <<all_champ_info_map_, cur_select_champ_info_>>
        /\ pc = "idle" /\ pc' = "login"
        /\ session # 0
        /\ Counted
    BY <1>7, FailuresGrow DEF OnClientInfo, Ready
  <2>2. failures' = 0 => port' = session
    BY <1>7, BoundsAssumption DEF OnClientInfo, Fails, TypeOK
  <2> QED BY <2>1, <2>2 DEF ApplyInv, Applying, Agree, Reachable
<1>8. CASE Login \/ GetCurSummonerInfo \/ GetOPGGChampRankInfo
  <2>1. Counted
    BY <1>8, FailuresGrow DEF Login, GetCurSummonerInfo, GetOPGGChampRankInfo
  <2>2. pc = "ranks" => all_champ_info_map_ # Empty
    BY DEF ChosenInv
  <2> QED BY <1>1, <1>8, <2>1, <2>2 DEF Login, GetCurSummonerInfo, GetOPGGChampRankInfo
<1>9. CASE GetAllChampInfoMap
  <2>1. /\ Same /\ UNCHANGED <<port, cur_select_champ_info_>>
        /\ pc = "champs" /\ pc' \in {"ranks", "idle"}
        /\ Counted
    BY <1>9, FailuresGrow DEF GetAllChampInfoMap
  <2>2. Unlisted \/ Reachable
    BY <1>9 DEF GetAllChampInfoMap, Answered
  <2> QED BY <2>1, <2>2 DEF ApplyInv, Applying, Agree, Reachable
<1>10. CASE OnGameNone \/ OnGameInProgress \/ OnChampSelect
  BY <1>1, <1>10 DEF OnGameNone, OnGameInProgress, OnChampSelect, Ready
<1>11. CASE GetGameStatus
  <2>1. Counted
    BY <1>11, FailuresGrow DEF GetGameStatus
  <2> QED BY <1>1, <1>11, <2>1 DEF GetGameStatus
<1>12. CASE GetCurSelectChampionId \/ GetChampSelectInfo
  <2>1. /\ Same /\ UNCHANGED port
        /\ pc \in {"champ", "team"} /\ pc' \notin Others
        /\ Counted
    BY <1>12, FailuresGrow DEF GetCurSelectChampionId, GetChampSelectInfo
  <2>2. all_champ_info_map_ # Empty
    BY <2>1 DEF PhaseInv, LoadedWhenConnected, Loaded
  <2> QED BY <2>1, <2>2 DEF ApplyInv, Applying, Agree, Reachable
<1>13. CASE GetChampConf
  <2>1. /\ UNCHANGED <<session, sessions, account, config, port, cur_select_champ_info_>>
        /\ pc = "conf" /\ pc' = "get_items"
        /\ Counted
    BY <1>13, FailuresGrow DEF GetChampConf
  <2>2. all_champ_info_map_ # Empty
    BY <2>1 DEF ChosenInv
  <2> QED BY <2>1, <2>2 DEF ApplyInv, Applying, Agree, Reachable
<1>14. CASE GetItemSets \/ GetCurrentPage
  <2>1. /\ Same /\ UNCHANGED <<port, all_champ_info_map_, cur_select_champ_info_>>
        /\ Applying /\ Counted
    BY <1>14, FailuresGrow DEF GetItemSets, GetCurrentPage, Applying
  <2>2. failures' = 0 /\ First => ~Unanswered
    BY <1>2, <2>1, BoundsAssumption DEF Unanswered, Fails, TypeOK
  <2>3. CASE GetItemSets
    BY <2>1, <2>2, <2>3 DEF GetItemSets, ApplyInv, Applying, Agree, Reachable
  <2>4. CASE GetCurrentPage
    BY <2>1, <2>2, <2>4 DEF GetCurrentPage, ApplyInv, Applying, Agree, Reachable
  <2> QED BY <1>14, <2>3, <2>4
<1>15. CASE PutItemSets
  <2>1. /\ UNCHANGED <<session, sessions, account, port, rune_page, cur_champ_conf_,
                       all_champ_info_map_, cur_select_champ_info_>>
        /\ pc = "put_items" /\ pc' = "get_page" /\ Applying /\ Counted
    BY <1>15, FailuresGrow DEF PutItemSets, Applying
  <2>2. ASSUME failures' = 0, First
        PROVE  /\ account \in Accounts
               /\ item_set' = [item_set EXCEPT ![account] = cur_champ_conf_.champ]
    <3>1. ~Unanswered
      BY <1>2, <2>1, <2>2, BoundsAssumption DEF Unanswered, Fails, TypeOK
    <3>2. account \in Accounts /\ account # 0 /\ login_id = account
      BY <1>2, <2>1, <2>2, AccountsAssumption
    <3> QED BY <1>15, <3>1, <3>2 DEF PutItemSets
  <2>3. First' => First /\ failures' = 0
    BY <2>1
  <2>4. ASSUME First'
        PROVE  Agree(Accounts \ {account})' /\ item_set'[account] = cur_champ_conf_.champ
    BY <2>1, <2>2, <2>3, <2>4 DEF ApplyInv, Agree, TypeOK
  <2> QED BY <2>1, <2>3, <2>4 DEF ApplyInv, Applying, Reachable
<1>16. CASE DeletePage \/ PostPage
  <2>1. /\ UNCHANGED <<session, sessions, account, port, item_set, cur_champ_conf_,
                       all_champ_info_map_, cur_select_champ_info_>>
        /\ Applying /\ Counted
    BY <1>16, FailuresGrow DEF DeletePage, PostPage, Applying
  <2>2. failures' = 0 /\ First => ~Unanswered /\ account \in Accounts /\ account # 0
    BY <1>2, <2>1, BoundsAssumption, AccountsAssumption DEF Unanswered, Fails, TypeOK
  <2>3. CASE DeletePage
    BY <2>1, <2>2, <2>3 DEF DeletePage, ApplyInv, Applying, Agree, Reachable
  <2>4. CASE PostPage
    BY <2>1, <2>2, <2>4 DEF PostPage, ApplyInv, Applying, Agree, Reachable
  <2> QED BY <1>16, <2>3, <2>4
<1>17. CASE UIStep \/ UNCHANGED vars
  BY <1>1, <1>17 DEF UIStep, vars
<1> QED BY <1>3, <1>4, <1>5, <1>6, <1>7, <1>8, <1>9, <1>10, <1>11, <1>12, <1>13, <1>14,
           <1>15, <1>16, <1>17 DEF Next, Timer, Requests

-----------------------------------------------------------------------------
(* The theorems *)

LEMMA InitInv == Init => IInv
<1> SUFFICES ASSUME Init PROVE IInv
  OBVIOUS
<1>1. WillShow(<<>>, "list", Empty, Empty) /\ WillShow(<<>>, "summoner", 0, 0)
  BY DEF WillShow
<1>2. PhaseInv /\ LoadedWhenConnected
  BY DEF Init, PhaseInv, LoadedWhenConnected, Connected
<1>3. SentInv
  BY <1>1 DEF Init, SentInv, ListIsCurrent, ChampIsCurrent
<1>4. ChosenInv /\ SeenInv /\ AvailableKeepsSeen /\ LoginInv
  BY DEF Init, ChosenInv, SeenInv, AvailableKeepsSeen, LoginInv
<1>5. ApplyInv
  BY DEF Init, ApplyInv, Applying, Agree
<1> QED BY <1>2, <1>3, <1>4, <1>5, InitType DEF IInv

LEMMA StepInv == IInv /\ [Next]_vars => IInv'
BY StepType, PhaseStep, LoadStep, SentStep, ChosenStep, SeenStep, LoginStep,
   ApplyInvStep DEF IInv

(* Every field of LOLGame and of the window keeps its type: no handler,    *)
(* whatever the requests answer and whenever the client exits, stores      *)
(* anything but an id it was given, 0 for none.                            *)
THEOREM TypeCorrect == Spec => []TypeOK
<1>1. TypeOK /\ [Next]_vars => TypeOK'
  BY StepType
<1> QED BY <1>1, InitType, PTL DEF Spec

(* The strengthened invariant that the theorems below follow from. *)
THEOREM Inductive == Spec => []IInv
BY InitInv, StepInv, PTL DEF Spec

(* OnChampSelect, OnGameNone and OnGameInProgress run with the summoner,   *)
(* the champions and the ranking loaded, whatever failed or restarted      *)
(* before.                                                                 *)
THEOREM LoadedCorrect == Spec => []LoadedWhenConnected
<1>1. IInv => LoadedWhenConnected
  BY DEF IInv
<1> QED BY <1>1, Inductive, PTL

(* The list the window shows, once its posted tasks have run, is           *)
(* available_champ_info_map_: no change of OnChampSelect's or OnGameNone's *)
(* is forgotten or overtaken.                                              *)
THEOREM ListCorrect == Spec => []ListIsCurrent
<1>1. IInv => ListIsCurrent
  BY DEF IInv, SentInv
<1> QED BY <1>1, Inductive, PTL

(* The champion OnMyChampChanged stored, the one the apply button acts on, *)
(* is the one the window shows or is about to show.                        *)
THEOREM ChampCorrect == Spec => []ChampIsCurrent
<1>1. IInv => ChampIsCurrent
  BY DEF IInv, SentInv
<1> QED BY <1>1, Inductive, PTL

(* Once OnClientInfo is done, the window shows cur_summoner_info_ or is    *)
(* about to, through failed requests and OnUnknown's reset.                *)
THEOREM SummonerCorrect == Spec => []SummonerIsCurrent
<1>1. IInv => SummonerIsCurrent
  BY DEF IInv, LoadedWhenConnected, Loaded, SentInv, SummonerIsCurrent
<1> QED BY <1>1, Inductive, PTL

(* While no request fails, OnChampSelect's list keeps every champion it    *)
(* has seen on the team in the present champion select.                    *)
THEOREM SeenCorrect == Spec => []AvailableKeepsSeen
<1>1. IInv => AvailableKeepsSeen
  BY DEF IInv
<1> QED BY <1>1, Inductive, PTL

(* In the client's first session login() and GetCurSummonerInfo() agree    *)
(* once the program is connected, so that SetChampionItem addresses the    *)
(* summoner shown.                                                         *)
THEOREM LoginCorrect == Spec => []LoginIsCurrent
<1>1. IInv => LoginIsCurrent
  BY DEF IInv, LoadedWhenConnected, Loaded, LoginInv, LoginIsCurrent
<1> QED BY <1>1, Inductive, PTL

(* If no request fails and the client is not restarted, the apply button   *)
(* leaves the item set and the rune page of every summoner for the same    *)
(* champion: SetChampionItem and SetChampionPerk act together or not at    *)
(* all, whoever logs in and whatever is picked between their requests.     *)
THEOREM AppliedCorrect == Spec => []AppliedTogether
<1>1. IInv => AppliedTogether
  <2> SUFFICES ASSUME IInv, failures = 0, session = 1, ~Applying, pc # "crashed"
               PROVE  Agree(Accounts)
    BY DEF AppliedTogether
  <2>1. session = sessions /\ sessions <= 1
    BY DEF IInv, LoginInv
  <2> QED BY <2>1 DEF IInv, ApplyInv, Applying
<1> QED BY <1>1, Inductive, PTL
=============================================================================
