--------------------------- MODULE AIProvidersProofs ---------------------------
(***************************************************************************)
(* Theorems about AIProviders, for any number of threads, providers and    *)
(* models, and whatever the licence checks answer.                         *)
(***************************************************************************)
EXTENDS AIProviders, FiniteSetTheorems, SequenceTheorems, TLAPS

\* A create that the free tier lets through has found its thread without a provider,
\* and nobody else gives it one.
WriterOwnsNone ==
    \A t \in Thread :
        pc[t] \in {"unset", "lock", "insert"} /\ ~licensed[t] => owns[t] = {}

\* Deleted providers stay deleted, and a chat's choice is made among the others.
ChoiceLive ==
    \A t \in Thread :
        /\ gone[t] \subseteq Provider \ Active
        /\ pc[t] = "call" => request[t].op = "chat"
        /\ pc[t] \in {"validate", "count", "clip", "call"} /\ request[t].op = "chat" =>
               request[t].id \notin gone[t]

\* What the statements of a request rely on.
RequestOK ==
    \A t \in Thread :
        /\ request[t].op = "create" => request[t].kind \in Kind
        /\ pc[t] \in {"recheck", "recount", "unset", "lock", "insert"} => request[t].op = "create"
        /\ pc[t] = "clip" => request[t].op = "chat"
        /\ pc[t] = "delete" => request[t].id \in Provider
        /\ pc[t] \in {"choose", "fallback"} => request[t].op # "create"
        /\ pc[t] \in {"choose", "fallback"} => request[t].kind.model \in Override \union {"none"}

IInv == TypeOK /\ RequestOK /\ OneFreeEach /\ WriterOwnsNone /\ ChoiceLive
-----------------------------------------------------------------------------
LEMMA NoProviderActive ==
    ASSUME TypeOK, ~TooMany
    PROVE  Active = {}
  <1>1. IsFiniteSet(Active)
    <2>1. Provider = 1..Len(providers) /\ Len(providers) \in Nat
      BY LenProperties DEF TypeOK, Provider
    <2>2. IsFiniteSet(Provider) /\ Active \subseteq Provider
      BY <2>1, FS_Interval DEF Active
    <2> QED BY <2>2, FS_Subset
  <1>2. Cardinality(Active) \in Nat /\ ~(Cardinality(Active) >= 1)
    BY <1>1, FS_CardinalityType DEF TooMany, FREE_TIER_MAX_ENDPOINTS
  <1> QED BY <1>1, <1>2, FS_EmptySet

\* The statements that change no provider: what they have to say for themselves is
\* where the handler goes, and with which answer of the licence.
LEMMA MoveStep ==
    ASSUME IInv, NEW t \in Thread, NEW place \in Places, NEW yes \in BOOLEAN,
           Move(t, place, yes), UNCHANGED table,
           matched' \in [Thread -> SUBSET Provider], locked' \in [Thread -> SUBSET Provider],
           place \notin {"choose", "validate"},
           place = "delete" => request[t].id \in Provider,
           place = "fallback" => pc[t] = "choose",
           place \in {"recheck", "recount", "unset", "lock", "insert"} => request[t].op = "create",
           place \in {"clip", "call"} => request[t].op = "chat",
           place \in {"count", "clip", "call"} => pc[t] \in {"validate", "count", "clip"},
           place \in {"unset", "lock", "insert"} /\ ~yes => owns[t] = {}
    PROVE  IInv'
  <1>1. /\ providers' = providers /\ owns' = owns
        /\ Provider' = Provider /\ Active' = Active /\ Requests' = Requests
    BY DEF table, Provider, Active, Requests
  <1>2. NoRequest \in Requests
    BY DEF NoRequest, Requests, Kinds, NoKind
  <1>4. /\ pc' = [pc EXCEPT ![t] = place]
        /\ licensed' = [licensed EXCEPT ![t] = yes /\ place # "idle"]
        /\ place # "idle" => request' = request /\ gone' = gone
        /\ place = "idle" => /\ request' = [request EXCEPT ![t] = NoRequest]
                             /\ gone' = [gone EXCEPT ![t] = {}]
    BY DEF Move
  <1>3. TypeOK'
    <2>1. pc' \in [Thread -> Places] /\ licensed' \in [Thread -> BOOLEAN]
      BY <1>4 DEF IInv, TypeOK
    <2>2. /\ request' \in [Thread -> Requests]
          /\ gone' \in [Thread -> SUBSET Provider]
      BY <1>2, <1>4 DEF IInv, TypeOK
    <2> QED BY <1>1, <2>1, <2>2 DEF IInv, TypeOK
  <1>5. NoRequest.op = "none"
    BY DEF NoRequest
  <1>6. RequestOK'
    BY <1>1, <1>4, <1>5 DEF IInv, TypeOK, RequestOK
  <1>7. OneFreeEach'
    BY <1>1 DEF IInv, OneFreeEach
  <1>8. WriterOwnsNone'
    BY <1>1, <1>4 DEF IInv, TypeOK, WriterOwnsNone
  <1>9. ChoiceLive'
    BY <1>1, <1>4, <1>5 DEF IInv, TypeOK, ChoiceLive, RequestOK
  <1> QED BY <1>3, <1>6, <1>7, <1>8, <1>9 DEF IInv
-----------------------------------------------------------------------------
(* The steps that only move *)

LEMMA CheckLicenseStep ==
    ASSUME IInv, NEW t \in Thread, NEW yes \in BOOLEAN, CheckLicense(t, yes)
    PROVE  IInv'
  <1>1. matched' \in [Thread -> SUBSET Provider] /\ locked' \in [Thread -> SUBSET Provider]
    BY DEF CheckLicense, rows, IInv, TypeOK
  <1>2. UNCHANGED table
    BY DEF CheckLicense
  <1>3. CASE pc[t] = "validate" /\ yes
    <2>1. Move(t, Validated(t), FALSE)
      BY <1>3 DEF CheckLicense
    <2>2. \/ Move(t, "recheck", FALSE) /\ request[t].op = "create"
          \/ Move(t, "clip", FALSE) /\ request[t].op = "chat"
          \/ Move(t, "idle", FALSE)
      BY <2>1 DEF Validated
    <2> QED BY <1>1, <1>2, <1>3, <2>2, MoveStep DEF Places
  <1>4. CASE pc[t] = "validate" /\ ~yes
    <2>1. Refusal(t) \in {"count", "refused"}
      BY DEF Refusal
    <2>2. Move(t, Refusal(t), FALSE)
      BY <1>4 DEF CheckLicense
    <2> QED BY <1>1, <1>2, <1>4, <2>1, <2>2, MoveStep DEF Places
  <1>5. CASE pc[t] = "recheck" /\ yes
    <2>1. Writes(t) \in {"unset", "insert"} /\ request[t].op = "create"
      BY <1>5 DEF Writes, IInv, RequestOK
    <2>2. Move(t, Writes(t), TRUE)
      BY <1>5 DEF CheckLicense
    <2> QED BY <1>1, <1>2, <1>5, <2>1, <2>2, MoveStep DEF Places
  <1>6. CASE pc[t] = "recheck" /\ ~yes
    <2>1. Move(t, "recount", FALSE) /\ request[t].op = "create"
      BY <1>6 DEF CheckLicense, IInv, RequestOK
    <2> QED BY <1>1, <1>2, <1>6, <2>1, MoveStep DEF Places
  <1>7. CASE pc[t] = "clip"
    <2>1. Move(t, "call", FALSE) /\ request[t].op = "chat"
      BY <1>7 DEF CheckLicense, IInv, RequestOK
    <2> QED BY <1>1, <1>2, <1>7, <2>1, MoveStep DEF Places
  <1>8. CASE pc[t] = "gate"
    <2>1. \E place \in {"idle", "refused"} : Move(t, place, FALSE)
      BY <1>8 DEF CheckLicense
    <2> QED BY <1>1, <1>2, <1>8, <2>1, MoveStep DEF Places
  <1> QED BY <1>3, <1>4, <1>5, <1>6, <1>7, <1>8 DEF CheckLicense

LEMMA CountStep ==
    ASSUME IInv, NEW t \in Thread, CountProviders(t) \/ CountAgain(t)
    PROVE  IInv'
  <1>1. /\ matched' \in [Thread -> SUBSET Provider] /\ locked' \in [Thread -> SUBSET Provider]
        /\ UNCHANGED table /\ licensed[t] \in BOOLEAN
    BY DEF CountProviders, CountAgain, rows, IInv, TypeOK
  <1>2. CASE CountProviders(t)
    <2>1. Move(t, "refused", licensed[t]) \/ Move(t, Validated(t), licensed[t])
      BY <1>2 DEF CountProviders, Goto
    <2>2. \/ Move(t, "recheck", licensed[t]) /\ request[t].op = "create"
          \/ Move(t, "clip", licensed[t]) /\ request[t].op = "chat"
          \/ Move(t, "idle", licensed[t])
          \/ Move(t, "refused", licensed[t])
      BY <2>1 DEF Validated
    <2>3. pc[t] = "count"
      BY <1>2 DEF CountProviders
    <2> QED BY <1>1, <2>2, <2>3, MoveStep DEF Places
  <1>3. CASE CountAgain(t) /\ TooMany
    <2>1. Move(t, "refused", licensed[t])
      BY <1>3 DEF CountAgain, Goto
    <2> QED BY <1>1, <2>1, MoveStep DEF Places
  <1>4. CASE CountAgain(t) /\ ~TooMany
    <2>1. Writes(t) \in {"unset", "insert"} /\ request[t].op = "create" /\ pc[t] = "recount"
      BY <1>4 DEF CountAgain, Writes, IInv, RequestOK
    <2>2. Move(t, Writes(t), licensed[t])
      BY <1>4 DEF CountAgain, Goto
    <2>3. owns[t] = {}
      BY <1>4, NoProviderActive DEF IInv, TypeOK
    <2> QED BY <1>1, <2>1, <2>2, <2>3, MoveStep DEF Places
  <1> QED BY <1>2, <1>3, <1>4

LEMMA OtherMoves ==
    ASSUME IInv, NEW t \in Thread,
           Answer(t) \/ Fail(t) \/ NoDefault(t) \/ NotFound(t) \/ NoApiKey(t) \/ FindProvider(t)
    PROVE  IInv'
  <1>1. /\ matched' \in [Thread -> SUBSET Provider] /\ locked' \in [Thread -> SUBSET Provider]
        /\ UNCHANGED table /\ licensed[t] \in BOOLEAN
    BY DEF Answer, Fail, NoDefault, NotFound, NoApiKey, FindProvider, rows, IInv, TypeOK
  <1>2. \/ Move(t, "idle", licensed[t])
        \/ Move(t, "fallback", licensed[t]) /\ pc[t] = "choose"
        \/ Move(t, "delete", licensed[t]) /\ request[t].id \in Provider
    BY DEF Answer, Fail, NoDefault, NotFound, NoApiKey, FindProvider, Goto
  <1> QED BY <1>1, <1>2, MoveStep DEF Places

LEMMA DefaultsStep ==
    ASSUME IInv, NEW t \in Thread, MatchDefaults(t) \/ UpdateDefaults(t)
    PROVE  IInv'
  <1>1. /\ matched' \in [Thread -> SUBSET Provider] /\ locked' \in [Thread -> SUBSET Provider]
        /\ UNCHANGED table /\ licensed[t] \in BOOLEAN
    BY DEF MatchDefaults, UpdateDefaults, IInv, TypeOK
  <1>2. /\ request[t].op = "create"
        /\ ~licensed[t] => owns[t] = {}
    BY DEF MatchDefaults, UpdateDefaults, IInv, RequestOK, WriterOwnsNone
  <1>3. Move(t, "lock", licensed[t]) \/ Move(t, "insert", licensed[t])
    BY DEF MatchDefaults, UpdateDefaults, Goto
  <1> QED BY <1>1, <1>2, <1>3, MoveStep DEF Places
-----------------------------------------------------------------------------
(* The steps that begin a request, choose a provider or change one *)

LEMMA BeginStep ==
    ASSUME IInv, NEW t \in Thread, BeginRequest(t)
    PROVE  IInv'
  <1>1. PICK op, kind, is_default, id, place : Begin(t, op, kind, is_default, id, place)
                /\ [op |-> op, kind |-> kind, is_default |-> is_default, id |-> id] \in Requests
                /\ \/ op = "create" /\ kind \in Kind /\ place = "validate"
                   \/ op \in {"chat", "analyze"} /\ place = "choose"
                      /\ kind.model \in Override \union {"none"}
                   \/ op = "delete" /\ place = "find"
                   \/ op = "insights" /\ place = "gate"
    <2>1. NoKind \in Kinds /\ Kind \subseteq Kinds
          /\ NoKind.model = "none"
          /\ \A m \in Override \union {"none"} : /\ [NoKind EXCEPT !.model = m] \in Kinds
                                               /\ [NoKind EXCEPT !.model = m].model = m
      BY DEF NoKind, Kinds
    <2>2. 0..Len(providers) = {0} \union Provider
      BY LenProperties DEF IInv, TypeOK, Provider
    <2>3. CASE \E kind \in Kind, is_default \in BOOLEAN :
                   Begin(t, "create", kind, is_default, 0, "validate")
      <3>1. PICK kind \in Kind, is_default \in BOOLEAN :
                Begin(t, "create", kind, is_default, 0, "validate")
        BY <2>3
      <3>2. [op |-> "create", kind |-> kind, is_default |-> is_default, id |-> 0] \in Requests
        BY <2>1 DEF Requests
      <3> QED BY <3>1, <3>2
    <2>4. CASE \E id \in 0..Len(providers), model \in Override \union {"none"} :
                   Begin(t, "chat", [NoKind EXCEPT !.model = model], FALSE, id, "choose")
      <3>1. PICK id \in 0..Len(providers), model \in Override \union {"none"} :
                Begin(t, "chat", [NoKind EXCEPT !.model = model], FALSE, id, "choose")
        BY <2>4
      <3>2. PICK kind \in Kinds : kind = [NoKind EXCEPT !.model = model] /\ kind.model = model
        BY <2>1
      <3>3. [op |-> "chat", kind |-> kind, is_default |-> FALSE, id |-> id] \in Requests
        BY <2>2, <3>2 DEF Requests
      <3> QED BY <3>1, <3>2, <3>3
    <2>5. CASE \E id \in 0..Len(providers) : Begin(t, "analyze", NoKind, FALSE, id, "choose")
      <3>1. PICK id \in 0..Len(providers) : Begin(t, "analyze", NoKind, FALSE, id, "choose")
        BY <2>5
      <3>2. [op |-> "analyze", kind |-> NoKind, is_default |-> FALSE, id |-> id] \in Requests
        BY <2>1, <2>2 DEF Requests
      <3> QED BY <2>1, <3>1, <3>2
    <2>6. CASE \E id \in 0..Len(providers) : Begin(t, "delete", NoKind, FALSE, id, "find")
      <3>1. PICK id \in 0..Len(providers) : Begin(t, "delete", NoKind, FALSE, id, "find")
        BY <2>6
      <3>2. [op |-> "delete", kind |-> NoKind, is_default |-> FALSE, id |-> id] \in Requests
        BY <2>1, <2>2 DEF Requests
      <3> QED BY <3>1, <3>2
    <2>7. CASE Begin(t, "insights", NoKind, FALSE, 0, "gate")
      <3>1. [op |-> "insights", kind |-> NoKind, is_default |-> FALSE, id |-> 0] \in Requests
        BY <2>1 DEF Requests
      <3> QED BY <2>7, <3>1
    <2> QED BY <2>3, <2>4, <2>5, <2>6, <2>7 DEF BeginRequest
  <1> DEFINE asks == [op |-> op, kind |-> kind, is_default |-> is_default, id |-> id]
  <1>2. /\ UNCHANGED <<providers, owns, matched, locked, licensed>>
        /\ Provider' = Provider /\ Active' = Active /\ Requests' = Requests
        /\ pc' = [pc EXCEPT ![t] = place] /\ request' = [request EXCEPT ![t] = asks]
        /\ gone' = [gone EXCEPT ![t] = IF op = "chat" THEN Provider \ Active ELSE {}]
        /\ asks \in Requests /\ asks.op = op /\ asks.kind = kind /\ asks.id = id
        /\ place \in {"validate", "choose", "find", "gate"}
    BY <1>1 DEF Begin, table, rows, Provider, Active, Requests
  <1> HIDE DEF asks
  <1>3. TypeOK'
    <2>1. pc' \in [Thread -> Places] /\ request' \in [Thread -> Requests]
      BY <1>2 DEF IInv, TypeOK, Places
    <2>2. gone' \in [Thread -> SUBSET Provider]
      BY <1>2 DEF IInv, TypeOK
    <2> QED BY <1>2, <2>1, <2>2 DEF IInv, TypeOK
  <1>4. RequestOK'
    BY <1>1, <1>2 DEF IInv, TypeOK, RequestOK
  <1>5. OneFreeEach' /\ WriterOwnsNone'
    BY <1>2 DEF IInv, TypeOK, OneFreeEach, WriterOwnsNone
  <1>6. ChoiceLive'
    BY <1>1, <1>2 DEF IInv, TypeOK, ChoiceLive
  <1> QED BY <1>3, <1>4, <1>5, <1>6 DEF IInv

LEMMA ChooseStep ==
    ASSUME IInv, NEW t \in Thread, ChooseById(t) \/ ChooseDefault(t) \/ ChooseActive(t)
    PROVE  IInv'
  <1>1. PICK p \in Provider :
            /\ Take(t, p)
            /\ request[t].op = "chat" => p \in Active
            /\ pc[t] \in {"choose", "fallback"}
    BY DEF ChooseById, ChooseDefault, ChooseActive, Defaults, Active, IInv, TypeOK, Requests
  <1>2. PICK kind \in Kinds :
            request' = [request EXCEPT ![t] = [op |-> request[t].op, kind |-> kind,
                                               is_default |-> FALSE, id |-> p]]
    <2>1. providers[p].kind \in Kind
      <3>1. providers \in Seq([kind : Kind, is_default : BOOLEAN, is_active : BOOLEAN])
        BY DEF IInv, TypeOK
      <3>2. providers[p] \in [kind : Kind, is_default : BOOLEAN, is_active : BOOLEAN]
        BY <3>1, LenProperties, ElementOfSeq DEF Provider
      <3> QED BY <3>2
    <2>2. request[t].kind.model \in Override \union {"none"}
      BY <1>1 DEF IInv, RequestOK
    <2>3. Chosen(providers[p].kind, request[t].kind.model) \in Kinds
      BY <2>1, <2>2 DEF Chosen, Kinds
    <2> QED BY <1>1, <2>3 DEF Take, IInv, TypeOK, Requests
  <1>3. /\ UNCHANGED <<providers, owns, matched, locked, licensed, gone>>
        /\ Provider' = Provider /\ Active' = Active /\ Requests' = Requests
        /\ pc' = [pc EXCEPT ![t] = "validate"]
    <2>1. UNCHANGED <<table, rows, licensed, gone>> /\ pc' = [pc EXCEPT ![t] = "validate"]
      BY <1>1 DEF Take
    <2> QED BY <2>1 DEF table, rows, Provider, Active, Requests
  <1>4. /\ request'[t] \in Requests /\ request'[t].op = request[t].op /\ request'[t].id = p
        /\ request' = [request EXCEPT ![t] = request'[t]]
    BY <1>2 DEF IInv, TypeOK, Requests
  <1>5. TypeOK'
    BY <1>3, <1>4 DEF IInv, TypeOK, Places
  <1>6. RequestOK'
    BY <1>1, <1>3, <1>4 DEF IInv, TypeOK, RequestOK
  <1>7. OneFreeEach' /\ WriterOwnsNone'
    BY <1>3 DEF IInv, TypeOK, OneFreeEach, WriterOwnsNone
  <1>8. ChoiceLive'
    BY <1>1, <1>3, <1>4 DEF IInv, TypeOK, ChoiceLive
  <1> QED BY <1>5, <1>6, <1>7, <1>8 DEF IInv

LEMMA InsertStep ==
    ASSUME IInv, NEW t \in Thread, Insert(t)
    PROVE  IInv'
  <1> DEFINE Row  == [kind : Kind, is_default : BOOLEAN, is_active : BOOLEAN]
             n    == Len(providers)
             kept == [p \in Provider |-> IF p \in locked[t]
                                         THEN [providers[p] EXCEPT !.is_default = FALSE]
                                         ELSE providers[p]]
             new  == [kind |-> request[t].kind, is_default |-> request[t].is_default,
                      is_active |-> TRUE]
  <1>1. /\ n \in Nat /\ Provider = 1..n /\ providers \in Seq(Row)
        /\ \A p \in Provider : providers[p] \in Row
    BY LenProperties, ElementOfSeq DEF IInv, TypeOK, Provider
  <1>2. /\ kept \in Seq(Row) /\ Len(kept) = n
        /\ \A p \in Provider : kept[p].is_active = providers[p].is_active
    <2>1. kept \in [1..n -> Row]
      BY <1>1
    <2>2. kept \in Seq(Row)
      BY <1>1, <2>1, SeqDef
    <2>3. DOMAIN kept = 1..n
      BY <1>1
    <2>4. Len(kept) = n
      BY <1>1, <2>2, <2>3, LenProperties
    <2>5. \A p \in Provider : kept[p].is_active = providers[p].is_active
      BY <1>1
    <2> QED BY <2>2, <2>4, <2>5
  <1>3. new \in Row /\ new.is_active = TRUE
    BY DEF Insert, IInv, TypeOK, Requests, RequestOK
  <1>4. providers' = Append(kept, new)
    BY DEF Insert
  <1> HIDE DEF kept, new, Row
  <1>5. /\ providers' \in Seq(Row) /\ Len(providers') = n + 1
        /\ \A p \in 1..n : providers'[p] = kept[p]
        /\ providers'[n + 1] = new
    BY <1>1, <1>2, <1>3, <1>4, AppendProperties
  <1>6. Provider' = 1..(n + 1) /\ Provider \subseteq Provider'
    BY <1>1, <1>5, LenProperties DEF Provider
  <1>7. /\ Active \subseteq Active' /\ n + 1 \in Active'
        /\ Provider \ Active \subseteq Provider' \ Active'
    BY <1>1, <1>2, <1>3, <1>5, <1>6 DEF Active
  <1>8. /\ UNCHANGED matched /\ pc' = [pc EXCEPT ![t] = "idle"]
        /\ locked' = [locked EXCEPT ![t] = {}]
        /\ licensed' = [licensed EXCEPT ![t] = FALSE]
        /\ request' = [request EXCEPT ![t] = NoRequest]
        /\ gone' = [gone EXCEPT ![t] = {}]
        /\ owns' = IF licensed[t] THEN owns ELSE [owns EXCEPT ![t] = @ \union {n + 1}]
        /\ ~licensed[t] => owns[t] = {}
    BY <1>5 DEF Insert, Goto, Move, IInv, TypeOK, WriterOwnsNone
  <1>9. Requests \subseteq Requests' /\ NoRequest \in Requests' /\ NoRequest.op = "none"
    <2>1. NoRequest \in Requests /\ NoRequest.op = "none"
      BY DEF Requests, NoRequest, Kinds, NoKind
    <2>2. Requests \subseteq Requests'
      BY <1>6 DEF Requests
    <2> QED BY <2>1, <2>2
  <1>10. TypeOK'
    <2>1. providers' \in Seq([kind : Kind, is_default : BOOLEAN, is_active : BOOLEAN])
      BY <1>5 DEF Row
    <2>2. request' \in [Thread -> Requests']
      BY <1>8, <1>9 DEF IInv, TypeOK
    <2>3. owns' \in [Thread -> SUBSET Active']
      BY <1>7, <1>8 DEF IInv, TypeOK
    <2>4. /\ matched' \in [Thread -> SUBSET Provider'] /\ locked' \in [Thread -> SUBSET Provider']
          /\ gone' \in [Thread -> SUBSET Provider']
      BY <1>6, <1>8 DEF IInv, TypeOK
    <2>5. pc' \in [Thread -> Places] /\ licensed' \in [Thread -> BOOLEAN]
      BY <1>8 DEF IInv, TypeOK, Places
    <2> QED BY <2>1, <2>2, <2>3, <2>4, <2>5 DEF TypeOK
  <1>11. RequestOK'
    BY <1>6, <1>8, <1>9 DEF IInv, TypeOK, RequestOK
  <1>12. OneFreeEach' /\ WriterOwnsNone'
    BY <1>8 DEF IInv, TypeOK, OneFreeEach, WriterOwnsNone
  <1>13. ChoiceLive'
    BY <1>7, <1>8, <1>9 DEF IInv, TypeOK, ChoiceLive
  <1> QED BY <1>10, <1>11, <1>12, <1>13 DEF IInv

LEMMA DeleteStep ==
    ASSUME IInv, NEW t \in Thread, Delete(t)
    PROVE  IInv'
  <1> DEFINE Row == [kind : Kind, is_default : BOOLEAN, is_active : BOOLEAN]
             p   == request[t].id
  <1>1. /\ Len(providers) \in Nat /\ Provider = 1..Len(providers) /\ providers \in Seq(Row)
        /\ \A q \in Provider : providers[q] \in Row
        /\ p \in Provider
    <2>1. p \in Provider
      BY DEF IInv, Delete, RequestOK
    <2>2. providers \in Seq(Row)
      BY DEF IInv, TypeOK
    <2> HIDE DEF Row, p
    <2>3. Len(providers) \in Nat /\ Provider = 1..Len(providers)
      BY <2>2, LenProperties DEF Provider
    <2> QED BY <2>1, <2>2, <2>3, ElementOfSeq
  <1>2. /\ providers' \in [1..Len(providers) -> Row]
        /\ \A q \in Provider : providers'[q].is_active = (providers[q].is_active /\ q # p)
    <2>1. providers' = [q \in Provider |-> IF q = p THEN [providers[p] EXCEPT !.is_active = FALSE]
                                                   ELSE providers[q]]
      BY <1>1 DEF Delete, Provider
    <2>2. /\ [providers[p] EXCEPT !.is_active = FALSE] \in Row
          /\ [providers[p] EXCEPT !.is_active = FALSE].is_active = FALSE
      BY <1>1
    <2>3. \A q \in Provider : providers[q].is_active \in BOOLEAN
      BY <1>1
    <2> HIDE DEF Row, p
    <2>4. providers' \in [1..Len(providers) -> Row]
      BY <1>1, <2>1, <2>2
    <2>5. /\ providers'[p].is_active = FALSE
          /\ \A q \in Provider : q # p => providers'[q] = providers[q]
      BY <1>1, <2>1, <2>2
    <2>6. \A q \in Provider : providers'[q].is_active = (providers[q].is_active /\ q # p)
      <3> SUFFICES ASSUME NEW q \in Provider
                   PROVE  providers'[q].is_active = (providers[q].is_active /\ q # p)
        OBVIOUS
      <3>1. CASE q = p
        BY <2>5, <3>1
      <3>2. CASE q # p
        BY <2>3, <2>5, <3>2
      <3> QED BY <3>1, <3>2
    <2> QED BY <2>4, <2>6
  <1>3. providers' \in Seq(Row) /\ Provider' = Provider
    BY <1>1, <1>2, SeqDef DEF Provider
  <1>4. Active' = Active \ {p}
    BY <1>2, <1>3 DEF Active
  <1>5. /\ UNCHANGED <<matched, locked>> /\ pc' = [pc EXCEPT ![t] = "idle"]
        /\ licensed' = [licensed EXCEPT ![t] = FALSE]
        /\ request' = [request EXCEPT ![t] = NoRequest]
        /\ gone' = [gone EXCEPT ![t] = {}]
        /\ owns' = [u \in Thread |-> owns[u] \ {p}]
    BY DEF Delete, Goto, Move, rows
  <1>6. Requests' = Requests /\ NoRequest \in Requests /\ NoRequest.op = "none"
    <2>1. NoRequest \in Requests /\ NoRequest.op = "none"
      BY DEF Requests, NoRequest, Kinds, NoKind
    <2>2. Requests' = Requests
      BY <1>3 DEF Requests
    <2> QED BY <2>1, <2>2
  <1>7. TypeOK'
    <2>1. providers' \in Seq([kind : Kind, is_default : BOOLEAN, is_active : BOOLEAN])
      BY <1>3
    <2>2. request' \in [Thread -> Requests']
      BY <1>5, <1>6 DEF IInv, TypeOK
    <2>3. owns' \in [Thread -> SUBSET Active']
      BY <1>4, <1>5 DEF IInv, TypeOK
    <2>4. /\ matched' \in [Thread -> SUBSET Provider'] /\ locked' \in [Thread -> SUBSET Provider']
          /\ gone' \in [Thread -> SUBSET Provider']
      BY <1>3, <1>5 DEF IInv, TypeOK
    <2>5. pc' \in [Thread -> Places] /\ licensed' \in [Thread -> BOOLEAN]
      BY <1>5 DEF IInv, TypeOK, Places
    <2> QED BY <2>1, <2>2, <2>3, <2>4, <2>5 DEF TypeOK
  <1>8. RequestOK'
    BY <1>3, <1>5, <1>6 DEF IInv, TypeOK, RequestOK
  <1>9. OneFreeEach' /\ WriterOwnsNone'
    BY <1>5 DEF IInv, TypeOK, OneFreeEach, WriterOwnsNone
  <1>10. ChoiceLive'
    BY <1>3, <1>4, <1>5, <1>6 DEF IInv, TypeOK, ChoiceLive
  <1> QED BY <1>7, <1>8, <1>9, <1>10 DEF IInv
-----------------------------------------------------------------------------
LEMMA InitIInv == Init => IInv
  <1> SUFFICES ASSUME Init PROVE IInv
    OBVIOUS
  <1>1. Provider = {} /\ Active = {}
    BY DEF Init, Provider, Active
  <1>2. NoRequest \in Requests /\ NoRequest.op = "none"
    BY DEF NoRequest, Requests, Kinds, NoKind
  <1>3. TypeOK
    <2>1. providers \in Seq([kind : Kind, is_default : BOOLEAN, is_active : BOOLEAN])
      BY DEF Init
    <2> QED BY <1>2, <2>1 DEF Init, TypeOK, Places
  <1>4. RequestOK /\ OneFreeEach /\ WriterOwnsNone /\ ChoiceLive
    BY <1>2 DEF Init, RequestOK, OneFreeEach, WriterOwnsNone, ChoiceLive
  <1> QED BY <1>3, <1>4 DEF IInv

LEMMA NextIInv == IInv /\ [Next]_vars => IInv'
  <1> SUFFICES ASSUME IInv, [Next]_vars PROVE IInv'
    OBVIOUS
  <1>1. CASE Next
    BY <1>1, BeginStep, CheckLicenseStep, CountStep, OtherMoves, DefaultsStep, ChooseStep,
       InsertStep, DeleteStep DEF Next, Handle
  <1>2. CASE UNCHANGED vars
    <2>1. Provider' = Provider /\ Active' = Active /\ Requests' = Requests
      BY <1>2 DEF vars, Provider, Active, Requests
    <2>2. TypeOK' /\ RequestOK'
      BY <1>2, <2>1 DEF vars, IInv, TypeOK, RequestOK
    <2>3. OneFreeEach' /\ WriterOwnsNone' /\ ChoiceLive'
      BY <1>2, <2>1 DEF vars, IInv, OneFreeEach, WriterOwnsNone, ChoiceLive
    <2> QED BY <2>2, <2>3 DEF IInv
  <1> QED BY <1>1, <1>2

LEMMA Invariance == Spec => []IInv
  BY InitIInv, NextIInv, PTL DEF Spec

\* Requests are about rows that exist, and rows are only added (ai_providers).
THEOREM TypeCorrect == Spec => []TypeOK
  BY Invariance, PTL DEF IInv

\* With any number of requests at the same time and any answers of the licence, no
\* thread has two active providers that the free tier let it create (create_provider).
THEOREM FreeLimit == Spec => []OneFreeEach
  BY Invariance, PTL DEF IInv

\* No chat reaches a provider that was deleted before it came (chat).
THEOREM ChatsLive == Spec => []ChatsReachLive
  <1>1. IInv => ChatsReachLive
    BY DEF IInv, ChoiceLive, ChatsReachLive
  <1> QED BY <1>1, Invariance, PTL
=============================================================================
