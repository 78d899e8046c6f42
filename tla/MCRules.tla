-------------------------------- MODULE MCRules --------------------------------
(***************************************************************************)
(* Who may do what, and what a request is answered with: components side by *)
(* side.  One of them, chosen at the start, takes steps, and the others     *)
(* stay as they are.                                                        *)
(***************************************************************************)
EXTENDS FilterLanguage, UploadPlan, ContentDelivery, Circles,
        AppRequests, TLC

CONSTANTS Rules, \* the components of a run
          ada, bob, bot, bee, docs, sheet, draft, planned, theirs

VARIABLE rule

-----------------------------------------------------------------------------
(* Listings: the conditions are "file", which every entry has or lacks, and *)
(* "md", which the database leaves undecided for an entry with no extension. *)

Is(p) == [op |-> "is", name |-> p]
NotOf(x) == [op |-> "not", of |-> x]
AllOf(x, y) == [op |-> "all", of |-> <<x, y>>]
AnyOf(x, y) == [op |-> "any", of |-> <<x, y>>]
MayWrite == [op |-> "may", name |-> "write"]

Ask2(x, sort) == [expression |-> x, sort |-> sort, take |-> [end |-> "none", count |-> 0], limit |-> 2]
Take2(x, sort, end, limit) ==
    [expression |-> x, sort |-> sort, take |-> [end |-> end, count |-> 2], limit |-> limit]

FolderQueries ==
    {Ask2(Unfiltered, "newest"), Ask2(Unfiltered, "oldest"),
     Take2(Unfiltered, "newest", "oldest", 3), Take2(Unfiltered, "newest", "newest", 2),
     Ask2(NotOf(Is("file")), "newest"),
     Ask2(AllOf(NotOf(Is("md")), AnyOf(MayWrite, Is("file"))), "newest"),
     Take2(AnyOf(AllOf(MayWrite, Is("file")), NotOf(AnyOf(Is("md"), MayWrite))), "oldest", "newest", 2)}

FolderCatalogs ==
    {[e \in Entries |-> [p \in Predicates |->
        IF p = "file" THEN (IF e \in files THEN "yes" ELSE "no")
        ELSE IF e = 1 THEN "unknown" ELSE IF e = 2 THEN "yes" ELSE "no"]] :
     files \in {{0, 1, 2}, {1, 3}}}

-----------------------------------------------------------------------------
(* Filters: every text of a few words, of a few operators, of a few characters *)
(* and of a few characters of a term; and files of every kind.                 *)

Letters(S) == {<<c>> : c \in S}
FewWords ==
    {<<"(">>, <<")">>, <<"or", " ">>, <<"not", " ">>, <<"and", " ">>, <<"is", ":", "file", " ">>,
     <<"last", ":", "1", " ">>, <<"first", ":", "1", " ">>, <<"sort", ":", "oldest", " ">>}
FewOperators ==
    {<<"(">>, <<")">>, <<" ", "or", " ">>, <<"-">>, <<"md", " ">>, <<"permissions", ":", "write", " ">>}
FilterAlphabets ==
    <<[letters |-> FewWords, length |-> 4], [letters |-> FewOperators, length |-> 5],
      [letters |-> Letters({" ", "'", "\"", "(", "name", ":"}), length |-> 5],
      [letters |-> Letters({"a", "b", "%", "*"}), length |-> 4]>>
NamesOfThree == UNION {[1 .. n -> {"a", "b", "%"}] : n \in 0 .. 3}

SampleTypes ==
    {<<>>, <<"image", "/", "png">>, <<"font", "/", "woff">>, <<"text", "/", "plain">>, <<"text", "/", "csv">>,
     <<"text", "/", "html">>, <<"application", "/", "zip">>, <<"application", "/", "epub+", "zip">>,
     <<"application", "/", "vnd.", "ms-excel">>, <<"application", "/", "pdf">>, <<"application", "/", "ld", "+json">>}
SampleFiles == [extension : {"none", "code", "image"}, type : SampleTypes, changed : {0, 2, 3, 4, 5, 7}]

-----------------------------------------------------------------------------
(* Archives: lengths that fall on both sides of every limit. *)

MembersFrom(S) == UNION {[1 .. n -> S] : n \in 0 .. 3}
Zips == {[format |-> "zip", before |-> before, comment |-> comment, members |-> members] :
         before \in {0, 3, 9}, comment \in {0, 2}, members \in MembersFrom([name : {1, 2}, comment : {0, 1}])}
Tars == {[format |-> "tar", before |-> 0, comment |-> 0, members |-> members] :
         members \in MembersFrom([data : {0, 1, 3}])}
Sevens == {[format |-> "7z", before |-> before, comment |-> 0, members |-> members] :
           before \in {2, 9}, members \in MembersFrom([anti : BOOLEAN])}
NewZip == [format |-> "zip", before |-> 3, comment |-> 0,
           members |-> <<[name |-> 1, comment |-> 0], [name |-> 1, comment |-> 0]>>]
EmptyFile == [format |-> "7z", before |-> 0, comment |-> 0, members |-> <<>>]
SmallFile == [format |-> "tar", before |-> 0, comment |-> 0, members |-> <<>>]

DeliveryScenes ==
    [op : {"listing"}, archive : Zips \cup Tars \cup Sevens, hidden : {{}}]
    \cup [op : {"content"}, archive : {SmallFile, EmptyFile}, hidden : {{}}]
    \cup [op : {"folder"}, archive : {SmallFile}, hidden : {{}, {2}, {3}, {4}}]

Minus1 == -1
RangeHeaders == [start : {0, 1, 3, NoBound}, end : {0, 1, 9, NoBound}]

-----------------------------------------------------------------------------
(* Circles: two Carbons, ada and bob, and two Silicons that ada looks after.  *)

RequestBy(by, do, on) ==
    [do |-> do, by |-> by, on |-> on, with |-> by, named |-> "uuid", kind |-> KindOf(on)]
AllowedSharer(by, on, with) == [RequestBy(by, "allow", on) EXCEPT !.with = with]
AdaLooksAfter(silicons) == [s \in Silicons |-> IF s \in silicons THEN ada ELSE NoCustodian]
SettingOf(silicons, rows, tasks, n, what, accounts, m) ==
    [custodian |-> AdaLooksAfter(silicons), recorded |-> rows, errands |-> tasks, requests |-> n,
     events |-> what, about |-> accounts, happenings |-> m]
Inviting == {AllowedSharer(ada, bot, bob), RequestBy(bob, "share", bot)}
CircleSettings ==
    <<SettingOf(Silicons, {}, {RequestBy(bot, "share", bee)}, 1, {"handover"}, Silicons, 1),
      SettingOf({}, {}, {RequestBy(bot, "share", bee)}, 1, {}, {}, 0),
      SettingOf(Silicons, {}, {RequestBy(ada, "enter", bot)}, 1, {"handover", "other"}, {bot}, 2),
      SettingOf(Silicons, {}, {RequestBy(ada, "enter", bot)}, 2, {"handover"}, {bot}, 1),
      SettingOf(Silicons, {}, Inviting, 2, {}, {}, 0),
      SettingOf(Silicons, {}, Inviting, 1, {"handover", "deleted"}, {bob, bot}, 1),
      SettingOf(Silicons, Silicons, {RequestBy(ada, "drives", ada), RequestBy(bot, "me", bot)}, 1,
                {"deleted"}, Silicons, 1),
      SettingOf(Silicons, {}, {RequestBy(ada, "share", bot), RequestBy(bot, "shared", bot)}, 2,
                {}, {}, 0),
      SettingOf(Silicons, {}, {[RequestBy(ada, "share", bot) EXCEPT !.kind = "carbon"],
                               RequestBy(bob, "enter", bot)}, 1, {"signed_out"}, {bot}, 1),
      SettingOf(Silicons, {}, {RequestBy(bot, "me", bot)}, 1, {"handover", "signed_out"}, {bot}, 3),
      SettingOf({bot}, {}, {[AllowedSharer(bot, bot, bob) EXCEPT !.named = "id"],
                              AllowedSharer(bot, bot, bot), RequestBy(ada, "disallow", bot)},
                1, {"handover"}, {bot}, 1)>>

-----------------------------------------------------------------------------
(* Apps: waveform is confined to its folder, and karaoke is not.  A folder   *)
(* and a file of the account, a file and a folder still to be made, and a    *)
(* file of another account.                                                  *)

FolderPaths == ("w1" :> "waveform") @@ ("w2" :> "waveform") @@ ("h1" :> Nil) @@ ("h2" :> Nil)
PlacedAt(p, app) == [path |-> p, origin |-> app]
PlacedEntries ==
    (docs :> PlacedAt("w1", "waveform")) @@ (sheet :> PlacedAt("w2", "karaoke"))
    @@ (draft :> PlacedAt(Nil, Nil)) @@ (planned :> PlacedAt(Nil, Nil))
    @@ (theirs :> PlacedAt("w1", Nil))

AllowedApps == [s \in Scopes |-> IF s = "read" THEN {"waveform"} ELSE {"waveform", "karaoke"}]
ProofOf(token, app, to, kind, scopes) ==
    [token |-> token, issuer |-> app, receiver |-> to, kind |-> kind, scopes |-> scopes]
GoodProof(app) == ProofOf("proof", app, "briefcase", "user_verification", Scopes)
GoodProofs == {GoodProof("waveform"), GoodProof("karaoke")}
BadProofs ==
    {ProofOf("refresh", "waveform", "briefcase", "user_verification", Scopes),
     ProofOf("proof", "waveform", "another", "user_verification", Scopes),
     ProofOf("proof", "waveform", "briefcase", "user_verification", {"status"}),
     ProofOf("proof", "waveform", "briefcase", "app_verification", Scopes)}
AllProofs == GoodProofs \cup BadProofs

BodyOf(kind, on) ==
    [kind |-> kind, op |-> "p", on |-> on, digest |-> IF kind = "reserve" THEN "x" ELSE Nil,
     force |-> kind = "read" /\ on = theirs]
MenuOf(bodies, proofs, n, which, m) ==
    [bodies |-> bodies, proofs |-> proofs, requests |-> n, changes |-> which, meddling |-> m]
Publishing == {BodyOf("reserve", "w1"), BodyOf("commit", Nil)}
AnyChange == {"account", "others", "trust", "time", "output"}
RequestMenus ==
    <<MenuOf(Publishing, {GoodProof("waveform")}, 4, {}, 0),
      MenuOf(Publishing, {GoodProof("waveform")}, 3, {"account"}, 1),
      MenuOf(Publishing, {GoodProof("waveform")}, 2, {"time", "trust"}, 1),
      MenuOf({BodyOf("reserve", "own"), BodyOf("cancel", Nil), BodyOf("status", Nil)},
             {GoodProof("waveform")}, 2, {"account", "time"}, 1),
      MenuOf({BodyOf("folder", "w1"), BodyOf("trash", docs)}, {GoodProof("waveform")}, 3,
             {"account", "time"}, 1),
      MenuOf({BodyOf("read", theirs), BodyOf("trash", sheet)}, GoodProofs, 2,
             {"account", "others", "output"}, 1),
      MenuOf({BodyOf("invite", docs), BodyOf("folder", "own")}, {GoodProof("waveform")}, 2,
             {"account", "trust"}, 1),
      MenuOf({BodyOf("list", "own"), BodyOf("read", sheet), BodyOf("link", sheet),
              BodyOf("trash", theirs)}, GoodProofs, 1, AnyChange, 1),
      MenuOf({BodyOf("list", "own")}, BadProofs, 1, AnyChange, 1)>>

-----------------------------------------------------------------------------
(* TLC evaluates a definition once, but what replaces a constant each time.   *)

MCQueries == FolderQueries
MCCatalogs == FolderCatalogs
MCAlphabets == FilterAlphabets
MCPlainNames == NamesOfThree
MCSamples == SampleFiles
MCScenes == DeliveryScenes
MCReuploaded == NewZip
MCRanges == RangeHeaders
MCSettings == CircleSettings
MCProofIssuers == AllowedApps
MCProofs == AllProofs
MCFolderAt == FolderPaths
MCPlaced == PlacedEntries
MCMenus == RequestMenus

-----------------------------------------------------------------------------
rulesVars == <<listingVars, planVars, readVars, filterVars, circleVars, requestVars, rule>>

RulesInit ==
    /\ rule \in Rules
    /\ rule # "listing" => /\ live = Entries /\ readable = Entries
                           /\ truths = CHOOSE c \in Catalogs : TRUE
    /\ rule # "plan" => size = 0
    /\ rule # "filter" => alphabet = 1 /\ sample = (CHOOSE f \in Samples : TRUE)
    /\ ListingInit /\ PlanInit /\ FilterInit /\ CirclesInit /\ RequestsInit
    /\ rule # "circles" => option = 1
    /\ rule # "requests" => menu = 1
    /\ IF rule = "delivery" THEN DeliveryInit ELSE SceneSet(CHOOSE scene \in Scenes : TRUE)

RulesNext ==
    /\ UNCHANGED rule
    /\ \/ rule = "listing" /\ ListingNext /\ UNCHANGED <<planVars, readVars, filterVars, circleVars, requestVars>>
       \/ rule = "plan" /\ PlanNext /\ UNCHANGED <<listingVars, readVars, filterVars, circleVars, requestVars>>
       \/ rule = "delivery" /\ DeliveryNext /\ UNCHANGED <<listingVars, planVars, filterVars, circleVars, requestVars>>
       \/ rule = "filter" /\ FilterNext /\ UNCHANGED <<listingVars, planVars, readVars, circleVars, requestVars>>
       \/ rule = "circles" /\ CirclesNext /\ UNCHANGED <<listingVars, planVars, readVars, filterVars, requestVars>>
       \/ rule = "requests" /\ RequestsNext /\ UNCHANGED <<listingVars, planVars, readVars, filterVars, circleVars>>

RulesSpec == RulesInit /\ [][RulesNext]_rulesVars

-----------------------------------------------------------------------------
\* What a request answers is what there was to answer with: each entry of a
\* listing, each byte of a file, each file of a folder; and what a filter says
\* is what it finds.
AnswersAreFaithful == WalksAreFaithful /\ DeliveriesAreFaithful /\ FiltersFindWhatTheySay
===============================================================================
