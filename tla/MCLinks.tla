-------------------------------- MODULE MCLinks --------------------------------
(***************************************************************************)
(* Two organizations for IdentityLinks.  "tos" has the folders of every kind *)
(* with something in each; "lab" has two owners, and a file whose name a     *)
(* file of "tos" has too.                                                    *)
(***************************************************************************)
EXTENDS IdentityLinks

PathOf(names) == [i \in DOMAIN names |-> <<names[i]>>]
LegacyRow(parent, names, owner, boundary) ==
    [tenant |-> "tos", parent |-> parent, name |-> <<names[Len(names)]>>, path |-> PathOf(names),
     system |-> "", owner |-> owner, app |-> "", boundary |-> boundary, trashed |-> FALSE, config |-> "",
     file |-> TRUE]
StructuralRow(parent, names, system, owner) ==
    [LegacyRow(parent, names, owner, <<system, "">>) EXCEPT !.system = system, !.file = FALSE]
AppRow(parent, names, system, owner) ==
    [StructuralRow(parent, names, system, owner) EXCEPT !.app = "waveform"]

TosStructure ==
    (<<"public">> :> StructuralRow(Nowhere, <<"public">>, "public_root", "c:saket")) @@
    (<<"private">> :> StructuralRow(Nowhere, <<"private">>, "private_root", "c:saket")) @@
    (<<"p", "saket">> :> StructuralRow(<<"private">>, <<"private", "c:saket">>, "actor_root", "c:saket")) @@
    (<<"p", "bob">> :> StructuralRow(<<"private">>, <<"private", "c:bob">>, "actor_root", "c:bob")) @@
    (<<"p", "gone">> :> StructuralRow(<<"private">>, <<"private", "c:gone">>, "actor_root", "c:gone")) @@
    (<<"design">> :> [StructuralRow(Nowhere, <<"design">>, "tag_root", "c:saket") EXCEPT
                        !.boundary = <<"tag_root", "design">>]) @@
    (<<"apps">> :> StructuralRow(Nowhere, <<"apps">>, "apps_root", "c:saket")) @@
    (<<"a", "w">> :> AppRow(<<"apps">>, <<"apps", "waveform">>, "app_root", "c:saket")) @@
    (<<"a", "pub">> :> AppRow(<<"a", "w">>, <<"apps", "waveform", "public">>, "app_public", "c:saket")) @@
    (<<"a", "priv">> :> AppRow(<<"a", "w">>, <<"apps", "waveform", "private">>, "app_private", "c:saket")) @@
    (<<"a", "bob">> :> AppRow(<<"a", "priv">>, <<"apps", "waveform", "private", "c:bob">>, "app_actor", "c:bob"))

TosFiles ==
    (<<"t", "notes">> :> [LegacyRow(<<"p", "saket">>, <<"private", "c:saket", "notes">>, "c:saket",
                                    <<"actor_root", "">>) EXCEPT !.file = FALSE]) @@
    (<<"t", "todo">> :> [LegacyRow(<<"t", "notes">>, <<"private", "c:saket", "notes", "todo">>, "c:saket",
                                   <<"actor_root", "">>) EXCEPT !.config = "own"]) @@
    (<<"t", "twin">> :> [LegacyRow(<<"p", "saket">>, <<"private", "c:saket", "notes">>, "c:saket",
                                   <<"actor_root", "">>) EXCEPT !.trashed = TRUE]) @@
    (<<"t", "apps">> :> LegacyRow(<<"p", "saket">>, <<"private", "c:saket", "apps">>, "c:saket",
                                  <<"actor_root", "">>)) @@
    (<<"t", "plan">> :> [LegacyRow(<<"p", "bob">>, <<"private", "c:bob", "plan">>, "c:bob",
                                   <<"actor_root", "">>) EXCEPT !.config = "own"]) @@
    (<<"t", "old">> :> LegacyRow(<<"p", "gone">>, <<"private", "c:gone", "old">>, "c:gone",
                                 <<"actor_root", "">>)) @@
    (<<"t", "guide">> :> LegacyRow(<<"public">>, <<"public", "guide">>, "c:bob", <<"public_root", "">>)) @@
    (<<"t", "mock">> :> LegacyRow(<<"design">>, <<"design", "mock">>, "c:saket", <<"tag_root", "design">>)) @@
    (<<"t", "take">> :> LegacyRow(<<"a", "pub">>, <<"apps", "waveform", "public", "take">>, "c:saket",
                                  <<"app_public", "">>)) @@
    (<<"t", "cut">> :> LegacyRow(<<"a", "bob">>, <<"apps", "waveform", "private", "c:bob", "cut">>, "c:bob",
                                 <<"app_actor", "">>))

LabEntries ==
    LET inLab(rows) == [e \in DOMAIN rows |-> [rows[e] EXCEPT !.tenant = "lab"]] IN
    inLab((<<"l", "private">> :> StructuralRow(Nowhere, <<"private">>, "private_root", "si:scout")) @@
          (<<"l", "saket">> :> StructuralRow(<<"l", "private">>, <<"private", "c:saket">>, "actor_root", "c:saket")) @@
          (<<"l", "notes">> :> LegacyRow(<<"l", "saket">>, <<"private", "c:saket", "notes">>, "c:saket",
                                         <<"actor_root", "">>)))

Member(role) == [role |-> role, active |-> TRUE]
Away == [role |-> "member", active |-> FALSE]

LegacyState(expires) ==
    [entries |-> TosStructure @@ TosFiles @@ LabEntries,
     members |-> (<<"tos", "c:saket">> :> Member("owner")) @@ (<<"tos", "c:bob">> :> Member("member")) @@
                 (<<"tos", "c:gone">> :> Away) @@ (<<"tos", "si:scout">> :> Member("member")) @@
                 (<<"lab", "c:saket">> :> Member("member")) @@
                 (<<"lab", "c:bob">> :> Member("owner")) @@ (<<"lab", "si:scout">> :> Member("owner")),
     tagged |-> {<<"tos", "c:bob", "design">>, <<"tos", "c:gone", "design">>},
     tags |-> {<<"tos", "design">>},
     shares |-> (<<"s", "bob">> :> [tenant |-> "tos", entry |-> <<"t", "notes">>, who |-> "c:bob",
                    rights |-> {"read"}, inherits |-> TRUE, by |-> "c:saket", expires |-> "never",
                    revoked |-> FALSE]),
     tagShares |-> (<<"s", "design">> :> [tenant |-> "tos", entry |-> <<"t", "notes">>, tag |-> "design",
                    rights |-> IF expires = "never" THEN {"read", "write"} ELSE {"read"},
                    inherits |-> TRUE, by |-> "c:saket", expires |-> expires,
                    revoked |-> FALSE]),
     notes |-> (<<"n">> :> [tenant |-> "tos", recipient |-> "c:bob", entry |-> <<"t", "todo">>,
                    says |-> <<"tos", PathOf(<<"private", "c:saket", "notes", "todo">>)>>, read |-> FALSE]),
     uploads |-> (<<"u">> :> [tenant |-> "tos", parent |-> <<"p", "bob">>, entry |-> <<"t", "plan">>]),
     configs |-> (<<"tos", "own">> :> "active"),
     usage |-> ("tos" :> [stored |-> 9, limit |-> 20]) @@ ("lab" :> [stored |-> 1, limit |-> 0]),
     aliases |-> <<>>, accounts |-> {}, drives |-> {}]

\* An account that signed in before the run and has a file of its own.
Settled(d, u) ==
    LET root == <<"root", u>> IN
    [d EXCEPT !.accounts = {u}, !.drives = {u},
              !.members = @ @@ (<<u, u>> :> Member("owner")),
              !.entries = @ @@ (root :> FolderOf(u, Nowhere, <<u>>, <<>>, "drive_root", ""))
                            @@ (<<"own", u>> :> [FolderOf(u, root, <<"plan">>, <<<<"plan">>>>, "", "") EXCEPT
                                                    !.file = TRUE]),
              !.usage = @ @@ (u :> [stored |-> 1, limit |-> 0])]

\* An installation that never had an organization.
NewInstallation ==
    [entries |-> <<>>, members |-> <<>>, tagged |-> {}, tags |-> {}, shares |-> <<>>, tagShares |-> <<>>,
     notes |-> <<>>, uploads |-> <<>>, configs |-> <<>>, usage |-> <<>>, aliases |-> <<>>, accounts |-> {},
     drives |-> {}]

TwoOrganizations ==
    {NewInstallation, LegacyState("never"), LegacyState("past"), Settled(LegacyState("later"), "ub")}

OrderOfMoves ==
    <<<<"l", "notes">>, <<"t", "cut">>, <<"t", "take">>, <<"t", "mock">>, <<"t", "plan">>, <<"t", "old">>,
      <<"t", "apps">>, <<"t", "notes">>, <<"t", "twin">>, <<"t", "todo">>, <<"t", "guide">>>>

OneAddress == (<<"tos", PathOf(<<"private", "me:tos", "guide">>)>> :> <<"t", "guide">>)
PrincipalIds == ("p:saket" :> {"c:saket"})

Row(kind, key, account) == [key |-> <<kind, key>>, account |-> account]
BaseRows == <<Row("principal", "p:saket", "ua"), Row("id", "si:scout", "us"), Row("id", "c:nobody", "ux")>>
BobAs(u) == <<Row("id", "c:bob", u)>>
LabTo(u) == <<Row("org", "lab", u)>>

\* Two good mappings, a corrected account, two identities for one account, an
\* organization without a receiver.
MappingFiles ==
    {BaseRows \o BobAs("ub") \o LabTo("ub"),
     BaseRows \o BobAs("ub") \o LabTo("ub") \o <<Row("id", "c:gone", "ug")>>,
     BaseRows \o BobAs("uc") \o LabTo("us"),
     BaseRows \o BobAs("ua") \o LabTo("ua"),
     BaseRows \o BobAs("ub")}

NewKeys == [u \in {"ua", "ub", "uc", "us", "ug", "ux"} |-> u \o "7"]
===============================================================================
