------------------------------ MODULE MCServices ------------------------------
(***************************************************************************)
(* Components that share no state, side by side: one of them, chosen at the *)
(* start, takes steps, and the others stay as they are.  Each is checked on *)
(* an instance of its own.                                                  *)
(***************************************************************************)
EXTENDS Outbox, Accounts, Shares, CommandLine, StorageConfiguration, AccountsGateway,
        VersionCopy, DeviceSignIn, MCLinks

CONSTANT Services \* the components of a run

VARIABLE service

CONSTANTS a1, a2, i1, i2, i3, s0, s1, s2, b1, b2

Names == (a1 :> i1) @@ (a2 :> i2)

\* An account loses sign-ins, or changes and is deleted, or accounts exchange
\* ids around a deletion.
AccountStories ==
    {{a1} \X {"signed_out", "access_removed", "sign_in", "id_changed", "lookup"},
     {a1} \X {"updated", "deleted", "sign_in", "id_changed", "lookup"},
     ({a1, a2} \X {"id_changed"}) \cup {<<a1, "deleted">>, <<a1, "lookup">>}}

\* The legacy bucket submitted again, and another one.
DescribedBuckets == (s0 :> b1) @@ (s1 :> b2) @@ (s2 :> b1)

-----------------------------------------------------------------------------
(* TLC evaluates a definition once, but what replaces a constant each time.   *)

MCFirstId == Names
MCStories == AccountStories
MCBucketOf == DescribedBuckets
MCLegacyStates == TwoOrganizations
MCLegacyOrder == OrderOfMoves
MCBoundTo == PrincipalIds
MCOldAddresses == OneAddress
MCMappings == MappingFiles
MCSuccessor == NewKeys

-----------------------------------------------------------------------------
servicesVars ==
    <<outboxVars, accountsVars, sharesVars, clVars,
      storageVars, gatewayVars, copyVars, signInVars, linkVars, service>>

ServicesInit ==
    /\ service \in Services
    /\ service # "storage" => trusts = [b \in Buckets |-> {"handle"}] /\ created = <<>>
    /\ service # "gateway" => part = "keys"
    /\ service # "copy" => shape = CHOOSE s \in Shapes : TRUE
    /\ service # "links" => base = NewInstallation
    /\ service # "sign in" => setting = [way |-> "code", deployment |-> "ours", email |-> TRUE]
                             /\ kept = NotKept
    /\ OutboxInit /\ AccountsInit /\ SharesInit /\ CommandLineInit
    /\ StorageInit /\ GatewayInit /\ CopyInit /\ SignInInit /\ LinkInit
    /\ service # "shares" => \A g \in TagGrants : Permanent(g)

ServicesNext ==
    /\ UNCHANGED service
    /\ \/ service = "outbox" /\ OutboxNext
          /\ UNCHANGED <<accountsVars, sharesVars, clVars, storageVars, gatewayVars, copyVars, signInVars, linkVars>>
       \/ service = "accounts" /\ AccountsNext
          /\ UNCHANGED <<outboxVars, sharesVars, clVars, storageVars, gatewayVars, copyVars, signInVars, linkVars>>
       \/ service = "shares" /\ SharesNext
          /\ UNCHANGED <<outboxVars, accountsVars, clVars, storageVars, gatewayVars, copyVars, signInVars, linkVars>>
       \/ service = "cli" /\ CommandLineNext
          /\ UNCHANGED <<outboxVars, accountsVars, sharesVars, storageVars, gatewayVars, copyVars, signInVars, linkVars>>
       \/ service = "storage" /\ StorageNext
          /\ UNCHANGED <<outboxVars, accountsVars, sharesVars, clVars, gatewayVars, copyVars, signInVars, linkVars>>
       \/ service = "gateway" /\ GatewayNext
          /\ UNCHANGED <<outboxVars, accountsVars, sharesVars, clVars, storageVars, copyVars, signInVars, linkVars>>
       \/ service = "copy" /\ CopyNext
          /\ UNCHANGED <<outboxVars, accountsVars, sharesVars, clVars, storageVars, gatewayVars, signInVars, linkVars>>
       \/ service = "sign in" /\ SignInNext
          /\ UNCHANGED <<outboxVars, accountsVars, sharesVars, clVars, storageVars, gatewayVars, copyVars, linkVars>>
       \/ service = "links" /\ LinkNext
          /\ UNCHANGED <<outboxVars, accountsVars, sharesVars, clVars, storageVars, gatewayVars, copyVars, signInVars>>

ServicesSpec == ServicesInit /\ [][ServicesNext]_servicesVars

-----------------------------------------------------------------------------
\* What has been settled is not taken back by a late message, an overtaken
\* host or a process that read an older state: the outcome of a mail, the end
\* of sign-ins, a newer sighting, an access made permanent, a logout, a
\* drive's own bucket.
NothingTakenBack ==
    /\ OutcomeStays /\ EndingsStay /\ SightingsInOrderUnlessOvertaken
    /\ KeepingTakesNothing /\ OnlyLoginSignsIn /\ DestinationStays

\* LinksHold in the run of that component, whose tables the others leave alone:
\* what belongs to a person stays with the person through the cutover.
CutoverHolds == service = "links" => LinksHold
===============================================================================
