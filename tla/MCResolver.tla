------------------------------ MODULE MCResolver ------------------------------
(* Two beacons of one uuid, written in two ways, the first with a fixture;  *)
(* an observation without a uuid; a provider that knows mapped, unmapped    *)
(* and incomplete stations.                                                 *)
EXTENDS Resolver, TLC

At(uuid, minor) == [uuid |-> uuid, major |-> 1, minor |-> minor]

MCRequests ==
    {[observation |-> At(" DEMO", 3), claim |-> None], [observation |-> At("demo", 3), claim |-> "R04"],
     [observation |-> At("demo", 4), claim |-> None], [observation |-> At("", 4), claim |-> None]}
MCCanonical == "demo" :> "demo" @@ " DEMO" :> "demo" @@ "" :> Blank
MCMappings == <<"BL07MALL", "BL">> :> "BL07"
Mapped == [sid |-> "BL07MALL", lid |-> "BL", name |-> Blank]
Unmapped == [sid |-> "R04", lid |-> "R", name |-> "Xinyi Anhe"]
MCResponses == {Mapped, Unmapped, [sid |-> Blank, lid |-> Blank, name |-> Blank]}
MCKnown == <<"demo", 1, 3>> :> Mapped @@ <<"demo", 1, 4>> :> Unmapped
MCFixtures == <<"demo", 1, 3>> :> "R03"
=============================================================================
