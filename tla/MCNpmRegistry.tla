----------------------------- MODULE MCNpmRegistry -----------------------------
(***************************************************************************)
(* Instances of NpmRegistry for TLC.                                       *)
(***************************************************************************)
EXTENDS NpmRegistry, TLC

Sem(rank, major, pre) == [rank |-> rank, major |-> major, pre |-> pre]

MCParsed ==
  "1.0.0" :> Sem(1, 1, FALSE) @@ "1.1.0" :> Sem(2, 1, FALSE) @@ "2.0.0-rc" :> Sem(3, 2, TRUE)
  @@ "2.0.0" :> Sem(4, 2, FALSE) @@ "1000.0.0" :> Sem(5, 1000, FALSE)

MCStripped == "v1.1.0" :> "1.1.0"

MCCreated == "ann" :> 2 @@ "bob" :> 0

Meta(publisher, surface, at) ==
  [publisher |-> publisher, surface |-> surface, at |-> at,
   deprecated |-> FALSE, attested |-> FALSE]

NoReleases == [v \in {} |-> Meta(None, {}, None)]

\* One package, published by two accounts or by an unnamed one, in any order.
MCGrowing ==
  [releases |-> [p \in Packages |-> NoReleases], latest |-> [p \in Packages |-> None],
   wanted |-> [p \in {} |-> ""],
   publications |->
     {[package |-> "lib", version |-> v, meta |-> meta] :
        v \in DOMAIN MCParsed,
        meta \in {Meta("ann", {}, 1), Meta("bob", {"bin"}, 1), Meta(None, {}, 1)}}
     \cup {[package |-> "lib", version |-> "nightly", meta |-> Meta("bob", {"bin"}, 1)]}]

\* Packages that share a publisher, read by requests that run at the same time.
MCReading ==
  [releases |->
     "lib" :> ("1.0.0" :> Meta("ann", {"postinstall"}, 3)
               @@ "1.1.0" :> [Meta("bob", {"postinstall"}, 4) EXCEPT !.deprecated = TRUE])
     @@ "early" :> ("1.1.0" :> Meta("ann", {}, 1))
     @@ "timeless" :> ("1.0.0" :> Meta("ann", {}, None))
     @@ "signed" :> ("1.0.0" :> [Meta("ann", {}, 5) EXCEPT !.attested = TRUE])
     @@ "squat" :> ("1.0.0" :> Meta("ann", {"bin"}, 2)
                    @@ "2.0.0" :> Meta("ann", {"bin"}, 3)),
   latest |-> [p \in Packages |-> IF p = "lib" THEN "1.1.0" ELSE "1.0.0"],
   wanted |-> "lib" :> "1.1.0" @@ "early" :> "v1.1.0" @@ "timeless" :> "1.0.0"
              @@ "signed" :> "1.0.0" @@ "squat" :> "1.0.0",
   publications |-> {}]

MCWorlds == "growing" :> MCGrowing @@ "reading" :> MCReading
=============================================================================
