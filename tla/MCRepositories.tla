---------------------------- MODULE MCRepositories ----------------------------
EXTENDS Repositories, TLC

(* "cuda" is an extra repository with its own 9.6 mirror; "tools", like    *)
(* TurboVNC, has one path for both major versions.                         *)
MCRepoList == <<"cuda", "epel", "tools">>
MCPathOf == [cuda |-> ("9" :> "c9" @@ "9.6" :> "c96"),
             epel |-> ("9" :> "e9"),
             tools |-> ("8" :> "t" @@ "9" :> "t")]
MCDistros == {"8.10", "9.5", "9.6"}
MCMajorOf == ("8.10" :> "8" @@ "9.5" :> "9" @@ "9.6" :> "9")
MCSkippable == {"tools"}
=============================================================================
