----------------------------- MODULE MCJobQueue -----------------------------
(* Instances of JobQueue: the workers app.py starts, one per kind, and for   *)
(* the races claim() is written against, two upload workers.                 *)
EXTENDS JobQueue, TLC

CONSTANTS up1, up2, pr, s1

OnePerKind == {up1, pr}
TwoUploads == {up1, up2}
OneUpload  == {up1}
OneSession == {s1}
OneOfEach  == (up1 :> "upload") @@ (pr :> "print")
BothUpload == (up1 :> "upload") @@ (up2 :> "upload")
JustUpload == up1 :> "upload"
AnyUpload  == Permutations({up1, up2})
=============================================================================
