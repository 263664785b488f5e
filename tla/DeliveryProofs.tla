--------------------------- MODULE DeliveryProofs ---------------------------
(* Proofs about Delivery, for any configurations, path lengths, numbers of   *)
(* attempts, saves and failures.                                             *)
EXTENDS Delivery, TLAPS

(* A job that is not settled has an attempt left.                            *)
TriesOK == job \in {"pending", "held"} => tries < MaxAttempts

(* What an actor at each place knows of the configuration it uses.           *)
LoginOK(c) ==
  c.secret /\ (c.auth \in accepts \/ (c.auth = "password" /\ "interactive" \in accepts))

LoggedIn(a) == at[a][1] \in {"session", "stat", "mkdir", "put", "putting", "confirm"}

PlacesOK ==
  /\ at["test"] # Idle => asked.backend = "sftp"
  /\ at["upload"][1] \in {"connect", "login", "interactive"} \/ LoggedIn("upload")
       => running.backend = "sftp"
  /\ \A a \in Actors : LoggedIn(a) => LoginOK(Uses(a))
  /\ \A a \in Actors : at[a] = <<"interactive", 0>> =>
       Uses(a).auth = "password" /\ ~Granted(a, "password")

(* The segments before the one an actor is at exist.                         *)
PathOK ==
  /\ \A a \in Actors, k \in 1 .. Depth :
       at[a] \in {<<"stat", k>>, <<"mkdir", k>>} => dirs >= k - 1
  /\ \A c \in proven : c.backend = "sftp" => LoginOK(c) /\ dirs = Depth

(* An attempt that began with a tested configuration still uses it.          *)
SureOK == sure => (at["upload"] # Idle => running \in proven) /\ at["upload"][1] # "mkdir"

(* Only the last answer is missing: the picture is whole.                    *)
SentOK == at["upload"] = <<"confirm", 0>> => remote[running.backend] = "whole"

IInv == TypeOK /\ TriesOK /\ PlacesOK /\ PathOK /\ SureOK /\ SentOK /\ DoneIsWhole
        /\ TestPredictsUpload
-----------------------------------------------------------------------------
(* Every step preserves the type.                                            *)
LEMMA TypeStep ==
  ASSUME TypeOK, TriesOK, [Next]_vars
  PROVE  (TypeOK /\ TriesOK)'
<1> USE DeliveryAssumption
    DEF TypeOK, Actors, Idle, Steps, TriesOK, config, server, queue, test, attempt
<1>1. ASSUME NEW a \in Actors, Connect(a) PROVE (TypeOK /\ TriesOK)'
  BY <1>1 DEF Connect, Goes
<1>2. ASSUME NEW a \in Actors, Login(a) PROVE (TypeOK /\ TriesOK)'
  BY <1>2 DEF Login, Goes, Granted
<1>3. ASSUME NEW a \in Actors, LoginFails(a) PROVE (TypeOK /\ TriesOK)'
  BY <1>3 DEF LoginFails, Fails, Granted, AfterFailure
<1>4. ASSUME NEW a \in Actors, OpenSftp(a) PROVE (TypeOK /\ TriesOK)'
  BY <1>4 DEF OpenSftp, Goes
<1>5. ASSUME NEW a \in Actors, NetworkDrops(a) PROVE (TypeOK /\ TriesOK)'
  BY <1>5 DEF NetworkDrops, Fails, Troubled, AfterFailure
<1>6. ASSUME NEW a \in Actors, NEW k \in 1 .. Depth, Stat(a, k)
      PROVE  (TypeOK /\ TriesOK)'
  BY <1>6 DEF Stat, Enters, AfterSegment
<1>7. ASSUME NEW a \in Actors, NEW k \in 1 .. Depth, StatFails(a, k)
      PROVE  (TypeOK /\ TriesOK)'
  BY <1>7 DEF StatFails, Goes
<1>8. ASSUME NEW a \in Actors, NEW k \in 1 .. Depth, Mkdir(a, k)
      PROVE  (TypeOK /\ TriesOK)'
  BY <1>8 DEF Mkdir, Enters, AfterSegment
<1>9. ASSUME NEW a \in Actors, NEW k \in 1 .. Depth, MkdirFails(a, k)
      PROVE  (TypeOK /\ TriesOK)'
  BY <1>9 DEF MkdirFails, Fails, AfterFailure
<1>10. CASE Claim
  BY <1>10 DEF Claim, Goes
<1>11. CASE Truncate
  BY <1>11 DEF Truncate, Goes, Holds
<1>12. CASE PutFails
  <2>1. at["upload"] # Idle
    BY <1>12 DEF PutFails
  <2>2. \E reason \in {"file", "locked"} : Fails("upload", reason)
    BY <1>12 DEF PutFails
  <2> QED
    BY <1>12, <2>1, <2>2 DEF PutFails, Fails, AfterFailure
<1>13. CASE Sent
  BY <1>13 DEF Sent, Goes, Holds
<1>14. CASE Confirmed
  BY <1>14 DEF Confirmed, UploadDone
<1>15. CASE Copied
  BY <1>15 DEF Copied, UploadDone, Holds
<1>16. CASE Uploaded
  BY <1>16 DEF Uploaded, UploadDone, Holds
<1>17. CASE CopyFails
  BY <1>17 DEF CopyFails, Fails, Troubled, AfterFailure
<1>18. CASE AskTest
  BY <1>18 DEF AskTest
<1>19. CASE Save
  BY <1>19 DEF Save
<1>20. CASE Restart
  BY <1>20 DEF Restart
<1>21. CASE PowerLoss
  BY <1>21 DEF PowerLoss, Troubled
<1>22. CASE FileDeleted
  BY <1>22 DEF FileDeleted
<1>23. CASE UNCHANGED vars
  BY <1>23 DEF vars
<1> HIDE DEF TypeOK, TriesOK
<1> QED
  BY <1>1, <1>2, <1>3, <1>4, <1>5, <1>6, <1>7, <1>8, <1>9, <1>10, <1>11, <1>12,
     <1>13, <1>14, <1>15, <1>16, <1>17, <1>18, <1>19, <1>20, <1>21, <1>22, <1>23
     DEF Next, Connecting, Uploading

(* An actor that is logged in has a configuration that the server takes.     *)
LEMMA PlacesStep ==
  ASSUME TypeOK, PlacesOK, [Next]_vars
  PROVE  PlacesOK'
<1> USE DeliveryAssumption DEF TypeOK, Actors, Idle, Steps, PlacesOK, LoggedIn,
    LoginOK, Granted, Uses, config, server, queue, test, attempt
<1>1. ASSUME NEW a \in Actors, Connect(a) PROVE PlacesOK'
  BY <1>1 DEF Connect, Goes
<1>2. ASSUME NEW a \in Actors, Login(a) PROVE PlacesOK'
  <2>1. CASE Granted(a, Uses(a).auth) /\ Goes(a, <<"login", 0>>, <<"session", 0>>)
    BY <1>2, <2>1 DEF Login, Goes
  <2>2. CASE /\ ~Granted(a, Uses(a).auth) /\ Uses(a).auth = "password"
             /\ Goes(a, <<"login", 0>>, <<"interactive", 0>>)
    BY <1>2, <2>2 DEF Login, Goes
  <2>3. CASE Granted(a, "interactive") /\ Goes(a, <<"interactive", 0>>, <<"session", 0>>)
    BY <1>2, <2>3 DEF Login, Goes
  <2> QED
    BY <1>2, <2>1, <2>2, <2>3 DEF Login
<1>3. ASSUME NEW a \in Actors, LoginFails(a) PROVE PlacesOK'
  BY <1>3 DEF LoginFails, Fails, Granted
<1>4. ASSUME NEW a \in Actors, OpenSftp(a) PROVE PlacesOK'
  BY <1>4 DEF OpenSftp, Goes
<1>5. ASSUME NEW a \in Actors, NetworkDrops(a) PROVE PlacesOK'
  BY <1>5 DEF NetworkDrops, Fails, Troubled
<1>6. ASSUME NEW a \in Actors, NEW k \in 1 .. Depth, Stat(a, k)
      PROVE  PlacesOK'
  BY <1>6 DEF Stat, Enters, AfterSegment
<1>7. ASSUME NEW a \in Actors, NEW k \in 1 .. Depth, StatFails(a, k)
      PROVE  PlacesOK'
  BY <1>7 DEF StatFails, Goes
<1>8. ASSUME NEW a \in Actors, NEW k \in 1 .. Depth, Mkdir(a, k)
      PROVE  PlacesOK'
  BY <1>8 DEF Mkdir, Enters, AfterSegment
<1>9. ASSUME NEW a \in Actors, NEW k \in 1 .. Depth, MkdirFails(a, k)
      PROVE  PlacesOK'
  BY <1>9 DEF MkdirFails, Fails
<1>10. CASE Claim
  BY <1>10 DEF Claim, Goes
<1>11. CASE Truncate
  BY <1>11 DEF Truncate, Goes, Holds
<1>12. CASE PutFails
  BY <1>12 DEF PutFails, Fails
<1>13. CASE Sent
  BY <1>13 DEF Sent, Goes, Holds
<1>14. CASE Confirmed
  BY <1>14 DEF Confirmed, UploadDone
<1>15. CASE Copied
  BY <1>15 DEF Copied, UploadDone, Holds
<1>16. CASE Uploaded
  BY <1>16 DEF Uploaded, UploadDone, Holds
<1>17. CASE CopyFails
  BY <1>17 DEF CopyFails, Fails, Troubled
<1>18. CASE AskTest
  BY <1>18 DEF AskTest
<1>19. CASE Save
  BY <1>19 DEF Save
<1>20. CASE Restart
  BY <1>20 DEF Restart
<1>21. CASE PowerLoss
  BY <1>21 DEF PowerLoss, Troubled
<1>22. CASE FileDeleted
  BY <1>22 DEF FileDeleted
<1>23. CASE UNCHANGED vars
  BY <1>23 DEF vars
<1> HIDE DEF TypeOK, PlacesOK
<1> QED
  BY <1>1, <1>2, <1>3, <1>4, <1>5, <1>6, <1>7, <1>8, <1>9, <1>10, <1>11, <1>12,
     <1>13, <1>14, <1>15, <1>16, <1>17, <1>18, <1>19, <1>20, <1>21, <1>22, <1>23
     DEF Next, Connecting, Uploading

(* Directories stay, and a test has made or found them all.                  *)
LEMMA PathStep ==
  ASSUME TypeOK, PlacesOK, PathOK, [Next]_vars
  PROVE  PathOK'
<1> USE DeliveryAssumption DEF TypeOK, Actors, Idle, Steps, PlacesOK, PathOK,
    LoggedIn, LoginOK, Uses, config, server, queue, test, attempt
<1>1. ASSUME NEW a \in Actors, Connect(a) PROVE PathOK'
  BY <1>1 DEF Connect, Goes
<1>2. ASSUME NEW a \in Actors, Login(a) PROVE PathOK'
  BY <1>2 DEF Login, Goes, Granted
<1>3. ASSUME NEW a \in Actors, LoginFails(a) PROVE PathOK'
  BY <1>3 DEF LoginFails, Fails, Granted
<1>4. ASSUME NEW a \in Actors, OpenSftp(a) PROVE PathOK'
  BY <1>4 DEF OpenSftp, Goes
<1>5. ASSUME NEW a \in Actors, NetworkDrops(a) PROVE PathOK'
  BY <1>5 DEF NetworkDrops, Fails, Troubled
<1>6. ASSUME NEW a \in Actors, NEW k \in 1 .. Depth, Stat(a, k)
      PROVE  PathOK'
  BY <1>6 DEF Stat, Enters, AfterSegment
<1>7. ASSUME NEW a \in Actors, NEW k \in 1 .. Depth, StatFails(a, k)
      PROVE  PathOK'
  BY <1>7 DEF StatFails, Goes
<1>8. ASSUME NEW a \in Actors, NEW k \in 1 .. Depth, Mkdir(a, k)
      PROVE  PathOK'
  BY <1>8 DEF Mkdir, Enters, AfterSegment
<1>9. ASSUME NEW a \in Actors, NEW k \in 1 .. Depth, MkdirFails(a, k)
      PROVE  PathOK'
  BY <1>9 DEF MkdirFails, Fails
<1>10. CASE Claim
  BY <1>10 DEF Claim, Goes
<1>11. CASE Truncate
  BY <1>11 DEF Truncate, Goes, Holds
<1>12. CASE PutFails
  BY <1>12 DEF PutFails, Fails
<1>13. CASE Sent
  BY <1>13 DEF Sent, Goes, Holds
<1>14. CASE Confirmed
  BY <1>14 DEF Confirmed, UploadDone
<1>15. CASE Copied
  BY <1>15 DEF Copied, UploadDone, Holds
<1>16. CASE Uploaded
  BY <1>16 DEF Uploaded, UploadDone, Holds
<1>17. CASE CopyFails
  BY <1>17 DEF CopyFails, Fails, Troubled
<1>18. CASE AskTest
  BY <1>18 DEF AskTest
<1>19. CASE Save
  BY <1>19 DEF Save
<1>20. CASE Restart
  BY <1>20 DEF Restart
<1>21. CASE PowerLoss
  BY <1>21 DEF PowerLoss, Troubled
<1>22. CASE FileDeleted
  BY <1>22 DEF FileDeleted
<1>23. CASE UNCHANGED vars
  BY <1>23 DEF vars
<1> HIDE DEF TypeOK, PlacesOK, PathOK
<1> QED
  BY <1>1, <1>2, <1>3, <1>4, <1>5, <1>6, <1>7, <1>8, <1>9, <1>10, <1>11, <1>12,
     <1>13, <1>14, <1>15, <1>16, <1>17, <1>18, <1>19, <1>20, <1>21, <1>22, <1>23
     DEF Next, Connecting, Uploading

(* A tested attempt keeps its configuration and makes no directory.          *)
LEMMA SureStep ==
  ASSUME TypeOK, PlacesOK, PathOK, SureOK, [Next]_vars
  PROVE  SureOK'
<1> USE DeliveryAssumption DEF TypeOK, Actors, Idle, Steps, PlacesOK, LoggedIn,
    PathOK, SureOK, config, server, queue, test, attempt
<1>1. ASSUME NEW a \in Actors, Connect(a) PROVE SureOK'
  BY <1>1 DEF Connect, Goes
<1>2. ASSUME NEW a \in Actors, Login(a) PROVE SureOK'
  BY <1>2 DEF Login, Goes, Granted
<1>3. ASSUME NEW a \in Actors, LoginFails(a) PROVE SureOK'
  BY <1>3 DEF LoginFails, Fails, Granted
<1>4. ASSUME NEW a \in Actors, OpenSftp(a) PROVE SureOK'
  BY <1>4 DEF OpenSftp, Goes
<1>5. ASSUME NEW a \in Actors, NetworkDrops(a) PROVE SureOK'
  BY <1>5 DEF NetworkDrops, Fails, Troubled
<1>6. ASSUME NEW a \in Actors, NEW k \in 1 .. Depth, Stat(a, k)
      PROVE  SureOK'
  BY <1>6 DEF Stat, Enters, AfterSegment
<1>7. ASSUME NEW a \in Actors, NEW k \in 1 .. Depth, StatFails(a, k)
      PROVE  SureOK'
  BY <1>7 DEF StatFails, Goes
<1>8. ASSUME NEW a \in Actors, NEW k \in 1 .. Depth, Mkdir(a, k)
      PROVE  SureOK'
  BY <1>8 DEF Mkdir, Enters, AfterSegment
<1>9. ASSUME NEW a \in Actors, NEW k \in 1 .. Depth, MkdirFails(a, k)
      PROVE  SureOK'
  BY <1>9 DEF MkdirFails, Fails
<1>10. CASE Claim
  BY <1>10 DEF Claim, Goes
<1>11. CASE Truncate
  BY <1>11 DEF Truncate, Goes, Holds
<1>12. CASE PutFails
  <2>1. at["upload"] # Idle
    BY <1>12 DEF PutFails
  <2>2. \E reason \in {"file", "locked"} : Fails("upload", reason)
    BY <1>12 DEF PutFails
  <2> QED
    BY <1>12, <2>1, <2>2 DEF PutFails, Fails
<1>13. CASE Sent
  BY <1>13 DEF Sent, Goes, Holds
<1>14. CASE Confirmed
  BY <1>14 DEF Confirmed, UploadDone
<1>15. CASE Copied
  BY <1>15 DEF Copied, UploadDone, Holds
<1>16. CASE Uploaded
  BY <1>16 DEF Uploaded, UploadDone, Holds
<1>17. CASE CopyFails
  BY <1>17 DEF CopyFails, Fails, Troubled
<1>18. CASE AskTest
  BY <1>18 DEF AskTest
<1>19. CASE Save
  BY <1>19 DEF Save
<1>20. CASE Restart
  BY <1>20 DEF Restart
<1>21. CASE PowerLoss
  BY <1>21 DEF PowerLoss, Troubled
<1>22. CASE FileDeleted
  BY <1>22 DEF FileDeleted
<1>23. CASE UNCHANGED vars
  BY <1>23 DEF vars
<1> HIDE DEF TypeOK, PlacesOK, PathOK, SureOK
<1> QED
  BY <1>1, <1>2, <1>3, <1>4, <1>5, <1>6, <1>7, <1>8, <1>9, <1>10, <1>11, <1>12,
     <1>13, <1>14, <1>15, <1>16, <1>17, <1>18, <1>19, <1>20, <1>21, <1>22, <1>23
     DEF Next, Connecting, Uploading

(* Nothing truncates the picture between the last write and its answer.      *)
LEMMA SentStep ==
  ASSUME TypeOK, PlacesOK, SentOK, [Next]_vars
  PROVE  SentOK'
<1> USE DeliveryAssumption DEF TypeOK, Actors, Idle, SentOK, config, server,
    queue, test, attempt
<1>1. ASSUME NEW a \in Actors, Connect(a) PROVE SentOK'
  BY <1>1 DEF Connect, Goes
<1>2. ASSUME NEW a \in Actors, Login(a) PROVE SentOK'
  BY <1>2 DEF Login, Goes, Granted
<1>3. ASSUME NEW a \in Actors, LoginFails(a) PROVE SentOK'
  BY <1>3 DEF LoginFails, Fails, Granted
<1>4. ASSUME NEW a \in Actors, OpenSftp(a) PROVE SentOK'
  BY <1>4 DEF OpenSftp, Goes
<1>5. ASSUME NEW a \in Actors, NetworkDrops(a) PROVE SentOK'
  BY <1>5 DEF NetworkDrops, Fails, Troubled
<1>6. ASSUME NEW a \in Actors, NEW k \in 1 .. Depth, Stat(a, k)
      PROVE  SentOK'
  BY <1>6 DEF Stat, Enters, AfterSegment
<1>7. ASSUME NEW a \in Actors, NEW k \in 1 .. Depth, StatFails(a, k)
      PROVE  SentOK'
  BY <1>7 DEF StatFails, Goes
<1>8. ASSUME NEW a \in Actors, NEW k \in 1 .. Depth, Mkdir(a, k)
      PROVE  SentOK'
  BY <1>8 DEF Mkdir, Enters, AfterSegment
<1>9. ASSUME NEW a \in Actors, NEW k \in 1 .. Depth, MkdirFails(a, k)
      PROVE  SentOK'
  BY <1>9 DEF MkdirFails, Fails
<1>10. CASE Claim
  BY <1>10 DEF Claim, Goes
<1>11. CASE Truncate
  BY <1>11 DEF Truncate, Goes, Holds
<1>12. CASE PutFails
  BY <1>12 DEF PutFails, Fails
<1>13. CASE Sent
  BY <1>13 DEF Sent, Goes, Holds
<1>14. CASE Confirmed
  BY <1>14 DEF Confirmed, UploadDone
<1>15. CASE Copied
  BY <1>15 DEF Copied, UploadDone, Holds
<1>16. CASE Uploaded
  BY <1>16 DEF Uploaded, UploadDone, Holds
<1>17. CASE CopyFails
  BY <1>17 DEF CopyFails, Fails, Troubled
<1>18. CASE AskTest
  BY <1>18 DEF AskTest
<1>19. CASE Save
  BY <1>19 DEF Save
<1>20. CASE Restart
  BY <1>20 DEF Restart
<1>21. CASE PowerLoss
  BY <1>21 DEF PowerLoss, Troubled
<1>22. CASE FileDeleted
  BY <1>22 DEF FileDeleted
<1>23. CASE UNCHANGED vars
  BY <1>23 DEF vars
<1> HIDE DEF TypeOK, SentOK
<1> QED
  BY <1>1, <1>2, <1>3, <1>4, <1>5, <1>6, <1>7, <1>8, <1>9, <1>10, <1>11, <1>12,
     <1>13, <1>14, <1>15, <1>16, <1>17, <1>18, <1>19, <1>20, <1>21, <1>22, <1>23
     DEF Next, Connecting, Uploading

(* A job ends as done only when its picture is whole, and the picture stays. *)
LEMMA DoneStep ==
  ASSUME TypeOK, SentOK, DoneIsWhole, [Next]_vars
  PROVE  DoneIsWhole'
<1> USE DeliveryAssumption DEF TypeOK, Actors, Idle, SentOK, DoneIsWhole,
    config, server, queue, test, attempt
<1>1. ASSUME NEW a \in Actors, Connect(a) PROVE DoneIsWhole'
  BY <1>1 DEF Connect, Goes
<1>2. ASSUME NEW a \in Actors, Login(a) PROVE DoneIsWhole'
  BY <1>2 DEF Login, Goes, Granted
<1>3. ASSUME NEW a \in Actors, LoginFails(a) PROVE DoneIsWhole'
  BY <1>3 DEF LoginFails, Fails, Granted, AfterFailure
<1>4. ASSUME NEW a \in Actors, OpenSftp(a) PROVE DoneIsWhole'
  BY <1>4 DEF OpenSftp, Goes
<1>5. ASSUME NEW a \in Actors, NetworkDrops(a) PROVE DoneIsWhole'
  BY <1>5 DEF NetworkDrops, Fails, Troubled, AfterFailure
<1>6. ASSUME NEW a \in Actors, NEW k \in 1 .. Depth, Stat(a, k)
      PROVE  DoneIsWhole'
  BY <1>6 DEF Stat, Enters, AfterSegment
<1>7. ASSUME NEW a \in Actors, NEW k \in 1 .. Depth, StatFails(a, k)
      PROVE  DoneIsWhole'
  BY <1>7 DEF StatFails, Goes
<1>8. ASSUME NEW a \in Actors, NEW k \in 1 .. Depth, Mkdir(a, k)
      PROVE  DoneIsWhole'
  BY <1>8 DEF Mkdir, Enters, AfterSegment
<1>9. ASSUME NEW a \in Actors, NEW k \in 1 .. Depth, MkdirFails(a, k)
      PROVE  DoneIsWhole'
  BY <1>9 DEF MkdirFails, Fails, AfterFailure
<1>10. CASE Claim
  BY <1>10 DEF Claim, Goes
<1>11. CASE Truncate
  BY <1>11 DEF Truncate, Goes, Holds
<1>12. CASE PutFails
  BY <1>12 DEF PutFails, Fails, AfterFailure
<1>13. CASE Sent
  BY <1>13 DEF Sent, Goes, Holds
<1>14. CASE Confirmed
  BY <1>14 DEF Confirmed, UploadDone
<1>15. CASE Copied
  BY <1>15 DEF Copied, UploadDone, Holds
<1>16. CASE Uploaded
  BY <1>16 DEF Uploaded, UploadDone, Holds
<1>17. CASE CopyFails
  BY <1>17 DEF CopyFails, Fails, Troubled, AfterFailure
<1>18. CASE AskTest
  BY <1>18 DEF AskTest
<1>19. CASE Save
  BY <1>19 DEF Save
<1>20. CASE Restart
  BY <1>20 DEF Restart
<1>21. CASE PowerLoss
  BY <1>21 DEF PowerLoss, Troubled
<1>22. CASE FileDeleted
  BY <1>22 DEF FileDeleted
<1>23. CASE UNCHANGED vars
  BY <1>23 DEF vars
<1> HIDE DEF TypeOK, SentOK, DoneIsWhole
<1> QED
  BY <1>1, <1>2, <1>3, <1>4, <1>5, <1>6, <1>7, <1>8, <1>9, <1>10, <1>11, <1>12,
     <1>13, <1>14, <1>15, <1>16, <1>17, <1>18, <1>19, <1>20, <1>21, <1>22, <1>23
     DEF Next, Connecting, Uploading

(* A tested attempt fails neither at the login nor at a directory.           *)
LEMMA PredictStep ==
  ASSUME TypeOK, PlacesOK, PathOK, SureOK, TestPredictsUpload, [Next]_vars
  PROVE  TestPredictsUpload'
<1> USE DEF TypeOK, Actors, Idle, PlacesOK, PathOK, SureOK, TestPredictsUpload,
    LoginOK, Uses, config, server, queue, test, attempt
<1>1. ASSUME NEW a \in Actors, Connect(a) PROVE TestPredictsUpload'
  BY <1>1 DEF Connect, Goes
<1>2. ASSUME NEW a \in Actors, Login(a) PROVE TestPredictsUpload'
  BY <1>2 DEF Login, Goes, Granted
<1>3. ASSUME NEW a \in Actors, LoginFails(a) PROVE TestPredictsUpload'
  BY <1>3 DEF LoginFails, Fails, Granted
<1>4. ASSUME NEW a \in Actors, OpenSftp(a) PROVE TestPredictsUpload'
  BY <1>4 DEF OpenSftp, Goes
<1>5. ASSUME NEW a \in Actors, NetworkDrops(a) PROVE TestPredictsUpload'
  BY <1>5 DEF NetworkDrops, Fails, Troubled
<1>6. ASSUME NEW a \in Actors, NEW k \in 1 .. Depth, Stat(a, k)
      PROVE  TestPredictsUpload'
  BY <1>6 DEF Stat, Enters, AfterSegment
<1>7. ASSUME NEW a \in Actors, NEW k \in 1 .. Depth, StatFails(a, k)
      PROVE  TestPredictsUpload'
  BY <1>7 DEF StatFails, Goes
<1>8. ASSUME NEW a \in Actors, NEW k \in 1 .. Depth, Mkdir(a, k)
      PROVE  TestPredictsUpload'
  BY <1>8 DEF Mkdir, Enters, AfterSegment
<1>9. ASSUME NEW a \in Actors, NEW k \in 1 .. Depth, MkdirFails(a, k)
      PROVE  TestPredictsUpload'
  BY <1>9 DEF MkdirFails, Fails
<1>10. CASE Claim
  BY <1>10 DEF Claim, Goes
<1>11. CASE Truncate
  BY <1>11 DEF Truncate, Goes, Holds
<1>12. CASE PutFails
  BY <1>12 DEF PutFails, Fails
<1>13. CASE Sent
  BY <1>13 DEF Sent, Goes, Holds
<1>14. CASE Confirmed
  BY <1>14 DEF Confirmed, UploadDone
<1>15. CASE Copied
  BY <1>15 DEF Copied, UploadDone, Holds
<1>16. CASE Uploaded
  BY <1>16 DEF Uploaded, UploadDone, Holds
<1>17. CASE CopyFails
  BY <1>17 DEF CopyFails, Fails, Troubled
<1>18. CASE AskTest
  BY <1>18 DEF AskTest
<1>19. CASE Save
  BY <1>19 DEF Save
<1>20. CASE Restart
  BY <1>20 DEF Restart
<1>21. CASE PowerLoss
  BY <1>21 DEF PowerLoss, Troubled
<1>22. CASE FileDeleted
  BY <1>22 DEF FileDeleted
<1>23. CASE UNCHANGED vars
  BY <1>23 DEF vars
<1> HIDE DEF TypeOK, PlacesOK, PathOK, SureOK, TestPredictsUpload
<1> QED
  BY <1>1, <1>2, <1>3, <1>4, <1>5, <1>6, <1>7, <1>8, <1>9, <1>10, <1>11, <1>12,
     <1>13, <1>14, <1>15, <1>16, <1>17, <1>18, <1>19, <1>20, <1>21, <1>22, <1>23
     DEF Next, Connecting, Uploading

(* The invariant holds in every reachable state.                             *)
LEMMA Invariance == Spec => []IInv
<1>1. ASSUME Init PROVE IInv
  <2> USE <1>1, DeliveryAssumption DEF Init, Idle, Actors
  <2>1. TypeOK
    <3>1. /\ 0 \in 0 .. MaxAttempts /\ 0 \in 0 .. Depth
          /\ 0 \in 0 .. MaxSaves /\ 0 \in 0 .. MaxTrouble
      OBVIOUS
    <3>2. accepts \subseteq {"key", "password", "interactive"}
      OBVIOUS
    <3>3. at \in [Actors -> Steps]
      BY DEF Steps
    <3> QED
      BY <3>1, <3>2, <3>3 DEF TypeOK
  <2>4. TriesOK
    BY DEF TriesOK
  <2>2. PlacesOK /\ PathOK
    BY DEF PlacesOK, PathOK, LoggedIn
  <2>3. SureOK /\ SentOK /\ DoneIsWhole /\ TestPredictsUpload
    BY DEF SureOK, SentOK, DoneIsWhole, TestPredictsUpload
  <2> QED
    BY <2>1, <2>2, <2>3, <2>4 DEF IInv
<1>2. IInv /\ [Next]_vars => IInv'
  BY TypeStep, PlacesStep, PathStep, SureStep, SentStep, DoneStep, PredictStep DEF IInv
<1> QED
  BY <1>1, <1>2, PTL DEF Spec
-----------------------------------------------------------------------------
(* Type correctness (backend.py:58-284).                                     *)
THEOREM TypeCorrect == Spec => []TypeOK
  BY Invariance, PTL DEF IInv

(* A job that is done has its picture whole at a backend, for any number of  *)
(* attempts and failures (backend.py:106-119, worker.py:92-105).             *)
THEOREM DoneMeansWhole == Spec => []DoneIsWhole
  BY Invariance, PTL DEF IInv

(* A test that passed stands for the uploads with the same configuration,    *)
(* for any path and any order of saves, tests and restarts                   *)
(* (admin.py:440-464, backend.py:191-235).                                   *)
THEOREM TestStandsForUploads == Spec => []TestPredictsUpload
  BY Invariance, PTL DEF IInv
=============================================================================
