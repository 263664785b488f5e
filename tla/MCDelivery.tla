----------------------------- MODULE MCDelivery -----------------------------
(* Instances of Delivery: each backend, and SFTP with a right and a wrong    *)
(* password and with a key.                                                  *)
EXTENDS Delivery

Config(backend, auth, secret) == [backend |-> backend, auth |-> auth, secret |-> secret]
AllConfigs == {Config("local", "password", TRUE), Config("s3", "password", TRUE),
               Config("sftp", "password", TRUE), Config("sftp", "password", FALSE),
               Config("sftp", "key", TRUE)}
=============================================================================
