------------------------------- MODULE MCApi -------------------------------
(***************************************************************************)
(* The instances of Api that TLC checks: threads t1 and t2 of server api1, *)
(* which has client 1, and thread t3 of api2, which has client 2.          *)
(***************************************************************************)
EXTENDS Api, TLC

CONSTANTS api1, api2, w1, w2, w3, t1, t2, t3, c1, c2

\* docker-compose.yml: SERVER_WORKERS=1.
OneWorkerEach == w1 :> api1 @@ w2 :> api2
TwoServers == t1 :> w1 @@ t2 :> w1 @@ t3 :> w2

\* README.md:121: several worker processes behind one server.
TwoWorkers == w1 :> api1 @@ w2 :> api1
OneThreadEach == t1 :> w1 @@ t2 :> w2

\* nginx.conf: each client has one server.
Locations == c1 :> api1 @@ c2 :> api2
OnlyApi1 == c1 :> api1

OneServer == t1 :> w1 @@ t2 :> w1
OneWorker == w1 :> api1

Symmetry == Permutations({t1, t2})

Limites == c1 :> 2 @@ c2 :> 2
LimiteC1 == c1 :> 2
Amounts == {1, 2}
=============================================================================
