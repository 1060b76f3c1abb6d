---------------------------- MODULE MCAsyncSrb -----------------------------
EXTENDS AsyncSrb, TLC

CONSTANTS a, b, c
MCSrbs == {a, b, c}
MCKinds == {(a :> "login") @@ (b :> "tmf") @@ (c :> "els_host"),
            (a :> "adisc") @@ (b :> "abort") @@ (c :> "ct"),
            (a :> "tmf") @@ (b :> "abort") @@ (c :> "els_rport"),
            (a :> "login") @@ (b :> "logout") @@ (c :> "tmf")}
=============================================================================
