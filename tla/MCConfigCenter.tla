--------------------------- MODULE MCConfigCenter ---------------------------
(* An instance of ConfigCenter for TLC. *)
EXTENDS ConfigCenter, TLC

\* Value 3 of runtime.toml turns off a connection that value 3 of agent.toml
\* uses, and turns one on that needs the secret; value 3 of models.json
\* disables a model of its route.
MCEnabled == {c \in Config : ~(c["agent"] = 3 /\ c["models"] = 3)}
MCConnected == {c \in Config : ~(c["agent"] = 3 /\ c["runtime"] = 3)}
MCStartable == {c \in MCEnabled \cap MCConnected :
                  /\ c["runtime"] \in Values /\ c["agent"] \in Values
                  /\ c["runtime"] = 3 => c["secret"] # Missing}

\* One of before models.json and secrets, a new installation, and one whose
\* runtime.toml names a secret that it has not got.
MCFound == {[d \in Files |-> IF d = "models" THEN Missing ELSE 2],
            [d \in Files |-> Missing],
            [d \in Files |-> IF d = "runtime" THEN 3 ELSE IF d = "agent" THEN 2 ELSE Missing]}

MCSymmetry == Permutations(Web)
=============================================================================
