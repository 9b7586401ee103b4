---- MODULE MCAugmint ----
(* Two objects, a generated list and a hand-made environment. *)
EXTENDS Augmint, TLC

CONSTANTS M1, M2, M3, T1, T2, X1, X2, R1

At(contract, spelled) == [of |-> contract, spelled |-> spelled]
Entry(abi, contract, current, generated) ==
    [abi |-> abi, address |-> At(contract, "typed"), current |-> current, generated |-> generated]
Deployment(abi, contract) == [abi |-> abi, address |-> At(contract, "typed")]
Loan(id, contract, spelled, margin) ==
    [id |-> id, at |-> At(contract, spelled), margin |-> margin]

(* The newest loan manager is not the current one; X1 has a token of its   *)
(* own, T1, that is not the latest.                                        *)
MCGenerated ==
    [LoanManager |-> {Entry("lm", M1, FALSE, 3), Entry("lm", M2, TRUE, 2)},
     TokenAEur |-> {Entry("token", T1, FALSE, 1), Entry("token", T2, TRUE, 2)},
     Exchange |-> {Entry("exchange", X1, FALSE, 1), Entry("exchange", X2, TRUE, 2)},
     Rates |-> {Entry("rates", R1, TRUE, 1)}]

(* The same loan manager with an older ABI; its token is missing. *)
MCStubs ==
    {[LoanManager |-> <<Deployment("lmV0", M1)>>,
      TokenAEur |-> <<Deployment("token", T2)>>,
      Exchange |-> <<Deployment("exchange", X1)>>,
      Rates |-> <<Deployment("rates", R1)>>]}

MCLoanManagers == {M1, M2, M3}
MCTokenOf ==
    M1 :> At(T1, "checksum") @@ M2 :> At(T2, "checksum") @@ M3 :> At(T2, "checksum")
        @@ X1 :> At(T1, "checksum") @@ X2 :> At(T2, "checksum")
MCLoans == {Loan(1, M1, "checksum", FALSE), Loan(2, M1, "typed", TRUE),
            Loan(1, M2, "checksum", TRUE), Loan(3, M3, "checksum", FALSE)}
MCLoanLists ==
    UNION {[1 .. n -> MCLoans] : n \in 0 .. 2}
        \cup {[i \in 1 .. 3 |-> IF i = 2 THEN Loan(1, M2, "checksum", TRUE) ELSE l[i]] :
                l \in [1 .. 3 -> MCLoans]}
MCExchanges == {At(X1, "checksum"), At(X2, "typed")}

Symmetric == Permutations(Objects) \cup Permutations(Callers)
====
