----------------------------- MODULE MCTransform -----------------------------
(* Small fields that have roots for sizes up to 16; for the scalar adapter
   a radix of 1 (Barrett) and others (Montgomery). *)
EXTENDS Transform

Domain(type, modulus, size, omega, psi) ==
  [type |-> type, q |-> modulus, n |-> size, omega |-> omega, psi |-> psi]

Cyclic == {Domain("cyclic", 3, 1, 1, 0), Domain("cyclic", 5, 2, 4, 0),
           Domain("cyclic", 5, 4, 2, 0), Domain("cyclic", 17, 8, 9, 0),
           Domain("cyclic", 17, 16, 3, 0)}

Negacyclic == {Domain("negacyclic", 3, 1, 1, 2), Domain("negacyclic", 5, 2, 4, 2),
               Domain("negacyclic", 17, 4, 4, 2), Domain("negacyclic", 17, 8, 9, 3),
               Domain("negacyclic", 97, 16, 8, 28)}

With(domain, name, r) ==
  [adapter |-> name, type |-> domain.type, q |-> domain.q, n |-> domain.n,
   omega |-> domain.omega, psi |-> domain.psi, radix |-> r]

MCContexts ==
  {With(x, "scalar", r) : x \in Cyclic \union Negacyclic, r \in {1, 2, 14}}
    \union {With(x, "toy", 1) : x \in Cyclic \union Negacyclic}
    \union {With(x, "naive", 1) : x \in Negacyclic}

NaiveCyclic == {With(x, "naive", 1) : x \in Cyclic}
BuiltinCyclic == {With(x, name, 1) : x \in Cyclic, name \in {"scalar", "toy"}}

\* All vectors where they are few, else single coefficients and a dense vector
MCInputs(x) ==
  IF x.n <= 2 THEN [0 .. x.n - 1 -> 0 .. x.q - 1]
  ELSE {[i \in 0 .. x.n - 1 |-> IF i = k THEN x.q - 1 ELSE 0] : k \in 0 .. x.n - 1}
         \union {[i \in 0 .. x.n - 1 |-> (3 * i * i + 7 * i + 2) % x.q]}
=============================================================================
