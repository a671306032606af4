---------------------------- MODULE ClarityValue ----------------------------
(***************************************************************************)
(* Clarity values as the service meets them: a type next to its data, and  *)
(* the accessors of src/stacks/clarity.rs.  Values are turned into hex and *)
(* back on the wire; a call carries the value itself.                      *)
(***************************************************************************)

UInt(n) == <<"uint", n>>
Principal(p) == <<"principal", p>>
Buff(bytes) == <<"buff", bytes>>
NoValue == <<"optional", << >>>>
Some(v) == <<"optional", <<v>>>>
List(values) == <<"list", values>>
Tuple(fields) == <<"tuple", fields>>
Response(v) == <<"response", v>>
CallableContract(contract, trait) == <<"callable", contract, trait>>

TypeOf(v) == v[1]
DataOf(v) == v[2]

\* ClarityTuple::try_from.
IsTuple(v) == TypeOf(v) = "tuple"

\* remove_buff, remove_list, remove_option, remove_principal, remove_uint: a
\* field of another type counts as missing.
Holds(v, field, type) ==
  /\ IsTuple(v)
  /\ field \in DOMAIN DataOf(v)
  /\ TypeOf(DataOf(v)[field]) = type

Field(v, field) == DataOf(DataOf(v)[field])
=============================================================================
