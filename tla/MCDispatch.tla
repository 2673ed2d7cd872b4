----------------------------- MODULE MCDispatch -----------------------------
(* Small universes of patterns and paths for Dispatch.                     *)
EXTENDS Dispatch

(* {name:[0-9]+} and {name:[a-z0-9]+} over the parts "7" and "a".          *)
Digits(name) == Regex(<<name>>, "[0-9]+", [p \in {"7"} |-> <<p>>], "")
AlphaNum(name) == Regex(<<name>>, "[a-z0-9]+", [p \in {"7", "a"} |-> <<p>>], "")

(* The composite parts {id:[0-9]+}.json and {id:[a-z0-9]+}.json.           *)
JsonDigits ==
    <<Regex(<<"id">>, "[0-9]+.json", [p \in {"7.json"} |-> <<"7">>], "{}.json")>>
JsonAlphaNum ==
    <<Regex(<<"id">>, "[a-z0-9]+.json",
            [p \in {"7.json", "a.json"} |-> IF p = "7.json" THEN <<"7">> ELSE <<"a">>],
            "{}.json")>>

MCMethods == {"GET", "POST"}
OneMethod == {"GET"}
MCRoot == {<<>>}

(* Literals, parameters, regular expressions and wildcards that overlap.   *)
RoutingPatterns ==
    { RootText,
      <<Parameter("id")>>,
      <<Digits("id")>>,
      <<Wildcard("*")>>,
      <<Parameter("x"), Static("b")>> }
RoutingPaths == { <<"">>, <<"7">>, <<"a", "">>, <<"a", "b">> }

(* Patterns of one shape: they conflict in Compile and some replace one    *)
(* another in the compatibility snapshot.                                  *)
ConflictPatterns ==
    { <<Parameter("id")>>, <<Parameter("name")>>, <<Digits("id")>>, <<AlphaNum("id")>>,
      <<Static("a"), Wildcard("rest")>>, <<Static("a"), Static("")>>,
      JsonDigits, JsonAlphaNum }
ConflictPaths == { <<"a">>, <<"7">>, <<"a", "">>, <<"v", "a", "b">>, <<"a.json">> }

(* A child whose prefix holds a parameter, which its patterns may repeat.  *)
ParameterPrefixes == { <<>>, <<Parameter("id")>> }

(* Children with a static, a nested and a parameter prefix.                *)
NestedPrefixes ==
    { <<>>, <<Static("a")>>, <<Static("a"), Static("b")>>, <<Parameter("id")>> }
NoPrefix == {}
=============================================================================
