---------------------------- MODULE MCLocalStores ----------------------------
EXTENDS LocalStores, ProfileData
CONSTANTS u1, u2, a1, a2, bad1, bad2
UserSymmetry == Permutations(Users) \cup Permutations(SaIds) \cup Permutations(InvalidInfos)

\* Two devices for one user and one of them for another, two products, one icon.
Device1 == <<"d1", "x">>
Device2 == <<"d2", "x">>
Other2 == <<"d2", "y">>
MCDeviceKeys == {Device1, Device2, Other2}
MCProductKeys == {<<"product">>, <<"product2">>}
MCIconKeys == {<<"icon">>}
Item(k, i, r) == [key |-> k, info |-> i, rest |-> r]
MCFields == {"a", "b", "own", "cloud", "model", Unset}
Left(k, n, i, r) == [id |-> n, key |-> k, info |-> i, rest |-> r]
Rows == {Left(Device1, 1, "a", "cloud"), Left(<<"product">>, 1, "a", Unset)}
\* Calls that overlapped may have left two rows of a device in a table without its index.
MCStored == {Rows, Rows \cup {Left(Other2, 2, "a", Unset), Left(Other2, 3, "b", Unset)}}
MCPutRequests ==
    {<<Item(Device1, "b", Unset), Item(Device2, "a", "cloud")>>, <<Item(Other2, "a", Unset)>>,
     <<Item(<<"product">>, "b", Unset), Item(<<"product2">>, "a", Unset)>>,
     <<Item(<<"icon">>, "a", Unset)>>, <<Item(<<"icon">>, "b", "model")>>}
MCCollectRequests == {Item(Device1, "own", Unset)}
MCDeleteRequests == {<<Other2>>, <<Device1, Other2>>}

\* The tables of ProfileData and the other stores have no state in common: each is explored
\* while the other is at rest.
StoresInit == Init /\ DataInit
StoresSpec ==
    /\ StoresInit
    /\ [][\/ Next /\ requests = 0 /\ indexed = Tables /\ UNCHANGED dataVars
          \/ DataNext /\ events = 0 /\ table = "indexed" /\ UNCHANGED vars]_<<vars, dataVars>>
=============================================================================
