------------------------------ MODULE MC_ClientRx ------------------------------
(* Instantiates ClientRx for TLC: two element names, an index or none and *)
(* one text for status/config sections; two device names, one variable    *)
(* name, one index and one enum value for structures; one error text.     *)
EXTENDS ClientRx

MCNames == {"board", "gain"}
\* a register block whose name is also a category name
MCNamesCategory == {"board", "status"}
MCIndexes == {"", "2"}
MCTexts == {"7"}
MCDevNames == {"Dpm", "Reg"}
MCVarNames == {"gain"}
MCIndexVals == {"0"}
MCEnumVals == {"a"}
\* the sub-elements of a variable, with and without <perInstance>
MCFields == {"name", "type", "enum", "hidden"}
MCFieldsPerInstance == {"name", "type", "perInstance"}
MCErrorTexts == {"bad"}
=============================================================================
