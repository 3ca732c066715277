------------------------------ MODULE MCKprint ------------------------------
(* Instance of Kprint for TLC. *)
EXTENDS Kprint

SomeFormats ==
  {<<<<"c">>, <<"%", "i">>, <<"NL">>, <<"%", "s">>>>,   \* as sys_log
   <<<<"%", "x">>, <<"NL">>, <<"%", "i">>>>,            \* as page_fault
   <<<<"%", "s">>, <<"BS">>, <<"c">>, <<"%", "i">>>>,
   <<<<"BS">>, <<"c">>, <<"BS">>, <<"BS">>>>,
   <<<<"%", "b">>, <<"%", "s">>>>,
   <<<<"%", "%">>, <<"%", "s">>>>,
   <<<<"c">>, <<"%">>>>}
SomeTexts == {<<>>, <<"c", "NL", "c", "c">>}
=============================================================================
