--------------------------- MODULE MCApplication ---------------------------
(* Instances of Application in the memory layout of mm/image.h: a program   *)
(* with room for one heap paragraph, one whose data reach the stack, and    *)
(* one that is a byte too long; arguments that fill the stack area, and     *)
(* arguments that are a byte too long.                                      *)
EXTENDS Application, TLC

Text == 1077772288          \* 0x403d8000
TextEnd == Text + 16384
Data == 1070514176          \* 0x3fcec000
Stack == Data + 12288
Top == Stack + 4096

ProgramFile(memsz) ==
  [size |-> 300, magic |-> TRUE, phoff |-> 52, entry |-> Text + 4,
   text |-> [kind |-> TRUE, offset |-> 128, address |-> Text, filesz |-> 64, memsz |-> 64,
             align |-> 4],
   data |-> [kind |-> TRUE, offset |-> 192, address |-> Data, filesz |-> 40, memsz |-> memsz,
             align |-> 4]]

ProgramFiles == "sh" :> ProgramFile(12288 - 20) @@ "ls" :> ProgramFile(12288)
                  @@ "big" :> ProgramFile(12289)

EnvLengths == <<6, 10, 9>>            \* HOME=/ PATH=/boot USER=root
ArgLengths == {<<455>>, <<456>>}
Steps == {0 - 16, 16, 32}

AllOps == {"exit", "getpid", "getppid", "other", "fork", "badfork", "wait", "exec", "sbrk"}
=============================================================================
