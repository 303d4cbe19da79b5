------------------------------ MODULE Readline ------------------------------
(***************************************************************************)
(* The keyboard buffer of the readline server and of the serial server     *)
(* (user/progs/readline_common.c). Two threads share it: the interrupt     *)
(* loop puts the keys it is sent into a ring, and the request loop copies  *)
(* a line out of it for a client.                                          *)
(*                                                                         *)
(* Only the test whether to wait and the wake-up are under the mutex; the  *)
(* ring and its two counts are not, so each access that the other thread   *)
(* can tell apart is a step. Echoing, and the flag new_readline that only  *)
(* guides it, are left out. A request for more than READLINE_MAX_LEN       *)
(* characters changes nothing and is not a step; nothing refuses one for   *)
(* none, or for fewer.                                                     *)
(***************************************************************************)
EXTENDS Integers, FiniteSets

CONSTANTS Size,     (* KEYBOARD_BUFFER_SIZE                                          *)
          MaxLen,   (* READLINE_MAX_LEN                                              *)
          MaxDrift  (* bound: the counts drop no further below zero                  *)

ASSUME ReadlineConstants ==
    MaxLen \in Nat \ {0} /\ Size = 2 * MaxLen /\ MaxDrift \in Nat

Index == 0 .. Size - 1
Length == - MaxDrift .. MaxLen    (* what a client may ask for. Bound: a shorter     *)
                                  (* length is like - MaxDrift, the least num_chars  *)
                                  (* that handle_request finds                       *)
Char == {"letter", "newline"}                  (* what the ring holds                *)
Key == Char \cup {"backspace", "return"}       (* what the interrupt loop is sent    *)

VARIABLES
    producer, consumer, buffer, num_chars, num_newlines, user_buf_len,  (* keyboard_t *)
    at,       (* at["int"], at["req"]: where the two threads are                      *)
    key,      (* c of handle_char                                                     *)
    len,      (* len of handle_request                                                *)
    copied,   (* i of handle_request                                                  *)
    char,     (* buf[i] of handle_request                                             *)
    spoiled   (* history: one of the three races that CountsExact names has happened  *)

ring == <<producer, consumer, buffer>>
counts == <<num_chars, num_newlines>>
request == <<len, copied, char>>
vars == <<ring, counts, user_buf_len, at, key, request, spoiled>>

-----------------------------------------------------------------------------
(* Seeded fault: the index is not brought back to the start of the ring.            *)
NextIndex_NoWrap(i) == i + 1
NextIndex(i) == (i + 1) % Size
PrevIndex(i) == (i + Size - 1) % Size

(* The test of regular_char. Seeded fault: the ring is never full.                  *)
HasRoom_Always == TRUE
HasRoom == NextIndex(producer) # consumer

(* readline_ready. Seeded fault: a whole buffer of characters is one too few.       *)
ReadlineReady_Over ==
    user_buf_len # 0 /\ (num_newlines > 0 \/ num_chars > user_buf_len)
ReadlineReady ==
    user_buf_len # 0 /\ (num_newlines > 0 \/ num_chars >= user_buf_len)

(* cond_signal, with the one thread that ever waits. Seeded fault: it is forgotten. *)
Signalled_Never(place) == place
Signalled(place) == IF place = "wait" THEN "woken" ELSE place

Goto(t, place) == at' = [at EXCEPT ![t] = place]

(* The copying of n characters begins, or ends at once: for (i = 0; i < n; i++).    *)
StartCopy(n) == IF n > 0 THEN "take" ELSE "idle"

(* The request has been told to copy, and has not ended.                            *)
Copying(place) == place["req"] \in {"woken", "take", "count"}

(* A backspace is under way while the request copies. Nothing keeps the two apart.  *)
Spoils == at'["int"] \in {"erase", "back"} /\ Copying(at')

-----------------------------------------------------------------------------
Init == /\ producer = 0
        /\ consumer = 0
        /\ buffer = [i \in Index |-> "letter"]
        /\ num_chars = 0
        /\ num_newlines = 0
        /\ user_buf_len = 0
        /\ at = [int |-> "idle", req |-> "idle"]
        /\ key = "letter"
        /\ len = 1
        /\ copied = 0
        /\ char = "letter"
        /\ spoiled = FALSE

(* handle_char with c. A carriage return is ignored. Bound: newlines are typed      *)
(* until Size are counted.                                                          *)
HandleChar(c) ==
    /\ at["int"] = "idle"
    /\ c = "newline" => num_newlines < Size
    /\ c = "backspace" => num_chars > - MaxDrift
    /\ key' = c
    /\ Goto("int", CASE c \in Char -> "room"
                     [] c = "backspace" -> "any"
                     [] c = "return" -> "ready")
    /\ UNCHANGED <<ring, counts, user_buf_len, request, spoiled>>

(* regular_char: there is room, or the character is dropped.                        *)
FindRoom ==
    /\ at["int"] = "room"
    /\ Goto("int", IF HasRoom THEN "put" ELSE "line")
    /\ spoiled' = (spoiled \/ (~HasRoom /\ key = "newline"))
    /\ UNCHANGED <<ring, counts, user_buf_len, key, request>>

Put ==
    /\ at["int"] = "put"
    /\ buffer' = [buffer EXCEPT ![producer] = key]
    /\ producer' = NextIndex(producer)
    /\ Goto("int", "count")
    /\ UNCHANGED <<consumer, counts, user_buf_len, key, request, spoiled>>

CountChar ==
    /\ at["int"] = "count"
    /\ num_chars' = num_chars + 1
    /\ Goto("int", "line")
    /\ UNCHANGED <<ring, num_newlines, user_buf_len, key, request, spoiled>>

(* A newline is counted even if it was dropped.                                     *)
CountNewline ==
    /\ at["int"] = "line"
    /\ num_newlines' = IF key = "newline" THEN num_newlines + 1 ELSE num_newlines
    /\ Goto("int", "ready")
    /\ UNCHANGED <<ring, num_chars, user_buf_len, key, request, spoiled>>

(* backspace_char: the two tests, the count, and the index.                         *)
FindChar ==
    /\ at["int"] = "any"
    /\ Goto("int", IF num_chars = 0 \/ buffer[PrevIndex(producer)] = "newline"
                   THEN "ready" ELSE "erase")
    /\ spoiled' = (spoiled \/ Spoils)
    /\ UNCHANGED <<ring, counts, user_buf_len, key, request>>

UncountChar ==
    /\ at["int"] = "erase"
    /\ num_chars' = num_chars - 1
    /\ Goto("int", "back")
    /\ spoiled' = (spoiled \/ Spoils)
    /\ UNCHANGED <<ring, num_newlines, user_buf_len, key, request>>

Back ==
    /\ at["int"] = "back"
    /\ producer' = PrevIndex(producer)
    /\ Goto("int", "ready")
    /\ UNCHANGED <<consumer, buffer, counts, user_buf_len, key, request, spoiled>>

(* The end of handle_char, under the mutex: the request is woken.                   *)
Signal ==
    /\ at["int"] = "ready"
    /\ at["req"] # "test"
    /\ user_buf_len' = IF ReadlineReady THEN 0 ELSE user_buf_len
    /\ at' = [int |-> "idle",
              req |-> IF ReadlineReady THEN Signalled(at["req"]) ELSE at["req"]]
    /\ UNCHANGED <<ring, counts, key, request, spoiled>>

-----------------------------------------------------------------------------
(* handle_request takes the mutex and tests num_chars ...                           *)
HandleRequest(n) ==
    /\ at["req"] = "idle"
    /\ num_chars > - MaxDrift /\ num_newlines > - MaxDrift
    /\ len' = n
    /\ copied' = 0
    /\ Goto("req", IF num_chars < n THEN "test" ELSE StartCopy(n))
    /\ spoiled' = (spoiled \/ Spoils)
    /\ UNCHANGED <<ring, counts, user_buf_len, key, char>>

(* ... and num_newlines, which the copy of a newline that is not yet counted makes  *)
(* negative: then it does not wait either.                                          *)
TestNewlines ==
    /\ at["req"] = "test"
    /\ user_buf_len' = IF num_newlines = 0 THEN len ELSE user_buf_len
    /\ Goto("req", IF num_newlines = 0 THEN "wait" ELSE StartCopy(len))
    /\ spoiled' = (spoiled \/ Spoils \/ num_newlines < 0)
    /\ UNCHANGED <<ring, counts, key, request>>

(* cond_wait returns, and nothing is tested again.                                  *)
Wake ==
    /\ at["req"] = "woken"
    /\ Goto("req", StartCopy(len))
    /\ UNCHANGED <<ring, counts, user_buf_len, key, request, spoiled>>

(* A turn of the copying: the character and the index, then the counts.             *)
Take ==
    /\ at["req"] = "take"
    /\ char' = buffer[consumer]
    /\ consumer' = NextIndex(consumer)
    /\ Goto("req", "count")
    /\ UNCHANGED <<producer, buffer, counts, user_buf_len, key, len, copied, spoiled>>

UncountTaken ==
    /\ at["req"] = "count"
    /\ num_chars' = num_chars - 1
    /\ num_newlines' = IF char = "newline" THEN num_newlines - 1 ELSE num_newlines
    /\ LET last == char = "newline" \/ copied + 1 = len
       IN /\ copied' = IF last THEN 0 ELSE copied + 1
          /\ Goto("req", IF last THEN "idle" ELSE "take")
    /\ UNCHANGED <<ring, user_buf_len, key, len, char, spoiled>>

-----------------------------------------------------------------------------
Interrupt == FindRoom \/ Put \/ CountChar \/ CountNewline \/ FindChar \/ UncountChar
             \/ Back \/ Signal
Serve == TestNewlines \/ Wake \/ Take \/ UncountTaken

Next == \/ \E c \in Key : HandleChar(c)
        \/ \E n \in Length : HandleRequest(n)
        \/ Interrupt
        \/ Serve

(* The scheduler runs both threads, and their mutex is held for one step at a time. *)
(* The user goes on to type newlines.                                               *)
Spec == /\ Init /\ [][Next]_vars
        /\ WF_vars(Interrupt) /\ WF_vars(Serve)
        /\ SF_vars(HandleChar("newline"))

-----------------------------------------------------------------------------
(* Type correctness of the ring, its counts and the two threads.                    *)
TypeOK ==
    /\ producer \in Index /\ consumer \in Index
    /\ buffer \in [Index -> Char]
    /\ num_chars \in Int /\ num_newlines \in Int
    /\ user_buf_len \in Length
    /\ at \in [int : {"idle", "room", "put", "count", "line", "any", "erase", "back", "ready"},
               req : {"idle", "test", "wait", "woken", "take", "count"}]
    /\ key \in Key
    /\ len \in Length
    /\ copied \in 0 .. MaxLen - 1
    /\ char \in Char
    /\ spoiled \in BOOLEAN

(* The slots between the indices, and those of them that hold a newline.            *)
Held == {i \in Index : (i + Size - consumer) % Size < (producer + Size - consumer) % Size}
Newlines == {i \in Held : buffer[i] = "newline"}
One(b) == IF b THEN 1 ELSE 0

(* The two counts are those of the ring, but for what each thread is in the middle  *)
(* of, and the request only takes characters that were typed: unless a backspace    *)
(* was handled while a request copied, a newline was dropped at a full ring and     *)
(* counted, or a request tested the newlines while they were negative.              *)
CountsExact ==
    ~spoiled =>
        /\ num_chars = Cardinality(Held) + One(at["req"] = "count")
                         - One(at["int"] = "count") - One(at["int"] = "back")
        /\ num_newlines = Cardinality(Newlines) + One(at["req"] = "count" /\ char = "newline")
                         - One(at["int"] \in {"count", "line"} /\ key = "newline" )
        /\ at["req"] = "take" => Held # {}

(* A request that waits while there is what it waits for will be woken: the         *)
(* interrupt loop has not yet come to its test. This holds even when the counts are *)
(* wrong, but not of a request for no characters, which readline_ready cannot tell  *)
(* from no request.                                                                 *)
NoMissedLine ==
    at["req"] = "wait" /\ len # 0 /\ (num_newlines > 0 \/ num_chars >= len)
        => at["int"] # "idle"

(* A request that waits, for no matter how many characters but 0, is answered as    *)
(* long as newlines are typed: they count even when the ring is full or its counts  *)
(* are wrong.                                                                       *)
RequestAnswered == at["req"] = "wait" /\ len # 0 ~> at["req"] = "idle"
=============================================================================
