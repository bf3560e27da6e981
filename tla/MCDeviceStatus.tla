--------------------------- MODULE MCDeviceStatus ---------------------------
EXTENDS DeviceStatus

UpTo(n, S) == UNION {[1 .. k -> S] : k \in 0 .. n}

QueueLists == UpTo(3, {None, 0, 1, 2, MaxSize - 1, MaxSize})

FewQueues == {<<>>, <<1>>}

FewWindows == {<<>>, <<None>>, <<[day |-> "Monday", start |-> 0, end |-> 1]>>}

SecondWindows == {None, [day |-> "Friday", start |-> 2, end |-> 1]}

FirstWindows == [day : {"Everyday", "Weekdays", "Weekend", "Sunday",
                        "Saturday", "unknown"},
                 start : Times, end : Times] \union {None}

WindowLists == UpTo(1, Windows)
                 \union {<<v, w>> : v \in FirstWindows, w \in SecondWindows}

(* Many lists of queues with few of windows, and the other way round.      *)
MCAnswers == [queues : QueueLists, windows : FewWindows]
               \union [queues : FewQueues, windows : WindowLists]
=============================================================================
