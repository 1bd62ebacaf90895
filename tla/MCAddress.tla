------------------------------ MODULE MCAddress -------------------------------
EXTENDS Address

McHosts4 == {<<127, 0, 0, 1>>, <<10, 20, 255, 0>>, <<192, 168, 100, 200>>}
McHosts6 == {<<0, 0, 0, 0, 0, 0, 0, 1>>,            \* ::1
             <<65152, 0, 0, 0, 0, 0, 0, 1>>,        \* fe80::1
             <<1, 0, 0, 0, 0, 0, 2, 3>>,            \* 1::2:3
             <<8193, 3512, 0, 0, 1, 0, 0, 0>>,      \* 2001:db8:0:0:1::
             <<8193, 0, 0, 1, 0, 0, 0, 4660>>,      \* 2001:0:0:1::1234
             <<1, 2, 3, 4, 5, 6, 7, 43981>>}        \* 1:2:3:4:5:6:7:abcd
McPorts == {-1, 0, 4, 80, 8080, 40000}
McTexts == {<<"h", "o", "s", "t">>,
            <<"1", ".", "2", ".", "3", ".", "4", ":", "7", "0", "0", "0", "0">>,
            <<"[", "1", ".", "2", ".", "3", ".", "4", "]", ":", "8", "0">>,
            <<"1", ":", ":", "2", ":", "8", "0">>,
            <<"[", ":", ":", "1", "]">>}
=============================================================================
