------------------------------ MODULE IoctlTest ------------------------------
(* labs/lab12/driver/ioctl_test.c: after the fork, parent and child issue    *)
(* these commands to the driver.                                             *)
EXTENDS IrqDriver

Five(cmd) == <<cmd, cmd, cmd, cmd, cmd, "SUM">>

Parent ==
  <<"LOCK">> \o Five("INC_0") \o Five("INC_1") \o Five("INC_2")
    \o <<"PRINT0", "RESET", "INC_ALL", "INC_ALL", "SUM", "PRINT1", "RESET",
         "UNLOCK">>

Child ==
  <<"LOCK", "INT", "RESET">>
    \o Five("INC_0") \o Five("INC_1") \o Five("INC_2") \o Five("INC_3")
    \o Five("INC_4") \o <<"PRINT2", "RESET", "UNLOCK">>
===============================================================================
