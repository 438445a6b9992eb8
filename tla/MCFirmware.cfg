\* An image with the UART task, one with the USB task, each beside a task of the
\* application, and one of three application tasks.
SPECIFICATION FirmwareSpec
CONSTANTS
    Tasks = {"uart", "usb", "app", "app2", "app3"}
    UartTask = "uart"
    UsbTask = "usb"
    NoTask = "none"
    Images = {{"uart", "app"}, {"usb", "app"}, {"app", "app2", "app3"}}
    TxDepth = 2
    Ops = {"read", "write", "flush"}
    MaxHostEvents = 3
INVARIANTS TypeOK NeverSleepsOnWork UartQuiet LastReportTrue
PROPERTIES WokenTasksArePolled UartOpsEnd BusEventsReported
